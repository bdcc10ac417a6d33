----------------------------- MODULE MCAdaptive -----------------------------
(* Startup values derived for a 64-CPU machine, with the built-in defaults: *)
(* the handshake pool, and the direct-dial concurrency and rate.           *)
EXTENDS Adaptive

MCStartup == [k \in Knob |-> CASE k = "Handshakes" -> 64 * 128
                              [] k = "DirectConcurrent" -> 64 * 512
                              [] k = "DirectPerSecond" -> 64 * 2048]
MCDefault == [k \in Knob |-> CASE k = "Handshakes" -> 1024
                              [] k = "DirectConcurrent" -> 2048
                              [] k = "DirectPerSecond" -> 4096]
MCQuantum == [k \in Knob |-> IF k = "DirectPerSecond" THEN 16 ELSE 64]
=============================================================================
