------------------------------ MODULE MCLimits ------------------------------
(***************************************************************************)
(* TLC instance of the descriptor budget and of the adaptive controller.   *)
(* They share no state, so a behaviour runs one of them, chosen by part,   *)
(* and leaves the other in its initial state.                              *)
(*                                                                         *)
(* Capacity 6 separates the two descriptor watermarks (5 and 4): two       *)
(* 3-unit permits fill the budget and any other pair is refused.  The      *)
(* knobs have the startup values derived for a 64-CPU machine, with the    *)
(* built-in defaults.                                                      *)
(***************************************************************************)
EXTENDS FdBudget, Adaptive

VARIABLE part

MCStartup == [k \in Knob |-> CASE k = "Handshakes" -> 64 * 128
                              [] k = "DirectConcurrent" -> 64 * 512
                              [] k = "DirectPerSecond" -> 64 * 2048]
MCDefault == [k \in Knob |-> CASE k = "Handshakes" -> 1024
                              [] k = "DirectConcurrent" -> 2048
                              [] k = "DirectPerSecond" -> 4096]
MCQuantum == [k \in Knob |-> IF k = "DirectPerSecond" THEN 16 ELSE 64]

LimitsInit ==
    /\ part \in {"descriptors", "adaptive"}
    /\ FdInit /\ AdaptiveInit

LimitsNext ==
    /\ UNCHANGED part
    /\ \/ part = "descriptors" /\ FdNext /\ UNCHANGED adaptiveVars
       \/ part = "adaptive" /\ AdaptiveNext /\ UNCHANGED fdVars

\* The fairness of FdSpec and of AdaptiveSpec, each in its part.
LimitsSpec ==
    /\ LimitsInit /\ [][LimitsNext]_<<part, fdVars, adaptiveVars>>
    /\ WF_fdVars(part = "descriptors" /\ Watch)
    /\ \A t \in Task : WF_fdVars(part = "descriptors" /\ Proceed(t))
    /\ WF_adaptiveVars(part = "adaptive" /\ ControllerTick)
    /\ WF_adaptiveVars(part = "adaptive" /\ Sample)
=============================================================================
