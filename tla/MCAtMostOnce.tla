---------------------------- MODULE MCAtMostOnce ----------------------------
(***************************************************************************)
(* TLC instance of the two replay filters: the cache of authenticated      *)
(* handshakes and the UDP channel of an association with its nonces and    *)
(* windows.  They share no state, so a behaviour runs one of them, chosen  *)
(* by part, and leaves the other in its initial state.                     *)
(*                                                                         *)
(* Two handshakes over two keys, each key in a shard of its own: they race *)
(* for one key, or for the permits over two shards.  The keys are          *)
(* interchangeable, so the first handshake has the first key.  Four uplink *)
(* packets leave a window of two bits behind.                              *)
(***************************************************************************)
EXTENDS ReplayCache, UdpChannel

CONSTANTS h1, k1

VARIABLE part

TwoShards == [k \in Key |-> k]

OnceInit ==
    /\ part \in {"replay", "udp"}
    /\ ReplayInit /\ ChannelInit
    /\ key[h1] = k1
    /\ part # "replay" => key = [h \in Handshake |-> k1]

OnceNext ==
    /\ UNCHANGED part
    /\ \/ part = "replay" /\ ReplayNext /\ UNCHANGED channelVars
       \/ part = "udp" /\ ChannelNext /\ UNCHANGED vars

\* The fairness of each part's own specification.
OnceSpec ==
    /\ OnceInit /\ [][OnceNext]_<<part, vars, channelVars>>
    /\ WF_vars(part = "replay" /\ ClockTick)
    /\ WF_vars(part = "replay" /\ MonitorSample)
    /\ \A s \in Shard : WF_vars(part = "replay" /\ MonitorPurge(s))
    /\ WF_channelVars(part = "udp" /\ Tick)
    /\ WF_channelVars(part = "udp" /\ Sweep)
=============================================================================
