----------------------------- MODULE MCSession -----------------------------
(***************************************************************************)
(* TLC instance of the data paths of a session: the Vision TCP session,    *)
(* the KeyUpdate exchange of its TLS layer, its handover to a landing, and *)
(* the path MTU search of a UDP carrier.  They share no state, so a        *)
(* behaviour runs one of them, chosen by part, and leaves the others in    *)
(* their initial states.                                                   *)
(*                                                                         *)
(* Three chunks per direction reach every phase of a session with a chunk  *)
(* before and a chunk behind the Direct boundary.  A handoff message has   *)
(* three units: a write can stop before, inside and after it.              *)
(***************************************************************************)
EXTENDS VisionSession, KeyUpdate, HandoffTransfer, PathMtu

VARIABLE part

PathsInit ==
  /\ part \in {"vision", "keys", "handoff", "mtu"}
  /\ SessionInit /\ KeyUpdateInit /\ TransferInit /\ MtuInit
  /\ part # "handoff" => lineEnd[Warm] = "none"
  /\ part # "mtu" => icmp /\ connected /\ path = MaxPlpmtu /\ prober = FixedAt(MaxPlpmtu)

PathsNext ==
  /\ UNCHANGED part
  /\ \/ part = "vision" /\ SessionNext /\ UNCHANGED <<kuVars, transferVars, mtuVars>>
     \/ part = "keys" /\ KeyUpdateNext /\ UNCHANGED <<sessionVars, transferVars, mtuVars>>
     \/ part = "handoff" /\ TransferNext /\ UNCHANGED <<sessionVars, kuVars, mtuVars>>
     \/ part = "mtu" /\ MtuNext /\ UNCHANGED <<sessionVars, kuVars, transferVars>>

\* The fairness of each part's own specification.
PathsSpec ==
  /\ PathsInit /\ [][PathsNext]_<<part, sessionVars, kuVars, transferVars, mtuVars>>
  /\ \A d \in Direction : WF_sessionVars(part = "vision" /\ RawHandoff(d))
  /\ WF_transferVars(part = "handoff" /\ LineStep)
  /\ \A a \in Attempts : WF_transferVars(part = "handoff" /\ LandingStep(a))
  /\ WF_mtuVars(part = "mtu" /\ PollProbe)
  /\ WF_mtuVars(part = "mtu" /\ MtuTick)
=============================================================================
