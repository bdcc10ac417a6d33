------------------------------ MODULE MCPools ------------------------------
(***************************************************************************)
(* TLC instance of the state that concurrent tasks share behind small      *)
(* locks: the admission pools, the direct-dial rate gate, the leases of    *)
(* XUDP identifiers, the pools of the raw relay and the cover-profile      *)
(* cache.  They share no state, so a behaviour runs one of them, chosen by *)
(* part, and leaves the others in their initial states.                    *)
(*                                                                         *)
(* The admission pools are a governor pool and the direct-dial barrier.    *)
(* Two dials race a controller that moves among closed, slow and fast.     *)
(* Three associations of two users compete for two identifiers, of which   *)
(* the table holds one.  Two relays of both directions and one of a single *)
(* direction want two buffers and two splice permits.  Two handshakes of   *)
(* one class meet a cover cache that has room for it.                      *)
(***************************************************************************)
EXTENDS Admission, DialRateGate, XudpLease, RelayPools, CoverProfiles

VARIABLE part

MCHard == [p \in Pool |-> IF p = "Direct" THEN 2 ELSE 1]

PoolsInit ==
    /\ part \in {"pools", "rate", "leases", "relays", "cover"}
    /\ AdmissionInit /\ GateInit /\ LeaseInit /\ RelayInit /\ CoverInit
    /\ part # "rate" => interval = 0

PoolsNext ==
    /\ UNCHANGED part
    /\ \/ part = "pools" /\ AdmissionNext /\ UNCHANGED <<gateVars, leaseVars, relayVars, coverVars>>
       \/ part = "rate" /\ GateNext /\ UNCHANGED <<admissionVars, leaseVars, relayVars, coverVars>>
       \/ part = "leases" /\ LeaseNext /\ UNCHANGED <<admissionVars, gateVars, relayVars, coverVars>>
       \/ part = "relays" /\ RelayNext /\ UNCHANGED <<admissionVars, gateVars, leaseVars, coverVars>>
       \/ part = "cover" /\ CoverNext /\ UNCHANGED <<admissionVars, gateVars, leaseVars, relayVars>>

PoolsSpec == PoolsInit /\ [][PoolsNext]_<<part, admissionVars, gateVars, leaseVars, relayVars, coverVars>>
=============================================================================
