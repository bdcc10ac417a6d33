------------------------------ MODULE MCEgress ------------------------------
(***************************************************************************)
(* TLC instance of the ways out of the process: the warm pool of a LINE,   *)
(* the resolver's single flights, the happy-eyeballs connector and the     *)
(* client's race between two LINEs.  They share no state, so a behaviour   *)
(* runs one of them, chosen by part, and leaves the others in their        *)
(* initial states.                                                         *)
(***************************************************************************)
EXTENDS WarmPool, DnsFlight, Connector, ClientRace

CONSTANT n1

VARIABLE part

EgressInit ==
    /\ part \in {"warm", "dns", "connect", "race"}
    /\ WarmInit /\ DnsInit /\ ConnectorInit /\ RaceInit
    /\ part # "dns" => name = [r \in Request |-> n1]
    /\ part # "connect" => addresses = 1 /\ ~mixed /\ spare = 0

EgressNext ==
    /\ UNCHANGED part
    /\ \/ part = "warm" /\ WarmNext /\ UNCHANGED <<dnsVars, connectorVars, raceVars>>
       \/ part = "dns" /\ DnsNext /\ UNCHANGED <<vars, connectorVars, raceVars>>
       \/ part = "connect" /\ ConnectorNext /\ UNCHANGED <<vars, dnsVars, raceVars>>
       \/ part = "race" /\ RaceNext /\ UNCHANGED <<vars, dnsVars, connectorVars>>

\* The fairness of each part's own specification.
EgressSpec ==
    /\ EgressInit /\ [][EgressNext]_<<part, vars, dnsVars, connectorVars, raceVars>>
    /\ \A p \in Pool :
          /\ WF_vars(part = "warm" /\ Runs(p))
          /\ WF_vars(part = "warm" /\ Deactivate(p) /\ retire[p] # "no")
=============================================================================
