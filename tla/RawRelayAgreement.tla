------------------------- MODULE RawRelayAgreement -------------------------
(***************************************************************************)
(* What the two directions of a Vision session promise each other about    *)
(* the raw phase (module documentation of src/server/direct.rs): the form   *)
(* of the raw relay is one agreement, not two opinions.  Either both        *)
(* directions are committed to the bilateral pair, in one indivisible       *)
(* step, or a direction goes solo; and a pair is driven by one direction.   *)
(***************************************************************************)

CONSTANT Direction

VARIABLES
  form,    \* the relay form each direction is committed to
  driver   \* the directions that have driven a bilateral relay

vars == <<form, driver>>

Init ==
  /\ form = [d \in Direction |-> "undecided"]
  /\ driver = {}

AgreePair ==
  /\ \A d \in Direction : form[d] = "undecided"
  /\ form' = [d \in Direction |-> "pair"]
  /\ UNCHANGED driver

GoSolo(d) ==
  /\ form[d] = "undecided"
  /\ form' = [form EXCEPT ![d] = "solo"]
  /\ UNCHANGED driver

Drive(d) ==
  /\ \A e \in Direction : form[e] = "pair"
  /\ driver = {}
  /\ driver' = {d}
  /\ UNCHANGED form

Next ==
  \/ AgreePair
  \/ \E d \in Direction : GoSolo(d) \/ Drive(d)

Spec == Init /\ [][Next]_vars
=============================================================================
