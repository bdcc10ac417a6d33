--------------------------- MODULE DirectHandoff ---------------------------
(***************************************************************************)
(* The per-session coordinator of the Vision Direct transition:             *)
(*   crates/rr-session/src/vision.rs      lifecycle table and pair plan      *)
(*   crates/rr-session/src/rendezvous.rs  bounded pair window                *)
(*   src/server/direct.rs                 two state cells, four half slots   *)
(*   src/server/vision/relay.rs           who runs which raw relay           *)
(*                                                                          *)
(* Each direction owns one read half and one write half.  A direction that  *)
(* reaches its raw boundary observes its peer for a bounded number of       *)
(* scheduling points, commits to a relay form under the slots mutex, and    *)
(* then either relays its own halves or deposits them; the last depositor   *)
(* gets both sockets back and drives the bilateral relay.                   *)
(*                                                                          *)
(* Granularity: one action per access to the shared cells or slots.  The    *)
(* peer read of the rendezvous and the decision are separate actions; the   *)
(* decision itself is one action because decide() holds the mutex.          *)
(***************************************************************************)
EXTENDS Naturals, FiniteSets

CONSTANT YieldBudget   \* PairRendezvous::YIELD_BUDGET (2 in the code)

ASSUME YieldBudgetAssumption == YieldBudget \in Nat

Direction == {"Uplink", "Downlink"}

DirectionState ==
  {"Framed", "DirectPending", "RawReady", "Outer",
   "Closed", "Failed", "PairPending", "Relaying"}

VARIABLES
  state,      \* the two AtomicU8 cells
  step,       \* where the direction's future stands around the coordinator
  yields,     \* PairRendezvous::yields_remaining
  slots,      \* the directions whose two halves are in HandoffSlots
  grant,      \* the RawRelayGrant a direction was given, if any
  recovered   \* the directions deposit_* returned the reunited sockets to

coordinator == <<state, step, yields, slots, grant, recovered>>

Steps ==
  {"pre",         \* framed, outer, or draining pending bytes
   "rendezvous",  \* RawReady, inside the pair window
   "commit",      \* the window closed, decide() comes next
   "deposit",     \* granted Pair, halves still held
   "left",        \* first depositor: returned Ok, its halves wait in the slots
   "solo",        \* running relay_direction on its own halves
   "pair",        \* running relay_owned on both sockets
   "ended"}       \* returned, or dropped with the session

Peer(d) == IF d = "Uplink" THEN "Downlink" ELSE "Uplink"

\* The lifecycle edges of DirectionState::permits.
Permits(from, to) ==
  \/ from = "Framed" /\ to \in {"DirectPending", "Outer", "Closed", "Failed"}
  \/ from = "DirectPending" /\ to \in {"RawReady", "Closed", "Failed"}
  \/ from = "RawReady" /\ to \in {"PairPending", "Relaying", "Closed", "Failed"}
  \/ from \in {"PairPending", "Relaying", "Outer"} /\ to \in {"Closed", "Failed"}

Init ==
  /\ state = [d \in Direction |-> "Framed"]
  /\ step = [d \in Direction |-> "pre"]
  /\ yields = [d \in Direction |-> 0]
  /\ slots = {}
  /\ grant = [d \in Direction |-> "none"]
  /\ recovered = {}

\* advance(): one compare-and-swap, refused when the table has no such edge.
Advance(d, next) ==
  /\ Permits(state[d], next)
  /\ state' = [state EXCEPT ![d] = next]

\* settle(): advance() with a refusal ignored.
Settled(d, next) ==
  IF Permits(state[d], next) THEN [state EXCEPT ![d] = next] ELSE state

PeerCanPair(d) == state[Peer(d)] \in {"RawReady", "PairPending"}

\* finish_*_direct: the boundary record is through, pending bytes drain next.
EnterDirect(d) ==
  /\ step[d] = "pre"
  /\ Advance(d, "DirectPending")
  /\ UNCHANGED <<step, yields, slots, grant, recovered>>

\* finish_*_direct: pending bytes are on the wire, the boundary is declared.
ReachRaw(d) ==
  /\ step[d] = "pre"
  /\ Advance(d, "RawReady")
  /\ step' = [step EXCEPT ![d] = "rendezvous"]
  /\ yields' = [yields EXCEPT ![d] = YieldBudget]
  /\ UNCHANGED <<slots, grant, recovered>>

\* relay_downlink_framed: padding ended without Direct; only the downlink.
EnterOuter(d) ==
  /\ d = "Downlink"
  /\ step[d] = "pre"
  /\ Advance(d, "Outer")
  /\ UNCHANGED <<step, yields, slots, grant, recovered>>

\* A framed or outer direction reached its end of stream.
FinishFramed(d) ==
  /\ step[d] = "pre"
  /\ state[d] \in {"Framed", "Outer"}
  /\ Advance(d, "Closed")
  /\ step' = [step EXCEPT ![d] = "ended"]
  /\ UNCHANGED <<yields, slots, grant, recovered>>

\* PairRendezvous::step answering Yield.
RendezvousYield(d) ==
  /\ step[d] = "rendezvous"
  /\ ~PeerCanPair(d)
  /\ yields[d] > 0
  /\ yields' = [yields EXCEPT ![d] = @ - 1]
  /\ UNCHANGED <<state, step, slots, grant, recovered>>

RendezvousCommitOnlyPaired(d) ==
  /\ step[d] = "rendezvous"
  /\ PeerCanPair(d)
  /\ step' = [step EXCEPT ![d] = "commit"]
  /\ UNCHANGED <<state, yields, slots, grant, recovered>>

\* PairRendezvous::step answering Commit.
RendezvousCommit(d) ==
  /\ step[d] = "rendezvous"
  /\ PeerCanPair(d) \/ yields[d] = 0
  /\ step' = [step EXCEPT ![d] = "commit"]
  /\ UNCHANGED <<state, yields, slots, grant, recovered>>

PlanMissingCommittedPeer(d) ==
  IF state[Peer(d)] = "RawReady" THEN "Pair" ELSE "Directional"

\* RawRelayTransition::plan: the form follows from the peer's state alone.
Plan(d) == IF PeerCanPair(d) THEN "Pair" ELSE "Directional"

\* decide(): peer read and own transition in one critical section.
Decide(d) ==
  /\ step[d] = "commit"
  /\ grant' = [grant EXCEPT ![d] = Plan(d)]
  /\ \/ /\ Plan(d) = "Pair"
        /\ Advance(d, "PairPending")
        /\ step' = [step EXCEPT ![d] = "deposit"]
     \/ /\ Plan(d) = "Directional"
        /\ Advance(d, "Relaying")
        /\ step' = [step EXCEPT ![d] = "solo"]
  /\ UNCHANGED <<yields, slots, recovered>>

\* deposit_*: the last depositor empties the slots and gets both sockets.
Deposit(d) ==
  /\ step[d] = "deposit"
  /\ \/ /\ Peer(d) \in slots
        /\ slots' = {}
        /\ recovered' = recovered \cup {d}
        /\ step' = [step EXCEPT ![d] = "pair"]
     \/ /\ Peer(d) \notin slots
        /\ slots' = slots \cup {d}
        /\ step' = [step EXCEPT ![d] = "left"]
        /\ UNCHANGED recovered
  /\ UNCHANGED <<state, yields, grant>>

\* run_directional / run_handoff: the raw relay ended, or failed benignly.
FinishRaw(d) ==
  /\ step[d] \in {"solo", "pair"}
  /\ state' = Settled(d, "Closed")
  /\ step' = [step EXCEPT ![d] = "ended"]
  /\ UNCHANGED <<yields, slots, grant, recovered>>

\* try_join! drops both futures, and the coordinator drops with the session.
DropSession ==
  /\ step' = [d \in Direction |-> "ended"]
  /\ slots' = {}
  /\ UNCHANGED <<yields, grant, recovered>>

\* A direction returns Err.  Only a failed framed read and a failed raw relay
\* settle the cell; every other error path leaves it where it stood.  Between
\* the boundary and the relay nothing can fail: the cell is RawReady when
\* decide() runs, and the four halves always belong to the same two sockets.
Fail(d) ==
  /\ step[d] \in {"pre", "solo", "pair"}
  /\ state' \in {Settled(d, "Failed")} \cup
                (IF step[d] = "pre" THEN {state} ELSE {})
  /\ DropSession

\* The idle coordinator expired, or the connection task was aborted.
Abandon ==
  /\ \E d \in Direction : step[d] \notin {"left", "ended"}
  /\ DropSession
  /\ UNCHANGED state

\* Both directions returned Ok.
SessionOver ==
  /\ \A d \in Direction : step[d] \in {"left", "ended"}
  /\ UNCHANGED coordinator

DirectionStep(d) ==
  \/ EnterDirect(d)
  \/ ReachRaw(d)
  \/ EnterOuter(d)
  \/ FinishFramed(d)
  \/ RendezvousYield(d)
  \/ RendezvousCommit(d)
  \/ Decide(d)
  \/ Deposit(d)
  \/ FinishRaw(d)
  \/ Fail(d)

Next ==
  \/ \E d \in Direction : DirectionStep(d)
  \/ Abandon
  \/ SessionOver

\* The steps between the raw boundary and the relay are never waits: each is
\* ready as soon as the executor polls the session task again.
Fairness ==
  \A d \in Direction :
    WF_coordinator(RendezvousYield(d) \/ RendezvousCommit(d) \/ Decide(d) \/ Deposit(d))

Spec == Init /\ [][Next]_coordinator /\ Fairness

-----------------------------------------------------------------------------

TypeOK ==
  /\ state \in [Direction -> DirectionState]
  /\ step \in [Direction -> Steps]
  /\ yields \in [Direction -> 0..YieldBudget]
  /\ slots \subseteq Direction
  /\ grant \in [Direction -> {"none", "Pair", "Directional"}]
  /\ recovered \subseteq Direction

\* decide() never lets the two directions disagree about the form of the raw
\* relay: nobody is granted the pair once the peer relays alone, or the reverse
\* (src/server/direct.rs, "the two directions can never disagree").
NoSplitDecision ==
  \A d \in Direction : ~(grant[d] = "Pair" /\ grant[Peer(d)] = "Directional")

\* Halves put in the slots always have somebody coming for them: while the
\* session lives, the peer of the first depositor stands between its boundary
\* and its own deposit and cannot choose the directional form any more
\* (run_handoff, "strand the deposited halves with no runner").
DepositIsCollected ==
  \A d \in slots :
    /\ step[d] = "left"
    /\ state[d] = "PairPending"
    /\ step[Peer(d)] \in {"rendezvous", "commit", "deposit"}
    /\ grant[Peer(d)] # "Directional"

\* The halves a raw relay moves bytes through are nobody else's: a bilateral
\* relay runs only after both directions gave theirs up, and at most once.
RawRelayOwnsItsHalves ==
  \A d \in Direction :
    step[d] = "pair" =>
      /\ recovered = {d}
      /\ slots = {}
      /\ step[Peer(d)] = "left"

\* What holds between every two steps and carries the three properties above:
\* where a direction's future stands fixes its cell and its grant, and what its
\* peer can still do.
CellMatchesStep(d) ==
  /\ step[d] = "pre" => state[d] \in {"Framed", "DirectPending", "Outer"}
  /\ step[d] \in {"rendezvous", "commit"} => state[d] = "RawReady"
  /\ step[d] \in {"deposit", "left", "pair"} => state[d] = "PairPending"
  /\ step[d] = "solo" => state[d] = "Relaying"
  /\ step[d] = "ended" => state[d] = "Closed" \/ step[Peer(d)] = "ended"

GrantMatchesStep(d) ==
  /\ step[d] \in {"pre", "rendezvous", "commit"} => grant[d] = "none"
  /\ step[d] \in {"deposit", "left", "pair"} => grant[d] = "Pair"
  /\ step[d] = "solo" => grant[d] = "Directional"

PairPartners(d) ==
  /\ d \in slots => step[d] = "left"
  /\ step[d] \in {"pre", "rendezvous", "commit", "deposit", "solo"} => recovered = {}
  /\ step[d] = "deposit" => step[Peer(d)] \in {"rendezvous", "commit", "deposit", "left"}
  /\ step[d] = "left" =>
       \/ /\ d \in slots
          /\ recovered = {}
          /\ step[Peer(d)] \in {"rendezvous", "commit", "deposit"}
       \/ /\ d \notin slots
          /\ recovered = {Peer(d)}
          /\ step[Peer(d)] \in {"pair", "ended"}
  /\ step[d] = "pair" => recovered = {d} /\ slots = {} /\ step[Peer(d)] = "left"
  /\ step[d] \in {"pre", "rendezvous", "commit", "solo"} /\ grant[Peer(d)] = "Pair" =>
       step[d] \in {"rendezvous", "commit"} /\ step[Peer(d)] \in {"deposit", "left"}

\* The inductive invariant of the coordinator.
HandoffInv ==
  /\ TypeOK
  /\ NoSplitDecision
  /\ \A d \in Direction : CellMatchesStep(d) /\ GrantMatchesStep(d) /\ PairPartners(d)

\* A direction at its raw boundary never waits for its peer: the pair window
\* closes and the direction relays, leaves its halves, or the session ends
\* (decide_raw_relay, "Never a sleep, a timer, or a wait on the peer").
RawBoundaryNeverWaits ==
  \A d \in Direction :
    (step[d] = "rendezvous") ~> (step[d] \in {"left", "solo", "pair", "ended"})

\* The form a direction is bound to, seen from outside: once one direction is
\* granted the pair, its peer is bound to it before it has decided itself.
Form ==
  [d \in Direction |->
     IF grant[d] = "Directional" THEN "solo"
     ELSE IF grant[d] = "Pair" \/ grant[Peer(d)] = "Pair" THEN "pair"
     ELSE "undecided"]

Agreement == INSTANCE RawRelayAgreement WITH form <- Form, driver <- recovered

\* Two separate decisions implement one indivisible agreement.
ImplementsAgreement == Agreement!Spec
=============================================================================
