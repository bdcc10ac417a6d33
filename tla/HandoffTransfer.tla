-------------------------- MODULE HandoffTransfer --------------------------
(* One client session moved from the line node to the landing over TCP.      *)
(*                                                                           *)
(* The line's side is relay_via_handoff with HandoffLine::transfer: one      *)
(* attempt on a pooled connection, one on a fresh connection, the write that *)
(* commits the session to its connection, the probe for the landing's first  *)
(* byte, the raw relay. The landing's side is HandoffLanding::handle, with   *)
(* begin_authentication and the retirement of its generation, one handler    *)
(* per connection. TCP is external: it delivers a prefix of what was         *)
(* submitted, and a close is seen some time after it was made.               *)
EXTENDS Naturals, FiniteSets

CONSTANTS
    MessageLen,     \* length of a sealed transfer, in units a write may split
    Faults          \* which of "io", "timeout", "reclaim", "refuse", "cancel" occur

Warm == "warm"
Cold == "cold"
Attempts == {Warm, Cold}

ASSUME MessageAssumption == MessageLen \in Nat \ {0}
ASSUME FaultsAssumption ==
    Faults \subseteq {"io", "timeout", "reclaim", "refuse", "cancel"}

VARIABLES
    pc,         \* where the line's session task is
    attempt,    \* the connection it works on
    client,     \* the client's socket: "open", "served", "fin", "reset"
    wire,       \* per connection, how much of its message was submitted
    lineEnd,    \* per connection, the line's end of it
    handler,    \* per connection, where the landing's handler is
    got,        \* per connection, how much the handler has read
    retiring,   \* per connection, whether its generation is the old one
    woken,      \* per connection, whether its Notified was notified
    answered,   \* per connection, whether downlink records reached the line
    claimed,    \* the connections whose transfer was opened and resumed
    reload      \* how far the landing's reload is

lineVars == <<pc, attempt, client>>
landVars == <<handler, got, retiring, woken>>
transferVars ==
    <<pc, attempt, client, wire, lineEnd, handler, got, retiring, woken, answered, claimed,
      reload>>

\* A pooled connection, when there is one, was accepted by the landing's
\* present generation and has carried no byte.
TransferInit ==
    /\ pc = "start" /\ attempt = Warm /\ client = "open"
    /\ wire = [a \in Attempts |-> 0]
    /\ \E pooled \in SUBSET {Warm} :
          lineEnd = [a \in Attempts |-> IF a \in pooled THEN "open" ELSE "none"]
    /\ handler = [a \in Attempts |-> IF lineEnd[a] = "open" THEN "accepted" ELSE "none"]
    /\ got = [a \in Attempts |-> 0]
    /\ retiring = [a \in Attempts |-> FALSE]
    /\ woken = [a \in Attempts |-> FALSE]
    /\ answered = [a \in Attempts |-> FALSE]
    /\ claimed = {}
    /\ reload = "none"

-----------------------------------------------------------------------------
(* The line                                                                  *)

\* pool.checkout(): the pooled connection when there is one, whatever the
\* landing has done to its end meanwhile; otherwise the cold path.
Checkout ==
    /\ pc = "start"
    /\ \/ lineEnd[Warm] = "open" /\ pc' = "write"
       \/ lineEnd[Warm] = "none" /\ pc' = "dial"
    /\ UNCHANGED <<attempt, client, wire, lineEnd, landVars, answered, claimed, reload>>

\* One write of write_all_counted_before. The write that submits the last
\* byte commits the session to this connection.
Write(n) ==
    /\ pc = "write"
    /\ wire[attempt] + n <= MessageLen
    /\ wire' = [wire EXCEPT ![attempt] = @ + n]
    /\ pc' = IF wire'[attempt] = MessageLen THEN "probe" ELSE pc
    /\ UNCHANGED <<attempt, client, lineEnd, landVars, answered, claimed, reload>>

\* The session ends while the client guard is armed: the client is reset, and
\* the handoff stream, when there is one, is closed as "how".
ResetClient(how) ==
    /\ pc' = "ended"
    /\ client' = "reset"
    /\ lineEnd' = [lineEnd EXCEPT ![attempt] = IF @ = "open" THEN how ELSE @]
    /\ UNCHANGED <<attempt, wire, landVars, answered, claimed, reload>>

\* The write fails or runs into its deadline before the last byte: a pooled
\* connection is discarded for one cold attempt, a cold one ends the session.
Discard ==
    /\ pc' = "dial"
    /\ lineEnd' = [lineEnd EXCEPT ![attempt] = "fin"]
    /\ UNCHANGED <<attempt, client, wire, landVars, answered, claimed, reload>>

\* A mutant: a deadline that passes after the last byte counts as a failure.
WriteFailsLate ==
    /\ pc \in {"write", "probe"}
    /\ "io" \in Faults \/ handler[attempt] = "closed"
    /\ IF attempt = Warm THEN Discard ELSE ResetClient("fin")

WriteFails ==
    /\ pc = "write"
    /\ wire[attempt] < MessageLen
    /\ "io" \in Faults \/ handler[attempt] = "closed"
    /\ IF attempt = Warm THEN Discard ELSE ResetClient("fin")

SealFails ==
    /\ pc = "write" /\ wire[attempt] = 0
    /\ "refuse" \in Faults
    /\ ResetClient("fin")

Dial ==
    /\ pc = "dial"
    /\ pc' = "write"
    /\ attempt' = Cold
    /\ lineEnd' = [lineEnd EXCEPT ![Cold] = "open"]
    /\ handler' = [handler EXCEPT ![Cold] = "accepted"]
    /\ retiring' = [retiring EXCEPT ![Cold] = FALSE]
    /\ UNCHANGED <<client, wire, got, woken, answered, claimed, reload>>

\* Descriptor budget, timeout or a refused connection.
DialFails ==
    /\ pc = "dial"
    /\ "io" \in Faults
    /\ ResetClient("fin")

\* A mutant: silence until the deadline is taken for a landing at work.
ProbeWaits ==
    /\ pc = "probe"
    /\ handler[attempt] = "closed" /\ ~answered[attempt]
    /\ ResetClient("reset")

\* first_downlink_landed: the first byte, a close without one, the deadline.
ProbeLands ==
    /\ pc = "probe"
    /\ answered[attempt]
    /\ pc' = "relay"
    /\ client' = "served"
    /\ UNCHANGED <<attempt, wire, lineEnd, landVars, answered, claimed, reload>>

ProbeRejects ==
    /\ pc = "probe"
    /\ (handler[attempt] = "closed" /\ ~answered[attempt]) \/ "timeout" \in Faults
    /\ ResetClient("reset")

\* The session task is dropped at one of its awaits. Inside the probe both
\* guards are armed, before it only the client's.
Cancel ==
    /\ pc \in {"write", "dial", "probe"}
    /\ "cancel" \in Faults
    /\ ResetClient(IF pc = "probe" THEN "reset" ELSE "fin")

\* relay_owned closes both sockets: in order when both directions ended, by a
\* reset on an error. A relay that moved nothing downlink is reported as a
\* rejection, after the sockets are closed.
RelayEnds ==
    /\ pc = "relay"
    /\ \E how \in {"fin", "reset"} :
          /\ client' = how
          /\ lineEnd' = [lineEnd EXCEPT ![attempt] = how]
    /\ pc' = "ended"
    /\ UNCHANGED <<attempt, wire, landVars, answered, claimed, reload>>

-----------------------------------------------------------------------------
(* The landing                                                               *)

Become(a, place) == handler' = [handler EXCEPT ![a] = place]

\* begin_authentication: the idle permit, then the first poll of
\* wait_deactivated - load, register, load again - and of the other branches.
AcquireIdle(a) ==
    /\ handler[a] = "accepted"
    /\ \/ Become(a, "checking")
       \/ "refuse" \in Faults /\ Become(a, "closed")
    /\ UNCHANGED <<lineVars, wire, lineEnd, got, retiring, woken, answered, claimed, reload>>

Deactivated(a) == retiring[a] /\ reload \in {"swapped", "notified"}

CheckActive(a) ==
    /\ handler[a] = "checking"
    /\ Become(a, IF Deactivated(a) THEN "closed" ELSE "registering")
    /\ UNCHANGED <<lineVars, wire, lineEnd, got, retiring, woken, answered, claimed, reload>>

Register(a) ==
    /\ handler[a] = "registering"
    /\ Become(a, "rechecking")
    /\ UNCHANGED <<lineVars, wire, lineEnd, got, retiring, woken, answered, claimed, reload>>

Recheck(a) ==
    /\ handler[a] = "rechecking"
    /\ Become(a, IF Deactivated(a) THEN "closed" ELSE "idle")
    /\ UNCHANGED <<lineVars, wire, lineEnd, got, retiring, woken, answered, claimed, reload>>

\* The branches of the biased select, in their order.
Retired(a) ==
    /\ handler[a] = "idle" /\ woken[a]
    /\ Become(a, "closed")
    /\ UNCHANGED <<lineVars, wire, lineEnd, got, retiring, woken, answered, claimed, reload>>

Reclaimed(a) ==
    /\ handler[a] = "idle" /\ ~woken[a]
    /\ "reclaim" \in Faults
    /\ Become(a, "closed")
    /\ UNCHANGED <<lineVars, wire, lineEnd, got, retiring, woken, answered, claimed, reload>>

\* Byte one, and the exchange of the idle permit for a handshake permit.
FirstByte(a) ==
    /\ handler[a] = "idle" /\ ~woken[a]
    /\ wire[a] > 0
    /\ \/ Become(a, "reading") /\ got' = [got EXCEPT ![a] = 1]
       \/ "refuse" \in Faults /\ Become(a, "closed") /\ UNCHANGED got
    /\ UNCHANGED <<lineVars, wire, lineEnd, retiring, woken, answered, claimed, reload>>

PeerClosed(a) ==
    /\ handler[a] \in {"idle", "reading"}
    /\ handler[a] = "idle" => ~woken[a]
    /\ lineEnd[a] \in {"fin", "reset"}
    /\ lineEnd[a] = "fin" => got[a] = wire[a] /\ got[a] < MessageLen
    /\ Become(a, "closed")
    /\ UNCHANGED <<lineVars, wire, lineEnd, got, retiring, woken, answered, claimed, reload>>

\* read_exact_before
Read(a) ==
    /\ handler[a] = "reading"
    /\ got[a] < wire[a]
    /\ got' = [got EXCEPT ![a] = @ + 1]
    /\ UNCHANGED <<lineVars, wire, lineEnd, handler, retiring, woken, answered, claimed, reload>>

ReadTimesOut(a) ==
    /\ handler[a] = "reading"
    /\ got[a] < MessageLen
    /\ "timeout" \in Faults
    /\ Become(a, "closed")
    /\ UNCHANGED <<lineVars, wire, lineEnd, got, retiring, woken, answered, claimed, reload>>

\* open_transfer, into_parts and resume_tls on the complete message: the
\* window, the nonce, the keys or the state may refuse it.
Open(a) ==
    /\ handler[a] = "reading"
    /\ got[a] = MessageLen
    /\ \/ Become(a, "dialing") /\ claimed' = claimed \cup {a}
       \/ "refuse" \in Faults /\ Become(a, "closed") /\ UNCHANGED claimed
    /\ UNCHANGED <<lineVars, wire, lineEnd, got, retiring, woken, answered, reload>>

\* The destination, over the egress or the connector.
DialDestination(a) ==
    /\ handler[a] = "dialing"
    /\ \/ Become(a, "resumed")
       \/ "refuse" \in Faults /\ Become(a, "closed")
    /\ UNCHANGED <<lineVars, wire, lineEnd, got, retiring, woken, answered, claimed, reload>>

\* run_resumed_session sends its first record; it ends when it likes.
Answer(a) ==
    /\ handler[a] = "resumed" /\ ~answered[a]
    /\ answered' = [answered EXCEPT ![a] = TRUE]
    /\ UNCHANGED <<lineVars, wire, lineEnd, landVars, claimed, reload>>

ResumedEnds(a) ==
    /\ handler[a] = "resumed"
    /\ answered[a] \/ lineEnd[a] # "open" \/ "io" \in Faults
    /\ Become(a, "closed")
    /\ UNCHANGED <<lineVars, wire, lineEnd, got, retiring, woken, answered, claimed, reload>>

\* A reload publishes the next generation, then PreAuthGeneration::deactivate
\* clears the flag of the old one and notifies its waiters.
Publish ==
    /\ reload = "none"
    /\ reload' = "published"
    /\ retiring' = [a \in Attempts |-> handler[a] # "none"]
    /\ UNCHANGED <<lineVars, wire, lineEnd, handler, got, woken, answered, claimed>>

DeactivateSwap ==
    /\ reload = "published"
    /\ reload' = "swapped"
    /\ UNCHANGED <<lineVars, wire, lineEnd, landVars, answered, claimed>>

DeactivateNotify ==
    /\ reload = "swapped"
    /\ reload' = "notified"
    /\ woken' = [a \in Attempts |->
          woken[a] \/ (retiring[a] /\ handler[a] \in {"rechecking", "idle"})]
    /\ UNCHANGED <<lineVars, wire, lineEnd, handler, got, retiring, answered, claimed>>

-----------------------------------------------------------------------------
LineStep ==
    \/ Checkout \/ (\E n \in 1..MessageLen : Write(n)) \/ WriteFails \/ SealFails
    \/ Dial \/ DialFails \/ ProbeLands \/ ProbeRejects

LandingStep(a) ==
    \/ AcquireIdle(a) \/ CheckActive(a) \/ Register(a) \/ Recheck(a) \/ Retired(a)
    \/ Reclaimed(a) \/ FirstByte(a) \/ PeerClosed(a) \/ Read(a) \/ ReadTimesOut(a)
    \/ Open(a) \/ DialDestination(a)

SessionStep(a) == Answer(a) \/ ResumedEnds(a)

TransferNext ==
    \/ LineStep \/ Cancel \/ RelayEnds
    \/ \E a \in Attempts : LandingStep(a) \/ SessionStep(a)
    \/ Publish \/ DeactivateSwap \/ DeactivateNotify

TransferSafety == TransferInit /\ [][TransferNext]_transferVars

\* The line's task is polled and its deadlines fire; so are the handlers. The
\* destination need not answer, a session need not end, nobody has to reload.
TransferSpec ==
    /\ TransferSafety
    /\ WF_transferVars(LineStep)
    /\ \A a \in Attempts : WF_transferVars(LandingStep(a))

-----------------------------------------------------------------------------
TransferTypeOK ==
    /\ pc \in {"start", "write", "dial", "probe", "relay", "ended"}
    /\ attempt \in Attempts
    /\ client \in {"open", "served", "fin", "reset"}
    /\ wire \in [Attempts -> 0..MessageLen]
    /\ lineEnd \in [Attempts -> {"none", "open", "fin", "reset"}]
    /\ handler \in [Attempts ->
          {"none", "accepted", "checking", "registering", "rechecking", "idle", "reading",
           "dialing", "resumed", "closed"}]
    /\ got \in [Attempts -> 0..MessageLen]
    /\ retiring \in [Attempts -> BOOLEAN]
    /\ woken \in [Attempts -> BOOLEAN]
    /\ answered \in [Attempts -> BOOLEAN]
    /\ claimed \in SUBSET Attempts
    /\ reload \in {"none", "published", "swapped", "notified"}

\* The session as the client and the landings see it.
Handover == INSTANCE HandoverOnce

\* relay_via_handoff and handle together hand a session over at most once,
\* serve the client only over the connection whose handler resumed it, and
\* never end an unserved client's stream with a FIN.
ImplementsHandover == Handover!HandoverSpec

\* begin_authentication never waits through a retirement: a handler that is
\* idle after deactivate has notified was itself notified, so its next poll
\* takes the first branch.
NoLostRetirement ==
    \A a \in Attempts :
        handler[a] = "idle" /\ retiring[a] /\ reload = "notified" => woken[a]

\* transfer and the probe settle every session they have begun with: it
\* reaches the relay or its end, whatever the landing does.
TransferSettles == pc \in {"write", "dial", "probe"} ~> pc \in {"relay", "ended"}

\* "no connection is dropped by any of them": with no other fault, a reload
\* of the landing leaves every client unreset until it was served.
ReloadDropsNothing == client = "reset" => answered[attempt]
=============================================================================
