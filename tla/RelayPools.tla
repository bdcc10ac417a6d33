----------------------------- MODULE RelayPools -----------------------------
(***************************************************************************)
(* The process-wide pools of the raw TCP relay (transport/tcp_relay.rs):   *)
(* splice permits and recycled pipes, taken without waiting, and userspace *)
(* buffers behind a semaphore that relays do wait for.  A relay tries      *)
(* splice first and falls back to buffers before its first byte.           *)
(*                                                                         *)
(* Every caller asks for the automatic order, splice and then buffers;     *)
(* MaxSplice = 0 is splice turned off and Keep = 0 is no pipe pool.        *)
(* Bytes are abstracted to whose bytes a pipe holds.  The descriptor       *)
(* budget is module FdBudget; here a new pipe may be refused at any time,  *)
(* by the budget or by pipe2.  Peers end a relay when they like, or never. *)
(***************************************************************************)
EXTENDS Integers, Sequences, FiniteSets, FiniteSetsExt

CONSTANTS Relay,
          Bilateral,    \* the relays of both directions; the others relay one
          Pipe,         \* the pipes that may be open at once
          MaxBuffers,   \* max_pooled_buffers, at least 2
          MaxSplice,    \* max_splice_relays
          Keep          \* max_pooled_pipes

ASSUME RelayAssumption == /\ IsFiniteSet(Relay) /\ Bilateral \subseteq Relay
                          /\ MaxBuffers \in Nat /\ MaxBuffers >= 2

VARIABLES
    relay,         \* where each relay's code is
    leased,        \* relay: the pipes it took, the uplink's first
    idlePipes,     \* PipePool.free
    inPipe,        \* pipe: the relay whose bytes it holds, or Drained
    spliceFree,    \* SplicePool.permits
    bufferFree,    \* BufferPoolInner.permits
    bufferQueue,   \* relays waiting for those, in order
    available,     \* idle buffers
    bufferHeld     \* relay: buffers it holds

relayVars == <<relay, leased, idlePipes, inPipe, spliceFree, bufferFree, bufferQueue,
               available, bufferHeld>>
pipeVars == <<leased, idlePipes, inPipe, spliceFree>>
bufferVars == <<bufferFree, bufferQueue, available, bufferHeld>>

Drained == "drained"
Elements(s) == {s[i] : i \in DOMAIN s}
Needed(r) == IF r \in Bilateral THEN 2 ELSE 1
OpenPipes == Elements(idlePipes) \cup UNION {Elements(leased[r]) : r \in Relay}
GoTo(r, p) == relay' = [relay EXCEPT ![r] = p]

RelayTypeOK ==
    /\ relay \in [Relay -> {"idle", "take", "pump", "return", "decline", "acquire",
                            "wait", "fill", "copy", "drop"}]
    /\ \A r \in Relay : leased[r] \in Seq(Pipe) /\ Len(leased[r]) <= Needed(r)
    /\ idlePipes \in Seq(Pipe) /\ Len(idlePipes) <= Keep
    /\ inPipe \in [Pipe -> Relay \cup {Drained}]
    /\ spliceFree \in 0 .. MaxSplice /\ bufferFree \in 0 .. MaxBuffers
    /\ bufferQueue \in Seq(Relay) /\ available \in 0 .. MaxBuffers
    /\ bufferHeld \in [Relay -> 0 .. 2]

RelayInit ==
    /\ relay = [r \in Relay |-> "idle"]
    /\ leased = [r \in Relay |-> <<>>] /\ idlePipes = <<>>
    /\ inPipe = [p \in Pipe |-> Drained]
    /\ spliceFree = MaxSplice /\ bufferFree = MaxBuffers
    /\ bufferQueue = <<>> /\ available = 0
    /\ bufferHeld = [r \in Relay |-> 0]

-----------------------------------------------------------------------------
(* Splice.                                                                  *)

\* run, try_relay: a splice permit is taken at once or splice declines.
Start(r) ==
    /\ relay[r] = "idle"
    /\ IF spliceFree > 0 THEN spliceFree' = spliceFree - 1 /\ GoTo(r, "take")
       ELSE GoTo(r, "acquire") /\ UNCHANGED spliceFree
    /\ UNCHANGED <<leased, idlePipes, inPipe, bufferVars>>

Leases(r, p) ==
    /\ leased' = [leased EXCEPT ![r] = Append(@, p)]
    /\ GoTo(r, IF Len(leased[r]) + 1 = Needed(r) THEN "pump" ELSE "take")

\* PipePool::take: the last pipe returned, with whatever it holds.
TakeIdle(r) ==
    /\ relay[r] = "take" /\ idlePipes # <<>>
    /\ Leases(r, idlePipes[Len(idlePipes)])
    /\ idlePipes' = SubSeq(idlePipes, 1, Len(idlePipes) - 1)
    /\ UNCHANGED <<inPipe, spliceFree, bufferVars>>

\* PipePool::take on a miss: a new pipe, which is empty.
TakeNew(r) ==
    /\ relay[r] = "take" /\ idlePipes = <<>>
    /\ \E p \in Pipe \ OpenPipes : Leases(r, p)
    /\ UNCHANGED <<idlePipes, inPipe, spliceFree, bufferVars>>

\* The budget or pipe2 refuses: a pipe already taken goes back first.
TakeRefused(r) ==
    /\ relay[r] = "take" /\ idlePipes = <<>>
    /\ GoTo(r, "decline") /\ UNCHANGED <<pipeVars, bufferVars>>

\* splice_pump: bytes enter a pipe that was emptied, and leave it.
SpliceIn(r) ==
    /\ relay[r] = "pump"
    /\ \E p \in Elements(leased[r]) :
          inPipe[p] = Drained /\ inPipe' = [inPipe EXCEPT ![p] = r]
    /\ UNCHANGED <<relay, leased, idlePipes, spliceFree, bufferVars>>

SpliceOut(r) ==
    /\ relay[r] = "pump"
    /\ \E p \in Elements(leased[r]) :
          inPipe[p] # Drained /\ inPipe' = [inPipe EXCEPT ![p] = Drained]
    /\ UNCHANGED <<relay, leased, idlePipes, spliceFree, bufferVars>>

\* Both directions reach EOF, or one fails and try_join! drops the other in
\* the middle of a chunk.
PumpEnds(r) ==
    /\ relay[r] = "pump"
    /\ GoTo(r, "return") /\ UNCHANGED <<pipeVars, bufferVars>>

\* Closing a pipe discards what it holds.
Close(ps) == inPipe' = [p \in Pipe |-> IF p \in ps THEN Drained ELSE inPipe[p]]

\* Bug: a pipe is recycled without asking what is queued in it.
RecyclableUnasked(p) == Len(idlePipes) < Keep
\* give_back keeps a pipe that is drained, up to the keep count.
Recyclable(p) == inPipe[p] = Drained /\ Len(idlePipes) < Keep

GiveBackPipe(r) ==
    /\ relay[r] \in {"return", "decline"} /\ leased[r] # <<>>
    /\ LET p == Head(leased[r])
       IN IF Recyclable(p) THEN idlePipes' = Append(idlePipes, p) /\ UNCHANGED inPipe
          ELSE Close({p}) /\ UNCHANGED idlePipes
    /\ leased' = [leased EXCEPT ![r] = Tail(@)]
    /\ UNCHANGED <<relay, spliceFree, bufferVars>>

\* The splice permit is dropped last; a declined relay turns to the buffers.
SpliceOver(r) ==
    /\ relay[r] \in {"return", "decline"} /\ leased[r] = <<>>
    /\ spliceFree' = spliceFree + 1
    /\ GoTo(r, IF relay[r] = "decline" THEN "acquire" ELSE "idle")
    /\ UNCHANGED <<leased, idlePipes, inPipe, bufferVars>>

\* The relay's future is dropped: its pipes close, whatever they hold.
CancelPump(r) ==
    /\ relay[r] = "pump"
    /\ leased' = [leased EXCEPT ![r] = <<>>]
    /\ Close(Elements(leased[r]))
    /\ spliceFree' = spliceFree + 1 /\ GoTo(r, "idle")
    /\ UNCHANGED <<idlePipes, bufferVars>>

-----------------------------------------------------------------------------
(* Buffers.  The semaphore is tokio's: first come, first served, and the    *)
(* first in the queue keeps everyone behind it waiting.                     *)

\* Permits the first k of queue q ask for, and how many of q are served by n.
AskedBy(q, k) == k + Cardinality({i \in 1 .. k : q[i] \in Bilateral})
Served(q, n) == Max({k \in 0 .. Len(q) : AskedBy(q, k) <= n})

\* n permits are free and q waits: the front of q is served.
Assign(q, n, rest) ==
    LET k == Served(q, n)
        front == {q[i] : i \in 1 .. k}
    IN /\ bufferQueue' = SubSeq(q, k + 1, Len(q))
       /\ bufferFree' = n - AskedBy(q, k)
       /\ relay' = [r \in Relay |-> IF r \in front THEN "fill" ELSE rest[r]]

\* acquire_pair, acquire_single: all the permits at once, or in line.
AcquireBuffers(r) ==
    /\ relay[r] = "acquire"
    /\ Assign(Append(bufferQueue, r), bufferFree, [relay EXCEPT ![r] = "wait"])
    /\ UNCHANGED <<pipeVars, available, bufferHeld>>

\* take_buffer: an idle buffer, or a new one.
TakeBuffer(r) ==
    /\ relay[r] = "fill"
    /\ available' = IF available > 0 THEN available - 1 ELSE 0
    /\ bufferHeld' = [bufferHeld EXCEPT ![r] = @ + 1]
    /\ GoTo(r, IF bufferHeld[r] + 1 = Needed(r) THEN "copy" ELSE "fill")
    /\ UNCHANGED <<pipeVars, bufferFree, bufferQueue>>

\* Bug: the error path forgets the permits.
AllocationFailsLeaking(r) ==
    /\ relay[r] = "fill" /\ available = 0
    /\ bufferHeld' = [bufferHeld EXCEPT ![r] = 0]
    /\ GoTo(r, "idle") /\ UNCHANGED <<pipeVars, bufferFree, bufferQueue, available>>
\* The allocation fails: the other buffer and the permits go back.
AllocationFails(r) ==
    /\ relay[r] = "fill" /\ available = 0
    /\ GoTo(r, "drop") /\ UNCHANGED <<pipeVars, bufferVars>>

\* copy_direction ends by EOF, error, write stall or cancellation.  A quiet
\* read has no deadline.
CopyEnds(r) ==
    /\ relay[r] = "copy"
    /\ GoTo(r, "drop") /\ UNCHANGED <<pipeVars, bufferVars>>

\* Drop: the buffers return one by one, then the permits.
ReturnBuffer(r) ==
    /\ relay[r] = "drop" /\ bufferHeld[r] > 0
    /\ available' = IF available < MaxBuffers THEN available + 1 ELSE available
    /\ bufferHeld' = [bufferHeld EXCEPT ![r] = @ - 1]
    /\ UNCHANGED <<relay, pipeVars, bufferFree, bufferQueue>>

ReleaseBuffers(r) ==
    /\ relay[r] = "drop" /\ bufferHeld[r] = 0
    /\ Assign(bufferQueue, bufferFree + Needed(r), [relay EXCEPT ![r] = "idle"])
    /\ UNCHANGED <<pipeVars, available, bufferHeld>>

\* Queue q after its i-th gave up.
Without(q, i) == [j \in 1 .. Len(q) - 1 |-> IF j < i THEN q[j] ELSE q[j + 1]]

\* A waiting relay is cancelled; what it had been assigned passes on.
CancelWait(r) ==
    /\ relay[r] = "wait"
    /\ \E i \in DOMAIN bufferQueue :
          /\ bufferQueue[i] = r
          /\ Assign(Without(bufferQueue, i), bufferFree, [relay EXCEPT ![r] = "idle"])
    /\ UNCHANGED <<pipeVars, available, bufferHeld>>

-----------------------------------------------------------------------------

RelayNext == \E r \in Relay :
    \/ Start(r) \/ TakeIdle(r) \/ TakeNew(r) \/ TakeRefused(r)
    \/ SpliceIn(r) \/ SpliceOut(r) \/ PumpEnds(r) \/ CancelPump(r)
    \/ GiveBackPipe(r) \/ SpliceOver(r)
    \/ AcquireBuffers(r) \/ CancelWait(r) \/ TakeBuffer(r) \/ AllocationFails(r)
    \/ CopyEnds(r) \/ ReturnBuffer(r) \/ ReleaseBuffers(r)

RelaySpec == RelayInit /\ [][RelayNext]_relayVars

(* No session's bytes reach another: the pipes a relay pumps through hold   *)
(* nothing but its own bytes, however the relays that used them before      *)
(* ended (give_back, try_join! and cancellation in try_relay_pooled), and   *)
(* no pipe is in two hands.                                                 *)
NoForeignBytes ==
    \A r \in Relay : relay[r] = "pump" =>
        \A p \in Elements(leased[r]) :
            /\ inPipe[p] \in {Drained, r}
            /\ p \notin Elements(idlePipes)
            /\ \A o \in Relay \ {r} : p \notin Elements(leased[o])

(* Buffers follow their permits on every path, failed allocations and       *)
(* cancelled waits included (acquire_pair, take_buffer and the Drop order   *)
(* of BufferPair): no permit is lost, no more buffers exist than permits,   *)
(* and whoever is first in line waits for a relay that holds permits,       *)
(* never for permits that lie free or for others in the line.  (A holder    *)
(* has one permit and a bilateral one a second, and so with the buffers.)   *)
BuffersFollowPermits ==
    LET holders == {r \in Relay : relay[r] \in {"fill", "copy", "drop"}}
        holding(n) == {r \in Relay : bufferHeld[r] >= n}
    IN /\ bufferFree + Cardinality(holders) + Cardinality(holders \cap Bilateral) = MaxBuffers
       /\ available + Cardinality(holding(1)) + Cardinality(holding(2)) <= MaxBuffers
       /\ bufferQueue # <<>> => bufferFree < Needed(Head(bufferQueue))
=============================================================================
