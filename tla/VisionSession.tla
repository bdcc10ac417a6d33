--------------------------- MODULE VisionSession ---------------------------
(***************************************************************************)
(* One authenticated Vision TCP session: the bytes of both directions, the  *)
(* sockets and the idle timer around the DirectHandoff coordinator.         *)
(*   src/server/vision/relay_uplink.rs, relay_downlink.rs  framed loops      *)
(*   src/server/vision/relay.rs, src/transport/tcp_relay.rs  raw relays      *)
(*   src/server/vision/abort.rs           how the sockets are given up       *)
(*   src/io_activity.rs                   whole-session inactivity           *)
(*                                                                          *)
(* A direction moves numbered chunks from its source socket to its sink     *)
(* socket.  A chunk is in the reader's socket buffer (ahead), staged for    *)
(* the sink or in the raw relay's buffer (stage), or on the wire (out).     *)
(* Every source sends Chunks chunks at most; how many one read returns,     *)
(* what a record decodes to, and when a peer closes or a socket fails, is   *)
(* up to the environment.                                                   *)
(***************************************************************************)
EXTENDS DirectHandoff, Sequences

CONSTANTS
  Chunks,      \* chunks each source may send
  ReadAhead,   \* chunks one socket read may return
  StageCap     \* chunks the uplink staging buffer holds

ASSUME SessionConstants ==
  Chunks \in Nat /\ ReadAhead \in Nat \ {0} /\ StageCap \in Nat \ {0}

VARIABLES
  taken,      \* chunks read from the source socket
  ahead,      \* read, not yet decoded: socket_buffer[start..end]
  stage,      \* decoded and unwritten, or held by the raw relay
  out,        \* written to the sink socket
  eof,        \* directions whose source ended
  intent,     \* what the framed loop does once the stage is on the wire
  end,        \* how the two halves of the direction were given up
  fin,        \* directions whose sink socket was shut down for writing
  linger,     \* SO_LINGER {on,0} is armed (always on both sockets)
  touched,    \* directions whose bytes a raw relay's ledger has counted
  progressed, \* SessionActivity::progressed
  raw,        \* SessionActivity::raw
  expired,    \* the idle coordinator ended the session
  silent      \* window ends since the last progress (1 = none yet)

bytes == <<taken, ahead, stage, out, eof, intent>>
sockets == <<end, fin, linger, touched>>
timer == <<progressed, raw, expired, silent>>
sessionVars == <<coordinator, bytes, sockets, timer>>

Intents == {"loop", "flush", "direct", "outer", "close"}

Ends == {"live", "eof", "benign", "framed_err", "drain_err", "raw_err", "dropped"}

SessionInit ==
  /\ Init
  /\ taken = [d \in Direction |-> 0]
  /\ ahead = [d \in Direction |-> <<>>]
  /\ stage = [d \in Direction |-> <<>>]
  /\ out = [d \in Direction |-> <<>>]
  /\ eof = {}
  /\ intent = [d \in Direction |-> "loop"]
  /\ end = [d \in Direction |-> "live"]
  /\ fin = {}
  /\ linger = FALSE
  /\ touched = {}
  /\ progressed = FALSE
  /\ raw = FALSE
  /\ expired = FALSE
  /\ silent = 1

\* The framed or outer phase, under the direction's abort guard.
Guarded(d) == step[d] = "pre" /\ state[d] \in {"Framed", "Outer"}

Draining(d) == step[d] = "pre" /\ state[d] = "DirectPending"

InPair == \E r \in Direction : step[r] = "pair"

\* A raw relay moves the direction's bytes and has not seen its EOF.
Relayed(d) == (step[d] = "solo" \/ InPair) /\ d \notin fin

Live == \E d \in Direction : step[d] \notin {"left", "ended"}

\* SessionActivity::progress: one successful nonempty read or write.
Progress ==
  /\ progressed' = TRUE
  /\ silent' = 0
  /\ UNCHANGED <<raw, expired>>

\* SessionActivity::enter_raw, called as a raw relay builds its ledger.
EnterRaw ==
  /\ raw' = TRUE
  /\ UNCHANGED <<progressed, expired, silent>>

Incoming(d, k) == [i \in 1..k |-> taken[d] + i]

\* refill(): one socket read; nothing is left staged behind a blocking read.
ReadMore(d) ==
  /\ Guarded(d) /\ intent[d] = "loop"
  /\ ahead[d] = <<>> /\ stage[d] = <<>>
  /\ \E k \in 1..ReadAhead :
       /\ taken[d] + k <= Chunks
       /\ ahead' = [ahead EXCEPT ![d] = Incoming(d, k)]
       /\ taken' = [taken EXCEPT ![d] = @ + k]
  /\ Progress
  /\ UNCHANGED <<coordinator, stage, out, eof, intent, sockets>>

\* What decoding one record asks for next.  The uplink stages and goes on; the
\* downlink writes every record before the next one is classified.
Verdicts(d) ==
  IF d = "Uplink" THEN {"loop", "direct"}
  ELSE IF state[d] = "Outer" THEN {"flush"} ELSE {"flush", "direct", "outer"}

StageLimit(d) == IF d = "Uplink" THEN StageCap ELSE 1

\* read_application + decode_borrowed_append, or next() + observe().
DecodeRecord(d) ==
  /\ Guarded(d) /\ intent[d] = "loop"
  /\ ahead[d] # <<>> /\ Len(stage[d]) < StageLimit(d)
  /\ stage' = [stage EXCEPT ![d] = Append(@, Head(ahead[d]))]
  /\ ahead' = [ahead EXCEPT ![d] = Tail(@)]
  /\ \E v \in Verdicts(d) : intent' = [intent EXCEPT ![d] = v]
  /\ UNCHANGED <<coordinator, taken, out, eof, sockets, timer>>

\* flush_uplink before a read that could block, or when the stage is full.
BeginFlush(d) ==
  /\ Guarded(d) /\ intent[d] = "loop"
  /\ stage[d] # <<>>
  /\ ahead[d] = <<>> \/ Len(stage[d]) = StageLimit(d)
  /\ intent' = [intent EXCEPT ![d] = "flush"]
  /\ UNCHANGED <<coordinator, taken, ahead, stage, out, eof, sockets, timer>>

\* One write of write_all; the last one of a plain flush resumes the loop.
FlushOne(d) ==
  /\ Guarded(d) /\ intent[d] # "loop"
  /\ stage[d] # <<>>
  /\ out' = [out EXCEPT ![d] = Append(@, Head(stage[d]))]
  /\ stage' = [stage EXCEPT ![d] = Tail(@)]
  /\ intent' = [intent EXCEPT ![d] =
                  IF @ = "flush" /\ Len(stage[d]) = 1 THEN "loop" ELSE @]
  /\ Progress
  /\ UNCHANGED <<coordinator, taken, ahead, eof, sockets>>

\* close_notify on the uplink, end of stream on the downlink.
CloseRead(d) ==
  /\ Guarded(d) /\ intent[d] = "loop"
  /\ ahead[d] = <<>>
  /\ eof' = eof \cup {d}
  /\ intent' = [intent EXCEPT ![d] = "close"]
  /\ UNCHANGED <<coordinator, taken, ahead, stage, out, sockets, timer>>

GracefulUnflushed(d) ==
  /\ intent[d] = "close"
  /\ FinishFramed(d)
  /\ fin' = fin \cup {d}
  /\ end' = [end EXCEPT ![d] = "eof"]
  /\ UNCHANGED <<bytes, linger, touched, timer>>

\* The stage is on the wire: shut the sink down and disarm the guard.
Graceful(d) ==
  /\ intent[d] = "close" /\ stage[d] = <<>>
  /\ FinishFramed(d)
  /\ fin' = fin \cup {d}
  /\ end' = [end EXCEPT ![d] = "eof"]
  /\ UNCHANGED <<bytes, linger, touched, timer>>

ToDirectAtBoundary(d) ==
  /\ intent[d] = "direct" /\ stage[d] = <<>>
  /\ step[d] = "pre"
  /\ state' = [state EXCEPT ![d] = "RawReady"]
  /\ UNCHANGED <<step, yields, slots, grant, recovered, bytes, sockets, timer>>

\* finish_*_direct takes over once the boundary record is on the wire.
ToDirect(d) ==
  /\ intent[d] = "direct" /\ stage[d] = <<>>
  /\ EnterDirect(d)
  /\ UNCHANGED <<bytes, sockets, timer>>

\* relay_outer_downlink takes over once the End frame is on the wire.
ToOuter(d) ==
  /\ intent[d] = "outer" /\ stage[d] = <<>>
  /\ EnterOuter(d)
  /\ intent' = [intent EXCEPT ![d] = "loop"]
  /\ UNCHANGED <<taken, ahead, stage, out, eof, sockets, timer>>

\* The bytes pipelined behind the boundary record go out as they are.
DrainOne(d) ==
  /\ Draining(d) /\ ahead[d] # <<>>
  /\ out' = [out EXCEPT ![d] = Append(@, Head(ahead[d]))]
  /\ ahead' = [ahead EXCEPT ![d] = Tail(@)]
  /\ Progress
  /\ UNCHANGED <<coordinator, taken, stage, eof, intent, sockets>>

BoundaryUndrained(d) ==
  /\ Draining(d)
  /\ ReachRaw(d)
  /\ UNCHANGED <<bytes, sockets, timer>>

Boundary(d) ==
  /\ Draining(d) /\ ahead[d] = <<>>
  /\ ReachRaw(d)
  /\ UNCHANGED <<bytes, sockets, timer>>

Rendezvous(d) ==
  /\ RendezvousYield(d) \/ RendezvousCommit(d)
  /\ UNCHANGED <<bytes, sockets, timer>>

CommitSoloUntimed(d) ==
  /\ Decide(d)
  /\ UNCHANGED <<bytes, sockets, timer>>

\* decide(), and relay_direction entered at once in the directional form.
Commit(d) ==
  /\ Decide(d)
  /\ IF grant'[d] = "Directional" THEN EnterRaw ELSE UNCHANGED timer
  /\ UNCHANGED <<bytes, sockets>>

\* deposit_*, and relay_owned entered at once by the last depositor.
GiveHalves(d) ==
  /\ Deposit(d)
  /\ IF d \in recovered' THEN EnterRaw ELSE UNCHANGED timer
  /\ UNCHANGED <<bytes, sockets>>

RawRead(d) ==
  /\ Relayed(d) /\ d \notin eof
  /\ stage[d] = <<>>
  /\ \E k \in 1..ReadAhead :
       /\ taken[d] + k <= Chunks
       /\ stage' = [stage EXCEPT ![d] = Incoming(d, k)]
       /\ taken' = [taken EXCEPT ![d] = @ + k]
  /\ Progress
  /\ UNCHANGED <<coordinator, ahead, out, eof, intent, sockets>>

\* The ledger counts a byte only after the sink accepted it.
RawWrite(d) ==
  /\ Relayed(d) /\ stage[d] # <<>>
  /\ out' = [out EXCEPT ![d] = Append(@, Head(stage[d]))]
  /\ stage' = [stage EXCEPT ![d] = Tail(@)]
  /\ touched' = touched \cup {d}
  /\ Progress
  /\ UNCHANGED <<coordinator, taken, ahead, eof, intent, end, fin, linger>>

\* Source EOF half-closes the sink and leaves the other direction alone.
RawEof(d) ==
  /\ Relayed(d) /\ stage[d] = <<>>
  /\ eof' = eof \cup {d}
  /\ fin' = fin \cup {d}
  /\ UNCHANGED <<coordinator, taken, ahead, stage, out, intent, end, linger, touched, timer>>

\* The directions whose halves the relay run by d owns.
Owned(d) == IF step[d] = "pair" THEN Direction ELSE {d}

GiveUp(ds, how) ==
  end' = [d \in Direction |-> IF d \in ds /\ end[d] = "live" THEN how ELSE end[d]]

RawDone(d) ==
  /\ FinishRaw(d)
  /\ Owned(d) \subseteq fin
  /\ GiveUp(Owned(d), "eof")
  /\ UNCHANGED <<bytes, fin, linger, touched, timer>>

\* A write half shuts its socket down when it is dropped; a whole socket does not.
Dropped(d) == IF step[d] = "pair" THEN fin ELSE fin \cup {d}

LedgerTouched(d) == Owned(d) \cap touched # {}

\* is_benign_teardown: the relay failed, the direction still closes with Ok.
RawBenign(d) ==
  /\ FinishRaw(d)
  /\ ~(Owned(d) \subseteq fin)
  /\ GiveUp(Owned(d), "benign")
  /\ fin' = Dropped(d)
  /\ linger' = (linger \/ LedgerTouched(d))
  /\ UNCHANGED <<bytes, touched, timer>>

\* The session is dropped around direction d, which has let go of its own
\* halves.  The write half of a cancelled peer is dropped with its future, a
\* framed peer's guard arms the reset first.
CancelPeer(d, armed, finned) ==
  LET p == Peer(d) cancelled == end[p] = "live" /\ ~InPair IN
  /\ linger' = (linger \/ armed \/ (cancelled /\ Guarded(p)))
  /\ fin' = finned \cup (IF cancelled THEN {p} ELSE {})
  /\ UNCHANGED <<bytes, touched, timer>>

FailFramedDropping(d) ==
  /\ Guarded(d)
  /\ Fail(d)
  /\ end' = [x \in Direction |->
               IF x = d THEN "framed_err" ELSE IF end[x] = "live" THEN "dropped" ELSE end[x]]
  /\ CancelPeer(d, TRUE, fin \cup {d})

\* The guard resets both sockets and release_aborted forgets the write half.
FailFramed(d) ==
  /\ Guarded(d)
  /\ Fail(d)
  /\ end' = [x \in Direction |->
               IF x = d THEN "framed_err" ELSE IF end[x] = "live" THEN "dropped" ELSE end[x]]
  /\ CancelPeer(d, TRUE, fin)

\* finish_*_direct has no guard: the halves are dropped, the cell stays.
FailDrain(d) ==
  /\ Draining(d) /\ ahead[d] # <<>>
  /\ UNCHANGED state /\ Fail(d)
  /\ end' = [x \in Direction |->
               IF x = d THEN "drain_err" ELSE IF end[x] = "live" THEN "dropped" ELSE end[x]]
  /\ CancelPeer(d, FALSE, fin \cup {d})

FailRaw(d) ==
  /\ step[d] \in {"solo", "pair"}
  /\ ~(Owned(d) \subseteq fin)
  /\ Fail(d)
  /\ end' = [x \in Direction |->
               IF end[x] # "live" THEN end[x]
               ELSE IF x \in Owned(d) THEN "raw_err" ELSE "dropped"]
  /\ CancelPeer(d, LedgerTouched(d), Dropped(d))

\* The session future is dropped from outside: every live half goes with it,
\* and OwnedRelaySockets resets the sockets of a bilateral relay.
DropFuture ==
  LET dropped == {d \in Direction : end[d] = "live"} IN
  /\ Abandon
  /\ GiveUp(dropped, "dropped")
  /\ linger' = (linger \/ InPair \/ \E d \in dropped : Guarded(d))
  /\ fin' = IF InPair THEN fin ELSE fin \cup dropped
  /\ UNCHANGED <<bytes, touched>>

\* The connection task is aborted.
AbortTask ==
  /\ DropFuture
  /\ UNCHANGED timer

\* expired(): one idle window ended.  A raw session parks the timer for good.
IdleTick ==
  /\ Live /\ ~raw
  /\ silent' = silent + 1
  /\ progressed' = FALSE
  /\ \/ /\ ~progressed /\ expired' = TRUE /\ DropFuture
     \/ /\ progressed /\ UNCHANGED <<coordinator, bytes, sockets, expired>>
  /\ UNCHANGED raw

SessionDone ==
  /\ SessionOver
  /\ UNCHANGED <<bytes, sockets, timer>>

ByteStep(d) ==
  \/ ReadMore(d) \/ DecodeRecord(d) \/ BeginFlush(d) \/ FlushOne(d)
  \/ CloseRead(d) \/ DrainOne(d)
  \/ RawRead(d) \/ RawWrite(d) \/ RawEof(d)

PhaseStep(d) ==
  \/ Graceful(d) \/ ToDirect(d) \/ ToOuter(d) \/ Boundary(d)
  \/ Rendezvous(d) \/ Commit(d) \/ GiveHalves(d)
  \/ RawDone(d) \/ RawBenign(d)

FailureStep(d) == FailFramed(d) \/ FailDrain(d) \/ FailRaw(d)

SessionNext ==
  \/ \E d \in Direction : ByteStep(d) \/ PhaseStep(d) \/ FailureStep(d)
  \/ AbortTask
  \/ IdleTick
  \/ SessionDone

\* From the raw boundary on a direction is ready whenever it is polled.
RawHandoff(d) == Rendezvous(d) \/ Commit(d) \/ GiveHalves(d)

\* The executor polls; nothing is owed by peers or the network.
SessionSpec ==
  /\ SessionInit /\ [][SessionNext]_sessionVars
  /\ \A d \in Direction : WF_sessionVars(RawHandoff(d))

-----------------------------------------------------------------------------

\* Types; the read-ahead keeps its buffer's bound.
SessionTypeOK ==
  /\ TypeOK
  /\ taken \in [Direction -> 0..Chunks]
  /\ \A d \in Direction :
       /\ ahead[d] \in Seq(1..Chunks) /\ stage[d] \in Seq(1..Chunks)
       /\ out[d] \in Seq(1..Chunks)
       /\ Len(ahead[d]) <= ReadAhead
  /\ eof \subseteq Direction /\ fin \subseteq Direction /\ touched \subseteq Direction
  /\ intent \in [Direction -> Intents]
  /\ end \in [Direction -> Ends]
  /\ linger \in BOOLEAN /\ progressed \in BOOLEAN /\ raw \in BOOLEAN /\ expired \in BOOLEAN
  /\ silent \in 0..2

\* In every phase, across the switch from framed to raw and whichever relay form
\* was agreed, no byte is lost, duplicated or overtaken: what the sink has, what
\* is staged and what was read ahead are, in this order, what the source sent
\* (finish_*_direct, "ahead of every byte any raw relay moves").
ByteOrder ==
  /\ SessionTypeOK
  /\ \A d \in Direction :
       out[d] \o stage[d] \o ahead[d] = [i \in 1..taken[d] |-> i]

\* A half-close the relay performs on purpose is never early: the source has
\* ended and everything read from it is on the wire.
EofOnlyWhenComplete ==
  \A d \in Direction :
    end[d] = "eof" \/ (end[d] = "live" /\ d \in fin) =>
      /\ d \in eof
      /\ Len(out[d]) = taken[d]

\* The first thing the sink of d sees when the direction is over.
Signal(d) ==
  IF d \in fin THEN "FIN"
  ELSE IF \E x \in Direction : end[x] = "live" THEN "none"
  ELSE IF linger THEN "RST" ELSE "FIN"

\* A framed direction that fails by itself, and a bilateral relay that fails
\* after it moved a byte, are seen as a reset, even when the other direction
\* finished long before (DirectionAbortGuard; OwnedRelaySockets).
AbortIsReset ==
  \A d \in Direction :
    /\ end[d] = "framed_err" => Signal(d) = "RST"
    /\ end[d] \in {"raw_err", "benign"} /\ recovered # {} /\ touched # {} /\ d \notin eof =>
         Signal(d) = "RST"

\* The idle timer ends a framed session after one whole silent window and within
\* two, never earlier, and never once either direction relays raw, even if the
\* other is still framed ("must never leave a short timer on half the session").
IdleContract ==
  /\ Live /\ ~raw => silent <= 1
  /\ expired => silent = 2
  /\ expired => recovered = {} /\ \A d \in Direction : grant[d] # "Directional"

\* The byte-level session takes only coordinator steps DirectHandoff allows, so
\* what is proved of DirectHandoff holds of the session.
RefinesCoordinator == Init /\ [][Next]_coordinator

\* What abort.rs promises of every abort path ("the peer observes a reset, never
\* a clean short EOF that could make a truncated stream look complete"): a sink
\* that sees FIN first has the whole stream.
CleanEndIsComplete ==
  \A d \in Direction :
    Signal(d) = "FIN" => d \in eof /\ Len(out[d]) = taken[d]
=============================================================================
