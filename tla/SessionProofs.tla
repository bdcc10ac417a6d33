--------------------------- MODULE SessionProofs ----------------------------
(***************************************************************************)
(* Proofs about a Vision session: the coordinator of the raw hand-over for *)
(* every rendezvous budget, and the session around it for any number of    *)
(* chunks and any buffer sizes. The session's safety rests on three        *)
(* invariants besides the coordinator's: IdleInv for the timer, ByteInv    *)
(* for the bytes and EndInv for the sockets, each inductive relative to    *)
(* the ones before it.                                                     *)
(***************************************************************************)
EXTENDS VisionSession, TLAPS

-----------------------------------------------------------------------------
(* The coordinator of the raw hand-over *)

\* A direction and its peer are the two directions, and peering is symmetric.
LEMMA PeerFacts ==
  ASSUME NEW d \in Direction
  PROVE  /\ Peer(d) \in Direction
         /\ Peer(d) # d
         /\ Peer(Peer(d)) = d
         /\ \A e \in Direction : e = d \/ e = Peer(d)
BY Zenon DEF Direction, Peer

\* DirectHandoff::new establishes the coordinator's invariant.
LEMMA HandoffInit == Init => HandoffInv
BY YieldBudgetAssumption, PeerFacts
   DEF Init, HandoffInv, TypeOK, NoSplitDecision, CellMatchesStep,
       GrantMatchesStep, PairPartners, Direction, DirectionState, Steps

\* Every operation of the coordinator, failure and cancellation preserves it.
LEMMA HandoffStep == HandoffInv /\ [Next]_coordinator => HandoffInv'
<1> SUFFICES ASSUME HandoffInv, [Next]_coordinator
             PROVE  HandoffInv'
    BY Zenon
<1> USE YieldBudgetAssumption, PeerFacts
        DEF HandoffInv, TypeOK, NoSplitDecision, CellMatchesStep, GrantMatchesStep,
            PairPartners, DirectionState, Steps
<1>1. ASSUME NEW d \in Direction, EnterDirect(d) PROVE HandoffInv'
      BY <1>1 DEF EnterDirect, Advance, Permits
<1>2. ASSUME NEW d \in Direction, ReachRaw(d) PROVE HandoffInv'
      BY <1>2 DEF ReachRaw, Advance, Permits
<1>3. ASSUME NEW d \in Direction, EnterOuter(d) PROVE HandoffInv'
      BY <1>3 DEF EnterOuter, Advance, Permits
<1>4. ASSUME NEW d \in Direction, FinishFramed(d) PROVE HandoffInv'
      BY <1>4 DEF FinishFramed, Advance, Permits
<1>5. ASSUME NEW d \in Direction, RendezvousYield(d) PROVE HandoffInv'
      BY <1>5 DEF RendezvousYield
<1>6. ASSUME NEW d \in Direction, RendezvousCommit(d) PROVE HandoffInv'
      BY <1>6 DEF RendezvousCommit
<1>7. ASSUME NEW d \in Direction, Decide(d) PROVE HandoffInv'
      BY <1>7 DEF Decide, Plan, PeerCanPair, Advance, Permits
<1>8. ASSUME NEW d \in Direction, Deposit(d) PROVE HandoffInv'
      BY <1>8 DEF Deposit
<1>9. ASSUME NEW d \in Direction, FinishRaw(d) PROVE HandoffInv'
      BY <1>9 DEF FinishRaw, Settled, Permits
<1>10. ASSUME NEW d \in Direction, Fail(d) PROVE HandoffInv'
      BY <1>10 DEF Fail, DropSession, Settled, Permits
<1>11. CASE Abandon
      BY <1>11, ZenonT(60) DEF Abandon, DropSession
<1>12. CASE SessionOver \/ UNCHANGED coordinator
      BY <1>12 DEF SessionOver, coordinator
<1> QED
    BY <1>1, <1>2, <1>3, <1>4, <1>5, <1>6, <1>7, <1>8, <1>9, <1>10, <1>11, <1>12, ZenonT(60)
       DEF Next, DirectionStep

\* HandoffInv holds in every state of every behaviour of the coordinator.
THEOREM HandoffInvariant == Spec => []HandoffInv
<1>1. Spec => Init /\ [][Next]_coordinator
      BY Zenon DEF Spec
<1> QED
    BY <1>1, HandoffInit, HandoffStep, PTL

\* The two directions never disagree about the form of the raw relay.
THEOREM NeverSplit == Spec => []NoSplitDecision
<1>1. HandoffInv => NoSplitDecision
      BY Zenon DEF HandoffInv
<1> QED
    BY <1>1, HandoffInvariant, PTL

\* Deposited halves are never stranded while the session lives.
THEOREM NeverStranded == Spec => []DepositIsCollected
<1>1. HandoffInv => DepositIsCollected
      BY PeerFacts, ZenonT(60) DEF HandoffInv, TypeOK, DepositIsCollected, CellMatchesStep,
                       GrantMatchesStep, PairPartners
<1> QED
    BY <1>1, HandoffInvariant, PTL

\* A bilateral relay is the only owner of the halves it runs on.
THEOREM ExclusiveHalves == Spec => []RawRelayOwnsItsHalves
<1>1. HandoffInv => RawRelayOwnsItsHalves
      BY Zenon DEF HandoffInv, RawRelayOwnsItsHalves, PairPartners
<1> QED
    BY <1>1, HandoffInvariant, PTL

\* A coordinator step that touches neither a grant nor the recovered sockets is
\* invisible to the agreement.
LEMMA InvisibleStep ==
  ASSUME UNCHANGED <<grant, recovered>>
  PROVE  UNCHANGED Agreement!vars
BY Zenon DEF Agreement!vars, Form

\* decide() is the agreement the first time somebody is granted the pair, a
\* stutter the second time, and a solo choice otherwise.
LEMMA DecideAgrees ==
  ASSUME HandoffInv, NEW d \in Direction, Decide(d)
  PROVE  [Agreement!Next]_(Agreement!vars)
<1> USE PeerFacts
    DEF HandoffInv, TypeOK, NoSplitDecision, CellMatchesStep, GrantMatchesStep, PairPartners
<1>1. grant[d] = "none" /\ UNCHANGED recovered
      BY Zenon DEF Decide
<1>2. CASE Plan(d) = "Pair"
  <2>1. grant[Peer(d)] # "Directional"
        BY <1>2 DEF Decide, Plan, PeerCanPair, Steps
  <2>2. grant' = [grant EXCEPT ![d] = "Pair"]
        BY <1>2, Zenon DEF Decide
  <2>3. Form' = [e \in Direction |-> "pair"]
        BY <2>1, <2>2 DEF Form
  <2>4. CASE grant[Peer(d)] = "Pair"
    <3>1. Form = [e \in Direction |-> "pair"]
          BY <1>1, <2>4 DEF Form
    <3> QED
        BY <1>1, <2>3, <3>1, Zenon DEF Agreement!vars
  <2>5. CASE grant[Peer(d)] = "none"
    <3>1. \A e \in Direction : Form[e] = "undecided"
          BY <1>1, <2>5 DEF Form
    <3> QED
        BY <1>1, <2>3, <3>1, Zenon DEF Agreement!Next, Agreement!AgreePair
  <2> QED
      BY <2>1, <2>4, <2>5
<1>3. CASE Plan(d) = "Directional"
  <2>1. grant[Peer(d)] # "Pair"
        BY <1>3, Zenon DEF Decide, Plan, PeerCanPair, Steps
  <2>2. grant' = [grant EXCEPT ![d] = "Directional"]
        BY <1>3, Zenon DEF Decide
  <2>3. Form[d] = "undecided"
        BY <1>1, <2>1, Zenon DEF Form
  <2>4. Form' = [Form EXCEPT ![d] = "solo"]
    <3>1. Form'[d] = "solo"
          BY <2>2 DEF Form
    <3>2. Form'[Peer(d)] = Form[Peer(d)]
          BY <1>1, <2>1, <2>2, ZenonT(60) DEF Form
    <3> QED
        BY <3>1, <3>2 DEF Form
  <2> QED
      BY <1>1, <2>3, <2>4, Zenon DEF Agreement!Next, Agreement!GoSolo
<1> QED
    BY <1>2, <1>3, Zenon DEF Plan

\* deposit_* hands the pair to a driver at most once, and only when both
\* directions are bound to it.
LEMMA DepositDrives ==
  ASSUME HandoffInv, NEW d \in Direction, Deposit(d)
  PROVE  [Agreement!Next]_(Agreement!vars)
<1> USE PeerFacts
    DEF HandoffInv, TypeOK, GrantMatchesStep, PairPartners
<1>1. grant[d] = "Pair" /\ recovered = {} /\ UNCHANGED grant /\ UNCHANGED Form
      BY DEF Deposit, Form
<1>2. CASE Peer(d) \in slots
  <2>1. \A e \in Direction : Form[e] = "pair"
        BY <1>1, <1>2 DEF Form
  <2>2. recovered' = {d}
        BY <1>1, <1>2, ZenonT(60) DEF Deposit
  <2> QED
      BY <1>1, <2>1, <2>2, Zenon DEF Agreement!Next, Agreement!Drive
<1>3. CASE Peer(d) \notin slots
      BY <1>1, <1>3, Zenon DEF Deposit, Agreement!vars
<1> QED
    BY <1>2, <1>3, Zenon

\* The coordinator implements the atomic agreement: two decisions taken one
\* after the other look like one, and the bilateral relay has one driver.
THEOREM HandoffImplementsAgreement == Spec => ImplementsAgreement
<1>1. Init => Agreement!Init
      BY PeerFacts, Zenon DEF Init, Agreement!Init, Form
<1>2. HandoffInv /\ [Next]_coordinator => [Agreement!Next]_(Agreement!vars)
  <2> SUFFICES ASSUME HandoffInv, [Next]_coordinator
               PROVE  [Agreement!Next]_(Agreement!vars)
      BY Zenon
  <2>1. ASSUME NEW d \in Direction, Decide(d)
        PROVE  [Agreement!Next]_(Agreement!vars)
        BY <2>1, DecideAgrees, Zenon
  <2>2. ASSUME NEW d \in Direction, Deposit(d)
        PROVE  [Agreement!Next]_(Agreement!vars)
        BY <2>2, DepositDrives, Zenon
  <2>3. ASSUME NEW d \in Direction,
               \/ EnterDirect(d) \/ ReachRaw(d) \/ EnterOuter(d) \/ FinishFramed(d)
               \/ RendezvousYield(d) \/ RendezvousCommit(d) \/ FinishRaw(d) \/ Fail(d)
        PROVE  UNCHANGED <<grant, recovered>>
        BY <2>3, Zenon DEF EnterDirect, ReachRaw, EnterOuter, FinishFramed, RendezvousYield,
                    RendezvousCommit, FinishRaw, Fail, DropSession
  <2>4. CASE Abandon \/ SessionOver \/ UNCHANGED coordinator
    <3>1. UNCHANGED <<grant, recovered>>
          BY <2>4, Zenon DEF Abandon, DropSession, SessionOver, coordinator
    <3> QED
        BY <3>1, InvisibleStep, Zenon
  <2> QED
      BY <2>1, <2>2, <2>3, <2>4, InvisibleStep, Zenon DEF Next, DirectionStep
<1>3. Spec => Init /\ [][Next]_coordinator
      BY Zenon DEF Spec
<1> QED
    BY <1>1, <1>2, <1>3, HandoffInvariant, PTL DEF ImplementsAgreement, Agreement!Spec

-----------------------------------------------------------------------------
(* The session takes coordinator steps only; the idle timer *)

\* The bytes, the sockets and the timer only ride on coordinator steps.
LEMMA SessionStepsCoordinator == [SessionNext]_sessionVars => [Next]_coordinator
<1> SUFFICES ASSUME [SessionNext]_sessionVars PROVE [Next]_coordinator BY Zenon
<1>1. ASSUME NEW d \in Direction, ByteStep(d) PROVE UNCHANGED coordinator
  BY <1>1, Zenon DEF ByteStep, ReadMore, DecodeRecord, BeginFlush, FlushOne, CloseRead, DrainOne,
              RawRead, RawWrite, RawEof
<1>2. ASSUME NEW d \in Direction, PhaseStep(d) PROVE DirectionStep(d)
  BY <1>2, Zenon
       DEF PhaseStep, Graceful, ToDirect, ToOuter, Boundary, Rendezvous, Commit, GiveHalves,
              RawDone, RawBenign, DirectionStep
<1>3. ASSUME NEW d \in Direction, FailureStep(d) PROVE DirectionStep(d)
  BY <1>3, Zenon DEF FailureStep, FailFramed, FailDrain, FailRaw, DirectionStep
<1>4. CASE AbortTask \/ IdleTick BY <1>4, Zenon DEF AbortTask, IdleTick, DropFuture, Next
<1>5. CASE SessionDone BY <1>5, Zenon DEF SessionDone, Next
<1>6. CASE UNCHANGED sessionVars BY <1>6, Zenon DEF sessionVars
<1> QED BY <1>1, <1>2, <1>3, <1>4, <1>5, <1>6, Zenon DEF SessionNext, Next

\* Whatever the bytes, the sockets and the idle timer do, the coordinator takes only
\* steps DirectHandoff allows (server/direct.rs under the relay loops).
THEOREM SessionRefinesCoordinator == SessionSpec => RefinesCoordinator
<1>1. SessionInit => Init BY Zenon DEF SessionInit
<1> QED BY <1>1, SessionStepsCoordinator, PTL DEF SessionSpec, RefinesCoordinator

\* So what is proved of the coordinator holds in every state of a session.
LEMMA SessionHandoffInv == SessionSpec => []HandoffInv
<1> QED BY SessionRefinesCoordinator, HandoffInit, HandoffStep, PTL DEF RefinesCoordinator

-----------------------------------------------------------------------------
\* The inductive invariant of the idle timer.
IdleInv ==
  /\ raw \in BOOLEAN /\ progressed \in BOOLEAN /\ expired \in BOOLEAN /\ silent \in 0..2
  /\ expired => silent = 2 /\ ~Live /\ ~raw
  /\ ~expired /\ ~raw => silent = IF progressed THEN 0 ELSE 1
  /\ ~raw => recovered = {} /\ \A d \in Direction : grant[d] # "Directional"

\* A direction that has left or ended stays so.
LEMMA OverIsOver ==
  ASSUME HandoffInv, [Next]_coordinator, Live'
  PROVE  Live
<1> USE PeerFacts DEF HandoffInv, TypeOK, Live
<1>1. ASSUME NEW d \in Direction, DirectionStep(d), ~Fail(d) PROVE Live
  BY <1>1, Zenon DEF DirectionStep, EnterDirect, ReachRaw, EnterOuter, FinishFramed, RendezvousYield,
              RendezvousCommit, Decide, Deposit, FinishRaw
<1>2. ASSUME NEW d \in Direction, Fail(d) PROVE Live BY <1>2, Zenon DEF Fail
<1>3. CASE Abandon BY <1>3, Zenon DEF Abandon
<1>4. CASE SessionOver \/ UNCHANGED coordinator BY <1>4, Zenon DEF SessionOver, coordinator
<1> QED BY <1>1, <1>2, <1>3, <1>4 DEF Next

\* A byte that moves rearms the timer; one that does not leaves it alone.
LEMMA BytesKeepIdle ==
  ASSUME HandoffInv, IdleInv, NEW d \in Direction, ByteStep(d)
  PROVE  IdleInv'
<1> USE PeerFacts DEF IdleInv
<1>1. UNCHANGED coordinator
  BY Zenon DEF ByteStep, ReadMore, DecodeRecord, BeginFlush, FlushOne, CloseRead, DrainOne,
              RawRead, RawWrite, RawEof
<1>2. Live' = Live /\ grant' = grant /\ recovered' = recovered BY <1>1, Zenon DEF coordinator, Live
<1>3. CASE UNCHANGED timer BY <1>2, <1>3, Zenon DEF timer
<1>4. CASE Progress
  <2>1. Live
    <3>1. Guarded(d) \/ Draining(d) \/ Relayed(d)
      BY Zenon DEF ByteStep, ReadMore, DecodeRecord, BeginFlush, FlushOne, CloseRead, DrainOne,
              RawRead, RawWrite, RawEof
    <3> QED BY <3>1, Zenon DEF Guarded, Draining, Relayed, InPair, Live
  <2> QED BY <1>2, <1>4, <2>1 DEF Progress
<1> QED BY <1>3, <1>4, Zenon DEF ByteStep, ReadMore, DecodeRecord, BeginFlush, FlushOne, CloseRead, DrainOne,
              RawRead, RawWrite, RawEof

\* Steps that leave the timer, the grants and the recovered sockets alone.
LEMMA QuietKeepsIdle ==
  ASSUME HandoffInv, IdleInv, [Next]_coordinator, UNCHANGED <<timer, grant, recovered>>
  PROVE  IdleInv'
<1>1. expired => ~Live' BY OverIsOver, Zenon DEF IdleInv
<1> QED BY <1>1, Zenon DEF IdleInv, timer

\* The timer's invariant is kept by every step of the session.
LEMMA IdleStep == HandoffInv /\ IdleInv /\ [SessionNext]_sessionVars => IdleInv'
<1> SUFFICES ASSUME HandoffInv, IdleInv, [SessionNext]_sessionVars PROVE IdleInv' BY Zenon
<1>0. [Next]_coordinator BY SessionStepsCoordinator, Zenon
<1> USE PeerFacts
<1>1. ASSUME NEW d \in Direction, ByteStep(d) PROVE IdleInv' BY <1>1, BytesKeepIdle, Zenon
<1>2. ASSUME NEW d \in Direction,
             \/ Graceful(d) \/ ToDirect(d) \/ ToOuter(d) \/ Boundary(d) \/ Rendezvous(d)
             \/ RawDone(d) \/ RawBenign(d) \/ FailureStep(d)
      PROVE  IdleInv'
  <2>1. UNCHANGED timer
    BY <1>2, Zenon DEF Graceful, ToDirect, ToOuter, Boundary, Rendezvous, RawDone, RawBenign,
                FailureStep, FailFramed, FailDrain, FailRaw, CancelPeer
  <2>2. UNCHANGED <<grant, recovered>>
    BY <1>2, Zenon DEF Graceful, ToDirect, ToOuter, Boundary, Rendezvous, RawDone, RawBenign,
                FailureStep, FailFramed, FailDrain, FailRaw, FinishFramed, EnterDirect, EnterOuter,
                ReachRaw, RendezvousYield, RendezvousCommit, FinishRaw, Fail, DropSession
  <2> QED BY <1>0, <2>1, <2>2, QuietKeepsIdle, Zenon
<1>3. ASSUME NEW d \in Direction, Commit(d) PROVE IdleInv'
  <2>1. step[d] = "commit" /\ recovered' = recovered /\ grant' = [grant EXCEPT ![d] = Plan(d)]
    BY <1>3, Zenon DEF Commit, Decide
  <2>2. Live /\ ~expired BY <2>1, Zenon DEF Live, IdleInv
  <2>3. CASE grant'[d] = "Directional"
    BY <1>3, <2>2, <2>3, Zenon DEF Commit, EnterRaw, IdleInv
  <2>4. CASE grant'[d] # "Directional"
    <3>1. UNCHANGED timer BY <1>3, <2>4, Zenon DEF Commit
    <3> QED BY <2>1, <2>2, <2>4, <3>1 DEF IdleInv, timer, HandoffInv, TypeOK
  <2> QED BY <2>3, <2>4, Zenon
<1>4. ASSUME NEW d \in Direction, GiveHalves(d) PROVE IdleInv'
  <2>1. step[d] = "deposit" /\ grant' = grant
    BY <1>4, Zenon DEF GiveHalves, Deposit
  <2>2. Live /\ ~expired BY <2>1, Zenon DEF Live, IdleInv
  <2>3. CASE d \in recovered'
    BY <1>4, <2>2, <2>3, Zenon DEF GiveHalves, EnterRaw, IdleInv
  <2>4. CASE d \notin recovered'
    <3>1. UNCHANGED timer /\ recovered' = recovered BY <1>4, <2>4, Zenon DEF GiveHalves, Deposit
    <3> QED BY <2>1, <2>2, <2>4, <3>1, Zenon DEF IdleInv, timer
  <2> QED BY <2>3, <2>4, Zenon
<1>5. CASE AbortTask
  <2>1. UNCHANGED <<timer, grant, recovered>> BY <1>5, Zenon DEF AbortTask, DropFuture, Abandon, DropSession
  <2> QED BY <1>0, <2>1, QuietKeepsIdle, Zenon
<1>6. CASE IdleTick
  <2>1. Live /\ ~raw /\ ~expired /\ silent' = silent + 1 /\ progressed' = FALSE /\ raw' = raw
    BY <1>6, Zenon DEF IdleTick, IdleInv
  <2>2. CASE progressed
    <3>1. UNCHANGED coordinator /\ expired' = expired BY <1>6, <2>2, Zenon DEF IdleTick
    <3>2. silent = 0 BY <2>1, <2>2, Zenon DEF IdleInv
    <3>3. silent' = 1 /\ ~progressed' /\ ~expired' /\ ~raw' BY <2>1, <3>1, <3>2
    <3>4. recovered' = {} /\ \A d \in Direction : grant'[d] # "Directional"
      BY <2>1, <3>1, Zenon DEF IdleInv, coordinator
    <3>5. raw' \in BOOLEAN /\ progressed' \in BOOLEAN /\ expired' \in BOOLEAN
      BY <2>1, <3>1, Zenon DEF IdleInv
    <3>6. silent' \in 0..2 /\ silent' = IF progressed' THEN 0 ELSE 1 BY <3>3
    <3> QED BY <3>3, <3>4, <3>5, <3>6, Zenon DEF IdleInv
  <2>3. CASE ~progressed
    <3>1. expired' = TRUE /\ DropFuture BY <1>6, <2>3, Zenon DEF IdleTick
    <3>2. ~Live' /\ UNCHANGED <<grant, recovered>> BY <3>1, Zenon DEF DropFuture, Abandon, DropSession, Live
    <3>3. silent = 1 BY <2>1, <2>3, Zenon DEF IdleInv
    <3>4. silent' = 2 /\ ~progressed' /\ expired' /\ ~raw' BY <2>1, <3>1, <3>3
    <3>5. recovered' = {} /\ \A d \in Direction : grant'[d] # "Directional"
      BY <2>1, <3>2, Zenon DEF IdleInv
    <3>6. raw' \in BOOLEAN /\ progressed' \in BOOLEAN /\ expired' \in BOOLEAN
      BY <2>1, <3>1, Zenon DEF IdleInv
    <3>7. silent' \in 0..2 BY <3>4
    <3> QED BY <3>2, <3>4, <3>5, <3>6, <3>7, Zenon DEF IdleInv
  <2> QED BY <2>2, <2>3, Zenon DEF IdleInv
<1>7. CASE SessionDone \/ UNCHANGED sessionVars
  <2>1. UNCHANGED <<timer, grant, recovered>> BY <1>7, Zenon DEF SessionDone, SessionOver, coordinator, sessionVars
  <2> QED BY <1>0, <2>1, QuietKeepsIdle, Zenon
<1> QED BY <1>1, <1>2, <1>3, <1>4, <1>5, <1>6, <1>7, Zenon DEF SessionNext, PhaseStep

\* IdleInv is an invariant of the session.
LEMMA IdleInvHolds == SessionSpec => []IdleInv
<1>1. SessionInit => IdleInv
  <2> SUFFICES ASSUME SessionInit PROVE IdleInv BY Zenon
  <2>1. ~raw /\ ~progressed /\ ~expired /\ silent = 1 /\ raw \in BOOLEAN /\ progressed \in BOOLEAN
        /\ expired \in BOOLEAN
    BY Zenon DEF SessionInit
  <2>2. recovered = {} /\ \A d \in Direction : grant[d] # "Directional" BY Zenon DEF SessionInit, Init
  <2> QED BY <2>1, <2>2 DEF IdleInv
<1> QED BY <1>1, IdleStep, SessionHandoffInv, PTL DEF SessionSpec

\* The idle timer ends a framed session within two windows and never a raw one.
THEOREM IdleContractHolds == SessionSpec => []IdleContract
<1>1. IdleInv => IdleContract BY DEF IdleInv, IdleContract
<1> QED BY <1>1, IdleInvHolds, PTL

-----------------------------------------------------------------------------
(* The bytes of a session *)

\* n chunks, in order: written, then staged, then read ahead.
InOrder(o, s, a, n) ==
  /\ Len(o) + Len(s) + Len(a) = n
  /\ \A i \in 1..Len(o) : o[i] = i
  /\ \A i \in 1..Len(s) : s[i] = Len(o) + i
  /\ \A i \in 1..Len(a) : a[i] = Len(o) + Len(s) + i

Chunk == 1..Chunks

\* The head moves from one sequence to the end of another.
LEMMA MovedHead ==
  ASSUME NEW x \in Seq(Chunk), NEW y \in Seq(Chunk), y # <<>>
  PROVE  /\ Append(x, Head(y)) \in Seq(Chunk) /\ Tail(y) \in Seq(Chunk)
         /\ Len(Append(x, Head(y))) = Len(x) + 1 /\ Len(Tail(y)) = Len(y) - 1 /\ Len(y) >= 1
         /\ \A i \in 1..Len(x) : Append(x, Head(y))[i] = x[i]
         /\ Append(x, Head(y))[Len(x) + 1] = y[1]
         /\ \A i \in 1..Len(y) - 1 : Tail(y)[i] = y[i + 1]
<1>1. Head(y) \in Chunk /\ Head(y) = y[1] /\ Len(y) \in Nat \ {0} OBVIOUS
<1> QED BY <1>1

\* Writing the oldest staged chunk keeps the order.
LEMMA StageToOut ==
  ASSUME NEW o \in Seq(Chunk), NEW s \in Seq(Chunk), NEW a \in Seq(Chunk), NEW n \in Nat,
         InOrder(o, s, a, n), s # <<>>
  PROVE  InOrder(Append(o, Head(s)), Tail(s), a, n)
<1> DEFINE p == Append(o, Head(s))
           t == Tail(s)
<1>1. Len(o) \in Nat /\ Len(s) \in Nat /\ Len(a) \in Nat OBVIOUS
<1>2. /\ Len(p) = Len(o) + 1 /\ Len(t) = Len(s) - 1 /\ Len(s) >= 1
      /\ \A i \in 1..Len(o) : p[i] = o[i]
      /\ p[Len(o) + 1] = s[1]
      /\ \A i \in 1..Len(s) - 1 : t[i] = s[i + 1]
  BY MovedHead, ZenonT(60)
<1> HIDE DEF p, t
<1>3. Len(p) + Len(t) + Len(a) = n
  <2>1. Len(o) + Len(s) + Len(a) = n BY Zenon DEF InOrder
  <2>2. Len(p) = Len(o) + 1 /\ Len(t) = Len(s) - 1 BY <1>2, Zenon
  <2>3. (Len(o) + 1) + (Len(s) - 1) = Len(o) + Len(s) BY <1>1
  <2> QED BY <1>1, <2>1, <2>2, <2>3, Zenon
<1>4. ASSUME NEW i \in 1..Len(p) PROVE p[i] = i
  <2>1. CASE i = Len(o) + 1 BY <1>1, <1>2, <2>1 DEF InOrder
  <2>2. CASE i # Len(o) + 1
    <3>0. Len(p) = Len(o) + 1 BY <1>2, Zenon
    <3>1. i \in 1..Len(o) BY <1>1, <2>2, <3>0
    <3> QED BY <1>2, <3>1, Zenon DEF InOrder
  <2> QED BY <2>1, <2>2, Zenon
<1>5. ASSUME NEW i \in 1..Len(t) PROVE t[i] = Len(p) + i
  <2>1. i \in 1..Len(s) - 1 /\ i + 1 \in 1..Len(s) BY <1>1, <1>2
  <2>2. t[i] = s[i + 1] /\ s[i + 1] = Len(o) + (i + 1) BY <1>2, <2>1, Zenon DEF InOrder
  <2> QED BY <1>1, <1>2, <2>1, <2>2
<1>6. ASSUME NEW i \in 1..Len(a) PROVE a[i] = Len(p) + Len(t) + i
  <2>1. a[i] = Len(o) + Len(s) + i BY Zenon DEF InOrder
  <2> QED BY <1>1, <1>2, <2>1
<1> QED BY <1>3, <1>4, <1>5, <1>6, Zenon DEF InOrder, p, t

\* Staging the oldest chunk read ahead keeps the order.
LEMMA AheadToStage ==
  ASSUME NEW o \in Seq(Chunk), NEW s \in Seq(Chunk), NEW a \in Seq(Chunk), NEW n \in Nat,
         InOrder(o, s, a, n), a # <<>>
  PROVE  InOrder(o, Append(s, Head(a)), Tail(a), n)
<1> DEFINE p == Append(s, Head(a))
           t == Tail(a)
<1>1. Len(o) \in Nat /\ Len(s) \in Nat /\ Len(a) \in Nat OBVIOUS
<1>2. /\ Len(p) = Len(s) + 1 /\ Len(t) = Len(a) - 1 /\ Len(a) >= 1
      /\ \A i \in 1..Len(s) : p[i] = s[i]
      /\ p[Len(s) + 1] = a[1]
      /\ \A i \in 1..Len(a) - 1 : t[i] = a[i + 1]
  BY MovedHead, ZenonT(60)
<1> HIDE DEF p, t
<1>3. Len(o) + Len(p) + Len(t) = n
  <2>1. Len(o) + Len(s) + Len(a) = n BY Zenon DEF InOrder
  <2>2. Len(p) = Len(s) + 1 /\ Len(t) = Len(a) - 1 BY <1>2, Zenon
  <2>3. Len(o) + (Len(s) + 1) + (Len(a) - 1) = Len(o) + Len(s) + Len(a) BY <1>1
  <2> QED BY <2>1, <2>2, <2>3, Zenon
<1>4. ASSUME NEW i \in 1..Len(p) PROVE p[i] = Len(o) + i
  <2>1. CASE i = Len(s) + 1
    <3>1. a[1] = Len(o) + Len(s) + 1 BY <1>1, <1>2 DEF InOrder
    <3> QED BY <1>1, <1>2, <2>1, <3>1
  <2>2. CASE i # Len(s) + 1
    <3>1. i \in 1..Len(s) BY <1>1, <1>2, <2>2
    <3> QED BY <1>2, <3>1, Zenon DEF InOrder
  <2> QED BY <2>1, <2>2, Zenon
<1>5. ASSUME NEW i \in 1..Len(t) PROVE t[i] = Len(o) + Len(p) + i
  <2>1. i \in 1..Len(a) - 1 /\ i + 1 \in 1..Len(a) BY <1>1, <1>2
  <2>2. t[i] = a[i + 1] /\ a[i + 1] = Len(o) + Len(s) + (i + 1) BY <1>2, <2>1, Zenon DEF InOrder
  <2> QED BY <1>1, <1>2, <2>1, <2>2
<1>6. \A i \in 1..Len(o) : o[i] = i BY Zenon DEF InOrder
<1> QED BY <1>3, <1>4, <1>5, <1>6, Zenon DEF InOrder, p, t

\* With nothing staged, what was read ahead stands where the stage would.
LEMMA AheadAsStage ==
  ASSUME NEW o \in Seq(Chunk), NEW a \in Seq(Chunk), NEW n \in Nat
  PROVE  InOrder(o, <<>>, a, n) <=> InOrder(o, a, <<>>, n)
<1>1. Len(o) \in Nat /\ Len(a) \in Nat /\ Len(<<>>) = 0 /\ Len(o) + 0 = Len(o) OBVIOUS
<1>2. Len(o) + Len(<<>>) + Len(a) = Len(o) + Len(a) /\ Len(o) + Len(a) + Len(<<>>) = Len(o) + Len(a)
      /\ Len(o) + Len(<<>>) = Len(o)
  BY <1>1
<1>3. 1..0 = {} OBVIOUS
<1> QED BY <1>1, <1>2, <1>3, Zenon DEF InOrder

\* One read appends what the source sent next.
LEMMA ReadInOrder ==
  ASSUME NEW o \in Seq(Chunk), NEW n \in Nat, NEW k \in Nat, n + k <= Chunks,
         InOrder(o, <<>>, <<>>, n)
  PROVE  LET r == [i \in 1..k |-> n + i] IN
         r \in Seq(Chunk) /\ Len(r) = k /\ InOrder(o, r, <<>>, n + k) /\ InOrder(o, <<>>, r, n + k)
<1> DEFINE r == [i \in 1..k |-> n + i]
<1>0. Chunks \in Nat BY SessionConstants, Zenon
<1>1. \A i \in 1..k : n + i \in Chunk BY <1>0 DEF Chunk
<1>2. r \in [1..k -> Chunk] BY <1>1, Zenon
<1>3. r \in Seq(Chunk) /\ Len(r) = k BY <1>2
<1>4. \A i \in 1..k : r[i] = n + i BY Zenon
<1> HIDE DEF r
<1>5. Len(o) \in Nat /\ Len(<<>>) = 0 /\ Len(o) = n
  <2>1. Len(o) \in Nat /\ Len(<<>>) = 0 OBVIOUS
  <2>2. Len(o) + Len(<<>>) + Len(<<>>) = n BY Zenon DEF InOrder
  <2> QED BY <2>1, <2>2
<1>6. InOrder(o, r, <<>>, n + k)
  <2>1. Len(o) + Len(r) + Len(<<>>) = n + k BY <1>3, <1>5
  <2>2. \A i \in 1..Len(o) : o[i] = i BY Zenon DEF InOrder
  <2>3. \A i \in 1..Len(r) : r[i] = Len(o) + i BY <1>3, <1>4, <1>5, Zenon
  <2>4. 1..Len(<<>>) = {} BY <1>5
  <2> QED BY <2>1, <2>2, <2>3, <2>4, Zenon DEF InOrder
<1>7. InOrder(o, <<>>, r, n + k) BY <1>3, <1>6, AheadAsStage
<1> QED BY <1>3, <1>6, <1>7, Zenon DEF r

\* Chunks in order are exactly the chunks the source sent.
LEMMA OrderedIsSent ==
  ASSUME NEW o \in Seq(Chunk), NEW s \in Seq(Chunk), NEW a \in Seq(Chunk), NEW n \in Nat,
         InOrder(o, s, a, n)
  PROVE  o \o s \o a = [i \in 1..n |-> i]
<1> DEFINE c == o \o s \o a
<1>1. Len(o) \in Nat /\ Len(s) \in Nat /\ Len(a) \in Nat OBVIOUS
<1>2. /\ o \o s \in Seq(Chunk) /\ Len(o \o s) = Len(o) + Len(s)
      /\ \A i \in 1..Len(o) + Len(s) : (o \o s)[i] = IF i <= Len(o) THEN o[i] ELSE s[i - Len(o)]
  OBVIOUS
<1>3. /\ c \in Seq(Chunk) /\ Len(c) = Len(o \o s) + Len(a)
      /\ \A i \in 1..Len(o \o s) + Len(a) :
            c[i] = IF i <= Len(o \o s) THEN (o \o s)[i] ELSE a[i - Len(o \o s)]
  BY <1>2
<1>4. Len(c) = n BY <1>1, <1>2, <1>3, Zenon DEF InOrder
<1> HIDE DEF c
<1>5. ASSUME NEW i \in 1..n PROVE c[i] = i
  <2>1. i \in 1..Len(o \o s) + Len(a) BY <1>3, <1>4, Zenon
  <2>2. CASE i <= Len(o)
    <3>1. i <= Len(o \o s) /\ i \in 1..Len(o) + Len(s) /\ i \in 1..Len(o) BY <1>1, <1>2, <2>2
    <3> QED BY <1>2, <1>3, <2>1, <2>2, <3>1, Zenon DEF InOrder
  <2>3. CASE ~(i <= Len(o)) /\ i <= Len(o) + Len(s)
    <3>1. i <= Len(o \o s) /\ i \in 1..Len(o) + Len(s) /\ i - Len(o) \in 1..Len(s) BY <1>1, <1>2, <2>3
    <3>2. c[i] = s[i - Len(o)] BY <1>2, <1>3, <2>1, <2>3, <3>1, Zenon
    <3>3. s[i - Len(o)] = Len(o) + (i - Len(o)) BY <3>1, Zenon DEF InOrder
    <3> QED BY <1>1, <3>2, <3>3
  <2>4. CASE ~(i <= Len(o) + Len(s))
    <3>1. ~(i <= Len(o \o s)) /\ i - Len(o \o s) \in 1..Len(a) BY <1>1, <1>2, <2>1, <2>4
    <3>2. c[i] = a[i - Len(o \o s)] BY <1>3, <2>1, <3>1, Zenon
    <3>3. a[i - Len(o \o s)] = Len(o) + Len(s) + (i - Len(o \o s)) BY <3>1, Zenon DEF InOrder
    <3> QED BY <1>1, <1>2, <3>2, <3>3
  <2> QED BY <2>2, <2>3, <2>4, Zenon
<1>6. c = [i \in 1..n |-> c[i]]
  <2>1. DOMAIN c = 1..n BY <1>3, <1>4
  <2> QED BY <1>3, <2>1
<1>7. c = [i \in 1..n |-> i] BY <1>5, <1>6, Zenon
<1> QED BY <1>7, Zenon DEF c

\* Where the chunks of a direction are, and what its phase says of them.
BytesOf(d) ==
  /\ Len(ahead[d]) <= ReadAhead
  /\ InOrder(out[d], stage[d], ahead[d], taken[d])
  /\ Draining(d) => stage[d] = <<>>
  /\ step[d] \in {"rendezvous", "commit", "deposit", "left", "solo", "pair"} => ahead[d] = <<>>
  /\ intent[d] = "close" => d \in eof /\ ahead[d] = <<>>

ByteTypes ==
  /\ taken \in [Direction -> 0..Chunks]
  /\ ahead \in [Direction -> Seq(Chunk)] /\ stage \in [Direction -> Seq(Chunk)]
  /\ out \in [Direction -> Seq(Chunk)]
  /\ eof \subseteq Direction /\ intent \in [Direction -> Intents]

\* The inductive invariant of the bytes.
ByteInv == ByteTypes /\ \A d \in Direction : BytesOf(d)

\* Nothing is read when the session starts.
LEMMA ByteInit == SessionInit => ByteInv
<1> SUFFICES ASSUME SessionInit PROVE ByteInv BY Zenon
<1>0. Chunks \in Nat /\ ReadAhead \in Nat \ {0} BY SessionConstants, Zenon
<1>1. <<>> \in Seq(Chunk) /\ Len(<<>>) = 0 /\ 0 \in 0..Chunks BY <1>0
<1>2. ByteTypes BY <1>1, Zenon DEF SessionInit, ByteTypes, Intents
<1>3. InOrder(<<>>, <<>>, <<>>, 0)
  <2>1. Len(<<>>) + Len(<<>>) + Len(<<>>) = 0 /\ 1..Len(<<>>) = {} BY <1>1
  <2> QED BY <2>1, Zenon DEF InOrder
<1>4. ASSUME NEW d \in Direction PROVE BytesOf(d)
  BY <1>0, <1>1, <1>3 DEF SessionInit, Init, BytesOf
<1> QED BY <1>2, <1>4, Zenon DEF ByteInv

\* A step of one direction's bytes leaves the other's alone.
LEMMA OtherBytesStay ==
  ASSUME ByteInv, NEW d \in Direction, UNCHANGED coordinator, ByteTypes', BytesOf(d)',
         \A e \in Direction \ {d} :
            /\ taken'[e] = taken[e] /\ ahead'[e] = ahead[e] /\ stage'[e] = stage[e]
            /\ out'[e] = out[e] /\ intent'[e] = intent[e] /\ (e \in eof => e \in eof')
  PROVE  ByteInv'
<1>1. ASSUME NEW e \in Direction, e # d PROVE BytesOf(e)'
  <2>1. BytesOf(e) BY Zenon DEF ByteInv
  <2>2. step' = step /\ state' = state BY Zenon DEF coordinator
  <2> QED BY <1>1, <2>1, <2>2, Zenon DEF BytesOf, Draining
<1> QED BY <1>1, Zenon DEF ByteInv

\* A step that moves bytes keeps them in order.
LEMMA BytesKeepBytes ==
  ASSUME HandoffInv, ByteInv, NEW d \in Direction, ByteStep(d)
  PROVE  ByteInv'
<1>0. /\ taken \in [Direction -> 0..Chunks] /\ ahead \in [Direction -> Seq(Chunk)]
      /\ stage \in [Direction -> Seq(Chunk)] /\ out \in [Direction -> Seq(Chunk)]
      /\ eof \subseteq Direction /\ intent \in [Direction -> Intents]
      /\ Chunks \in Nat /\ ReadAhead \in Nat \ {0} /\ taken[d] \in Nat
      /\ out[d] \in Seq(Chunk) /\ stage[d] \in Seq(Chunk) /\ ahead[d] \in Seq(Chunk)
  BY SessionConstants DEF ByteInv, ByteTypes
<1>1. BytesOf(d) BY Zenon DEF ByteInv
<1>2. InOrder(out[d], stage[d], ahead[d], taken[d]) BY <1>1, Zenon DEF BytesOf
<1>3. Len(ahead[d]) \in Nat /\ Len(ahead[d]) <= ReadAhead BY <1>0, <1>1, SMTT(20) DEF BytesOf
<1>4. UNCHANGED coordinator
  BY Zenon DEF ByteStep, ReadMore, DecodeRecord, BeginFlush, FlushOne, CloseRead, DrainOne,
              RawRead, RawWrite, RawEof
<1>5. step' = step /\ state' = state BY <1>4, Zenon DEF coordinator
<1>6. ASSUME Relayed(d) PROVE ahead[d] = <<>> /\ step[d] # "pre"
  <2>1. step[d] \in {"solo", "pair", "left"}
    BY <1>6, PeerFacts, ZenonT(60) DEF Relayed, InPair, HandoffInv, PairPartners
  <2> QED BY <1>1, <2>1, Zenon DEF BytesOf
<1>7. CASE ReadMore(d)
  <2>1. PICK k \in 1..ReadAhead :
           /\ taken[d] + k <= Chunks
           /\ ahead' = [ahead EXCEPT ![d] = Incoming(d, k)]
           /\ taken' = [taken EXCEPT ![d] = @ + k]
    BY <1>7, Zenon DEF ReadMore
  <2>2. /\ step[d] = "pre" /\ intent[d] = "loop" /\ ahead[d] = <<>> /\ stage[d] = <<>>
        /\ state[d] # "DirectPending"
        /\ stage' = stage /\ out' = out /\ eof' = eof /\ intent' = intent
    BY <1>7, Zenon DEF ReadMore, Guarded
  <2> DEFINE r == [i \in 1..k |-> taken[d] + i]
  <2>3. k \in Nat BY SessionConstants
  <2>4. r \in Seq(Chunk) /\ Len(r) = k /\ InOrder(out[d], <<>>, r, taken[d] + k)
    <3>1. out[d] \in Seq(Chunk) /\ taken[d] \in Nat /\ InOrder(out[d], <<>>, <<>>, taken[d])
      BY <1>0, <1>2, <2>2, Zenon
    <3> QED BY <2>1, <2>3, <3>1, ReadInOrder, ZenonT(60)
  <2>5. Incoming(d, k) = r BY Zenon DEF Incoming
  <2> HIDE DEF r
  <2>6. ahead' = [ahead EXCEPT ![d] = r] BY <2>1, <2>5, Zenon
  <2>7. taken[d] + k \in 0..Chunks BY <1>0, <2>1, <2>3, SMTT(20)
  <2>8. ByteTypes' BY <1>0, <2>1, <2>2, <2>4, <2>6, <2>7, ZenonT(60) DEF ByteTypes
  <2>9. Len(r) <= ReadAhead BY <1>0, <2>1, <2>4
  <2>10. BytesOf(d)' BY <1>0, <1>5, <2>1, <2>2, <2>4, <2>6, <2>9, Zenon DEF BytesOf, Draining
  <2>11. \A e \in Direction \ {d} :
            /\ taken'[e] = taken[e] /\ ahead'[e] = ahead[e] /\ stage'[e] = stage[e]
            /\ out'[e] = out[e] /\ intent'[e] = intent[e] /\ (e \in eof => e \in eof')
    BY <1>0, <2>1, <2>2, <2>6, Zenon
  <2> QED BY <1>4, <2>8, <2>10, <2>11, OtherBytesStay, Zenon
<1>8. CASE DecodeRecord(d)
  <2>1. /\ step[d] = "pre" /\ state[d] # "DirectPending" /\ intent[d] = "loop" /\ ahead[d] # <<>>
        /\ stage' = [stage EXCEPT ![d] = Append(@, Head(ahead[d]))]
        /\ ahead' = [ahead EXCEPT ![d] = Tail(@)]
        /\ taken' = taken /\ out' = out /\ eof' = eof
    BY <1>8, Zenon DEF DecodeRecord, Guarded
  <2>2. PICK v \in Intents \ {"close"} : intent' = [intent EXCEPT ![d] = v]
    BY <1>8, Zenon DEF DecodeRecord, Verdicts, Intents
  <2>3. /\ Append(stage[d], Head(ahead[d])) \in Seq(Chunk) /\ Tail(ahead[d]) \in Seq(Chunk)
        /\ Len(Tail(ahead[d])) = Len(ahead[d]) - 1
    BY <1>0, <2>1, MovedHead, Zenon
  <2>4. InOrder(out[d], Append(stage[d], Head(ahead[d])), Tail(ahead[d]), taken[d])
    BY <1>0, <1>2, <2>1, AheadToStage, Zenon
  <2>5. ByteTypes' BY <1>0, <2>1, <2>2, <2>3, Zenon DEF ByteTypes
  <2>6. Len(Tail(ahead[d])) <= ReadAhead BY <1>0, <1>3, <2>3, SMTT(20)
  <2>7. BytesOf(d)' BY <1>0, <1>5, <2>1, <2>2, <2>4, <2>6, Zenon DEF BytesOf, Draining
  <2> QED BY <1>0, <1>4, <2>1, <2>2, <2>5, <2>7, OtherBytesStay, Zenon
<1>9. CASE BeginFlush(d)
  <2>1. /\ intent' = [intent EXCEPT ![d] = "flush"] /\ taken' = taken /\ out' = out /\ eof' = eof
        /\ stage' = stage /\ ahead' = ahead
    BY <1>9, Zenon DEF BeginFlush
  <2>2. ByteTypes' BY <1>0, <2>1, Zenon DEF ByteTypes, Intents
  <2>3. BytesOf(d)' BY <1>0, <1>1, <1>5, <2>1, Zenon DEF BytesOf, Draining
  <2> QED BY <1>0, <1>4, <2>1, <2>2, <2>3, OtherBytesStay, Zenon
<1>10. CASE FlushOne(d) \/ RawWrite(d)
  <2>1. /\ stage[d] # <<>> /\ out' = [out EXCEPT ![d] = Append(@, Head(stage[d]))]
        /\ stage' = [stage EXCEPT ![d] = Tail(@)]
        /\ taken' = taken /\ ahead' = ahead /\ eof' = eof
    BY <1>10, Zenon DEF FlushOne, RawWrite
  <2>2. intent' \in [Direction -> Intents] /\ (intent'[d] = "close" => intent[d] = "close")
        /\ \A e \in Direction \ {d} : intent'[e] = intent[e]
    BY <1>0, <1>10, ZenonT(60) DEF FlushOne, RawWrite, Intents
  <2>3. Append(out[d], Head(stage[d])) \in Seq(Chunk) /\ Tail(stage[d]) \in Seq(Chunk)
    BY <1>0, <2>1, MovedHead, Zenon
  <2>4. InOrder(Append(out[d], Head(stage[d])), Tail(stage[d]), ahead[d], taken[d])
    BY <1>0, <1>2, <2>1, StageToOut, Zenon
  <2>5. ByteTypes' BY <1>0, <2>1, <2>2, <2>3, Zenon DEF ByteTypes
  <2>6. ~Draining(d) BY <1>6, <1>10, Zenon DEF FlushOne, RawWrite, Guarded, Draining
  <2>7. BytesOf(d)' BY <1>0, <1>1, <1>5, <2>1, <2>2, <2>4, <2>6, Zenon DEF BytesOf, Draining
  <2> QED BY <1>0, <1>4, <2>1, <2>2, <2>5, <2>7, OtherBytesStay, Zenon
<1>11. CASE CloseRead(d)
  <2>1. /\ ahead[d] = <<>> /\ eof' = eof \cup {d} /\ intent' = [intent EXCEPT ![d] = "close"]
        /\ taken' = taken /\ out' = out /\ stage' = stage /\ ahead' = ahead
    BY <1>11, Zenon DEF CloseRead
  <2>2. ByteTypes' BY <1>0, <2>1, Zenon DEF ByteTypes, Intents
  <2>3. BytesOf(d)' BY <1>0, <1>1, <1>5, <2>1, Zenon DEF BytesOf, Draining
  <2> QED BY <1>0, <1>4, <2>1, <2>2, <2>3, OtherBytesStay, Zenon
<1>12. CASE DrainOne(d)
  <2>1. /\ Draining(d) /\ step[d] = "pre" /\ ahead[d] # <<>>
        /\ out' = [out EXCEPT ![d] = Append(@, Head(ahead[d]))]
        /\ ahead' = [ahead EXCEPT ![d] = Tail(@)]
        /\ taken' = taken /\ stage' = stage /\ eof' = eof /\ intent' = intent
    BY <1>12, Zenon DEF DrainOne, Draining
  <2>2. stage[d] = <<>> /\ intent[d] # "close" BY <1>1, <2>1, Zenon DEF BytesOf
  <2>3. /\ Append(out[d], Head(ahead[d])) \in Seq(Chunk) /\ Tail(ahead[d]) \in Seq(Chunk)
        /\ Len(Tail(ahead[d])) = Len(ahead[d]) - 1
    BY <1>0, <2>1, MovedHead, Zenon
  <2>4. InOrder(Append(out[d], Head(ahead[d])), <<>>, Tail(ahead[d]), taken[d])
    <3>1. <<>> \in Seq(Chunk) OBVIOUS
    <3>2. InOrder(out[d], ahead[d], <<>>, taken[d]) BY <1>0, <1>2, <2>2, AheadAsStage, Zenon
    <3>3. InOrder(Append(out[d], Head(ahead[d])), Tail(ahead[d]), <<>>, taken[d])
      BY <1>0, <2>1, <3>1, <3>2, StageToOut, Zenon
    <3> QED BY <1>0, <2>3, <3>3, AheadAsStage, Zenon
  <2>5. ByteTypes' BY <1>0, <2>1, <2>3, Zenon DEF ByteTypes
  <2>6. Len(Tail(ahead[d])) <= ReadAhead BY <1>0, <1>3, <2>3
  <2>7. BytesOf(d)' BY <1>0, <1>5, <2>1, <2>2, <2>4, <2>6, Zenon DEF BytesOf, Draining
  <2> QED BY <1>0, <1>4, <2>1, <2>5, <2>7, OtherBytesStay, Zenon
<1>13. CASE RawRead(d)
  <2>1. PICK k \in 1..ReadAhead :
           /\ taken[d] + k <= Chunks
           /\ stage' = [stage EXCEPT ![d] = Incoming(d, k)]
           /\ taken' = [taken EXCEPT ![d] = @ + k]
    BY <1>13, Zenon DEF RawRead
  <2>2. /\ step[d] # "pre" /\ ahead[d] = <<>> /\ stage[d] = <<>>
        /\ ahead' = ahead /\ out' = out /\ eof' = eof /\ intent' = intent
    BY <1>6, <1>13, Zenon DEF RawRead
  <2> DEFINE r == [i \in 1..k |-> taken[d] + i]
  <2>3. k \in Nat BY <1>0
  <2>4. r \in Seq(Chunk) /\ Len(r) = k /\ InOrder(out[d], r, <<>>, taken[d] + k)
    <3>1. /\ out[d] \in Seq(Chunk) /\ taken[d] \in Nat /\ taken[d] + k <= Chunks
          /\ InOrder(out[d], <<>>, <<>>, taken[d])
      BY <1>0, <1>2, <2>1, <2>2, Zenon
    <3> QED BY <2>3, <3>1, ReadInOrder, ZenonT(60)
  <2>5. Incoming(d, k) = r BY Zenon DEF Incoming
  <2> HIDE DEF r
  <2>6. stage' = [stage EXCEPT ![d] = r] BY <2>1, <2>5, Zenon
  <2>7. taken[d] + k \in 0..Chunks BY <1>0, <2>1, <2>3
  <2>8. ByteTypes' BY <1>0, <2>1, <2>2, <2>4, <2>6, <2>7, SMTT(20) DEF ByteTypes
  <2>9. BytesOf(d)' BY <1>0, <1>1, <1>5, <2>1, <2>2, <2>4, <2>6, Zenon DEF BytesOf, Draining
  <2> QED BY <1>0, <1>4, <2>1, <2>2, <2>6, <2>8, <2>9, OtherBytesStay, Zenon
<1>14. CASE RawEof(d)
  <2>1. /\ eof' = eof \cup {d} /\ taken' = taken /\ out' = out /\ stage' = stage /\ ahead' = ahead
        /\ intent' = intent
    BY <1>14, Zenon DEF RawEof
  <2>2. ByteTypes' BY <1>0, <2>1, Zenon DEF ByteTypes
  <2>3. BytesOf(d)' BY <1>0, <1>1, <1>5, <2>1, Zenon DEF BytesOf, Draining
  <2> QED BY <1>0, <1>4, <2>1, <2>2, <2>3, OtherBytesStay, Zenon
<1> QED BY <1>7, <1>8, <1>9, <1>10, <1>11, <1>12, <1>13, <1>14, Zenon DEF ByteStep

\* Every step but a byte's leaves the bytes, the end of a loop apart.
LEMMA PhasesKeepBytes ==
  ASSUME HandoffInv, ByteInv, [SessionNext]_sessionVars,
         ~ \E d \in Direction : ByteStep(d)
  PROVE  ByteInv'
<1>1. /\ taken' = taken /\ ahead' = ahead /\ stage' = stage /\ out' = out /\ eof' = eof
      /\ intent' \in [Direction -> Intents]
      /\ \A d \in Direction : intent'[d] = "close" => intent[d] = "close"
  <2>1. intent \in [Direction -> Intents] BY Zenon DEF ByteInv, ByteTypes
  <2>2. ASSUME NEW d \in Direction, ToOuter(d)
        PROVE  /\ taken' = taken /\ ahead' = ahead /\ stage' = stage /\ out' = out /\ eof' = eof
               /\ intent' = [intent EXCEPT ![d] = "loop"]
    BY <2>2, Zenon DEF ToOuter
  <2>3. ASSUME NEW d \in Direction, PhaseStep(d) \/ FailureStep(d), ~ToOuter(d) PROVE UNCHANGED bytes
    BY <2>3, Zenon
         DEF PhaseStep, FailureStep, Graceful, ToDirect, Boundary, Rendezvous, Commit, GiveHalves,
                RawDone, RawBenign, FailFramed, FailDrain, FailRaw, CancelPeer
  <2>4. CASE AbortTask \/ IdleTick \/ SessionDone \/ UNCHANGED sessionVars
    <3>1. UNCHANGED bytes BY <2>4, Zenon DEF AbortTask, IdleTick, SessionDone, DropFuture, sessionVars
    <3> QED BY <2>1, <3>1, Zenon DEF bytes
  <2>5. ASSUME UNCHANGED bytes
        PROVE  /\ taken' = taken /\ ahead' = ahead /\ stage' = stage /\ out' = out /\ eof' = eof
               /\ intent' = intent
    BY <2>5, Zenon DEF bytes
  <2> QED BY <2>1, <2>2, <2>3, <2>4, <2>5, Zenon DEF SessionNext, Intents
<1>2. ByteTypes' BY <1>1, Zenon DEF ByteInv, ByteTypes
<1>3. ASSUME NEW e \in Direction PROVE BytesOf(e)'
  <2>0. BytesOf(e) BY Zenon DEF ByteInv
  <2>1. Draining(e)' => stage[e] = <<>>
    <3>1. CASE Draining(e) BY <2>0, <3>1, Zenon DEF BytesOf
    <3>2. CASE ~Draining(e) /\ Draining(e)'
      <4>1. ToDirect(e)
        <5>0. state \in [Direction -> DirectionState] /\ step \in [Direction -> Steps]
          BY Zenon DEF HandoffInv, TypeOK
        <5>5. ASSUME NEW d \in Direction, Graceful(d) \/ RawDone(d) \/ RawBenign(d) PROVE FALSE
          <6>1. step' = [step EXCEPT ![d] = "ended"] /\ (state' = [state EXCEPT ![d] = "Closed"] \/ state' = state)
            BY <5>5, Zenon DEF Graceful, RawDone, RawBenign, FinishFramed, FinishRaw, Advance, Settled
          <6> QED BY <3>2, <5>0, <6>1, Zenon DEF Draining
        <5>6. ASSUME NEW d \in Direction, ToOuter(d) \/ Boundary(d) PROVE FALSE
          <6>1. /\ state' = [state EXCEPT ![d] = "Outer"] \/ state' = [state EXCEPT ![d] = "RawReady"]
                /\ step' = step \/ step' = [step EXCEPT ![d] = "rendezvous"]
            BY <5>6, Zenon DEF ToOuter, Boundary, EnterOuter, ReachRaw, Advance
          <6> QED BY <3>2, <5>0, <6>1, Zenon DEF Draining
        <5> USE PeerFacts DEF HandoffInv, TypeOK, Draining
        <5>1. ASSUME NEW d \in Direction, PhaseStep(d), ~ToDirect(d) PROVE FALSE
          <6>3. CASE Rendezvous(d) \/ Commit(d) \/ GiveHalves(d)
            BY <3>2, <6>3 DEF Rendezvous, Commit, GiveHalves, RendezvousYield, RendezvousCommit,
                 Decide, Deposit, Advance, Settled
          <6> QED BY <5>1, <5>5, <5>6, <6>3, Zenon DEF PhaseStep
        <5>2. ASSUME NEW d \in Direction, ToDirect(d) PROVE d = e
          BY <3>2, <5>2, Zenon DEF ToDirect, EnterDirect, Advance
        <5>3. ASSUME NEW d \in Direction, FailureStep(d) PROVE FALSE
          BY <3>2, <5>3, ZenonT(60)
               DEF FailureStep, FailFramed, FailDrain, FailRaw, Fail, DropSession
        <5>4. CASE AbortTask \/ IdleTick \/ SessionDone \/ UNCHANGED sessionVars
          BY <3>2, <5>4, ZenonT(60) DEF AbortTask, IdleTick, SessionDone, DropFuture, sessionVars, Abandon, DropSession,
                            SessionOver, coordinator
        <5> QED BY <5>1, <5>2, <5>3, <5>4 DEF SessionNext
      <4> QED BY <4>1, Zenon DEF ToDirect
    <3> QED BY <3>1, <3>2, Zenon
  <2> DEFINE Past == {"rendezvous", "commit", "deposit", "left", "solo", "pair"}
  <2>2. step'[e] \in Past => ahead[e] = <<>>
    <3>1. CASE step[e] \in Past BY <2>0, <3>1, Zenon DEF BytesOf
    <3>2. CASE step[e] \notin Past /\ step'[e] \in Past
      <4>1. Boundary(e)
        <5>0. step \in [Direction -> Steps] BY Zenon DEF HandoffInv, TypeOK
        <5>5. ASSUME NEW d \in Direction, Graceful(d) \/ RawDone(d) \/ RawBenign(d) PROVE FALSE
          <6>1. step' = [step EXCEPT ![d] = "ended"]
            BY <5>5, Zenon DEF Graceful, RawDone, RawBenign, FinishFramed, FinishRaw
          <6> QED BY <3>2, <5>0, <6>1, Zenon
        <5>6. ASSUME NEW d \in Direction, ToOuter(d) \/ ToDirect(d) PROVE FALSE
          BY <3>2, <5>6, Zenon DEF ToOuter, ToDirect, EnterOuter, EnterDirect
        <5> USE PeerFacts DEF HandoffInv, TypeOK
        <5>1. ASSUME NEW d \in Direction, PhaseStep(d), ~Boundary(d) PROVE FALSE
          <6>3. CASE Rendezvous(d) \/ Commit(d) \/ GiveHalves(d)
            BY <3>2, <6>3 DEF Rendezvous, Commit, GiveHalves, RendezvousYield, RendezvousCommit,
                 Decide, Deposit
          <6> QED BY <5>1, <5>5, <5>6, <6>3, Zenon DEF PhaseStep
        <5>2. ASSUME NEW d \in Direction, Boundary(d) PROVE d = e
          BY <3>2, <5>2, ZenonT(60) DEF Boundary, ReachRaw
        <5>3. ASSUME NEW d \in Direction, FailureStep(d) PROVE FALSE
          BY <3>2, <5>3, ZenonT(60) DEF FailureStep, FailFramed, FailDrain, FailRaw, Fail, DropSession
        <5>4. CASE AbortTask \/ IdleTick \/ SessionDone \/ UNCHANGED sessionVars
          BY <3>2, <5>4, SMTT(20)
               DEF AbortTask, IdleTick, SessionDone, DropFuture, sessionVars, Abandon, DropSession,
                            SessionOver, coordinator
        <5> QED BY <5>1, <5>2, <5>3, <5>4, ZenonT(60) DEF SessionNext
      <4> QED BY <4>1, Zenon DEF Boundary
    <3> QED BY <3>1, <3>2, Zenon
  <2> QED BY <1>1, <2>0, <2>1, <2>2, Zenon DEF BytesOf
<1> QED BY <1>2, <1>3, Zenon DEF ByteInv

\* ByteInv is an invariant of the session.
LEMMA ByteInvHolds == SessionSpec => []ByteInv
<1>1. HandoffInv /\ ByteInv /\ [SessionNext]_sessionVars => ByteInv' BY BytesKeepBytes, PhasesKeepBytes, Zenon
<1> QED BY <1>1, ByteInit, SessionHandoffInv, PTL DEF SessionSpec

-----------------------------------------------------------------------------
\* A direction whose halves somebody still holds.
Active(d) == step[d] # "ended" /\ ~(step[d] = "left" /\ step[Peer(d)] = "ended")

\* How each direction was given up, and what its sink saw by then.
EndOf(d) ==
  /\ end[d] = "live" <=> Active(d)
  /\ step[d] = "pre" => d \notin fin
  /\ (end[d] = "live" /\ d \in fin) \/ end[d] = "eof" =>
       d \in eof /\ stage[d] = <<>> /\ ahead[d] = <<>>
  /\ grant[d] = "Directional" => recovered = {}
  /\ end[d] = "framed_err" => d \notin fin /\ linger /\ \A x \in Direction : end[x] # "live"
  /\ end[d] \in {"raw_err", "benign"} =>
       \/ grant[d] = "Directional"
       \/ /\ \A x \in Direction : end[x] # "live"
          /\ touched # {} => linger
          /\ d \in fin => d \in eof

\* The inductive invariant of the sockets.
EndInv ==
  /\ end \in [Direction -> Ends] /\ fin \subseteq Direction /\ touched \subseteq Direction
  /\ linger \in BOOLEAN
  /\ \A d \in Direction : EndOf(d)

-----------------------------------------------------------------------------
(* The sockets of a session *)

\* The session goes on while some half is held.
LEMMA LiveIsActive ==
  ASSUME HandoffInv, EndInv
  PROVE  Live <=> \E x \in Direction : end[x] = "live"
<1> USE PeerFacts DEF HandoffInv, TypeOK
<1>1. ASSUME NEW x \in Direction, end[x] = "live" PROVE Live
  <2>1. Active(x) BY <1>1, Zenon DEF EndInv, EndOf
  <2>2. CASE step[x] = "left"
    <3>1. step[Peer(x)] \in {"rendezvous", "commit", "deposit", "pair"} BY <2>1, <2>2, Zenon DEF Active, PairPartners
    <3> QED BY <3>1, Zenon DEF Live
  <2>3. CASE step[x] # "left" BY <2>1, <2>3, Zenon DEF Active, Live
  <2> QED BY <2>2, <2>3, Zenon
<1>2. ASSUME NEW x \in Direction, step[x] \notin {"left", "ended"} PROVE end[x] = "live"
  BY <1>2, Zenon DEF EndInv, EndOf, Active
<1> QED BY <1>1, <1>2, Zenon DEF Live

\* Nothing moves once the session is over.
LEMMA OverStays ==
  ASSUME HandoffInv, [SessionNext]_sessionVars, ~Live
  PROVE  UNCHANGED sessionVars
<1> USE DEF Live
<1>1. ASSUME NEW d \in Direction, ByteStep(d) PROVE FALSE
  <2>1. Guarded(d) \/ Draining(d) \/ Relayed(d)
    BY <1>1, Zenon DEF ByteStep, ReadMore, DecodeRecord, BeginFlush, FlushOne, CloseRead, DrainOne,
              RawRead, RawWrite, RawEof
  <2> QED BY <2>1, Zenon DEF Guarded, Draining, Relayed, InPair
<1>2. ASSUME NEW d \in Direction, PhaseStep(d) \/ FailureStep(d) PROVE FALSE
  BY <1>2, Zenon
       DEF PhaseStep, FailureStep, Graceful, ToDirect, ToOuter, Boundary, Rendezvous, Commit,
      GiveHalves, RawDone, RawBenign, FailFramed, FailDrain, FailRaw, FinishFramed, EnterDirect,
      EnterOuter, ReachRaw, RendezvousYield, RendezvousCommit, Decide, Deposit, FinishRaw, Fail
<1>3. CASE AbortTask \/ IdleTick BY <1>3, Zenon DEF AbortTask, IdleTick, DropFuture, Abandon
<1>4. CASE SessionDone BY <1>4, Zenon DEF SessionDone, SessionOver, sessionVars
<1> QED BY <1>1, <1>2, <1>3, <1>4, Zenon DEF SessionNext

\* The sockets' invariant is about the coordinator, the bytes and the sockets.
LEMMA UnchangedEnds ==
  ASSUME EndInv, UNCHANGED <<coordinator, bytes, sockets>>
  PROVE  EndInv'
<1>1. /\ step' = step /\ grant' = grant /\ recovered' = recovered /\ stage' = stage /\ ahead' = ahead
      /\ eof' = eof /\ end' = end /\ fin' = fin /\ linger' = linger /\ touched' = touched
  BY Zenon DEF coordinator, bytes, sockets
<1>2. ASSUME NEW d \in Direction PROVE EndOf(d)' BY <1>1, Zenon DEF EndInv, EndOf, Active
<1> QED BY <1>1, <1>2, Zenon DEF EndInv

\* A byte's step touches its own direction only, and only while it is held.
LEMMA BytesKeepEnds ==
  ASSUME HandoffInv, ByteInv, EndInv, NEW d \in Direction, ByteStep(d)
  PROVE  EndInv'
<1>0. /\ end \in [Direction -> Ends] /\ fin \subseteq Direction /\ touched \subseteq Direction
      /\ linger \in BOOLEAN /\ eof \subseteq Direction
      /\ stage \in [Direction -> Seq(Chunk)] /\ ahead \in [Direction -> Seq(Chunk)]
      /\ EndOf(d) /\ BytesOf(d)
  BY Zenon DEF EndInv, ByteInv, ByteTypes
<1>1. UNCHANGED coordinator /\ end' = end /\ linger' = linger
  BY Zenon DEF ByteStep, ReadMore, DecodeRecord, BeginFlush, FlushOne, CloseRead, DrainOne,
              RawRead, RawWrite, RawEof, sockets
<1>2. step' = step /\ state' = state /\ grant' = grant /\ recovered' = recovered BY <1>1, Zenon DEF coordinator
<1>3. /\ eof \subseteq eof' /\ touched' \subseteq Direction /\ fin' \subseteq Direction
      /\ \A e \in Direction \ {d} :
            /\ stage'[e] = stage[e] /\ ahead'[e] = ahead[e]
            /\ (e \in fin' <=> e \in fin)
  BY <1>0, Zenon DEF ByteStep, ReadMore, DecodeRecord, BeginFlush, FlushOne, CloseRead, DrainOne,
              RawRead, RawWrite, RawEof, sockets
<1>4. Guarded(d) \/ Draining(d) \/ step[d] = "solo" \/ InPair
  <2>1. Guarded(d) \/ Draining(d) \/ Relayed(d)
    BY Zenon DEF ByteStep, ReadMore, DecodeRecord, BeginFlush, FlushOne, CloseRead, DrainOne,
              RawRead, RawWrite, RawEof
  <2> QED BY <2>1, Zenon DEF Relayed
<1>5. Live BY <1>4, Zenon DEF Guarded, Draining, InPair, Live
<1>6. \E x \in Direction : end[x] = "live" BY <1>5, LiveIsActive, Zenon
<1>7. end[d] = "live"
  <2>1. InPair => Active(d)
    BY PeerFacts, ZenonT(60) DEF InPair, HandoffInv, PairPartners, Active
  <2>2. step[d] \notin {"left", "ended"} => Active(d) BY Zenon DEF Active
  <2>3. Active(d) BY <1>4, <2>1, <2>2, Zenon DEF Guarded, Draining
  <2> QED BY <1>0, <2>3, Zenon DEF EndOf
<1>8. step[d] = "pre" => d \notin fin'
  <2>1. ASSUME step[d] = "pre", d \in fin' PROVE FALSE
    <3>1. d \notin fin BY <1>0, <2>1, Zenon DEF EndOf
    <3>2. RawEof(d) BY <2>1, <3>1, Zenon
         DEF ByteStep, ReadMore, DecodeRecord, BeginFlush, FlushOne, CloseRead,
              DrainOne, RawRead, RawWrite, sockets
    <3>3. Relayed(d) BY <3>2, Zenon DEF RawEof
    <3> QED BY <2>1, <3>3, PeerFacts DEF Relayed, InPair, HandoffInv, PairPartners
  <2> QED BY <2>1, Zenon
<1>9. d \in fin' => d \in eof' /\ stage'[d] = <<>> /\ ahead'[d] = <<>>
  <2>1. CASE d \in fin
    <3>1. step[d] # "pre" BY <1>0, <2>1 DEF EndOf
    <3>2. d \in eof /\ stage[d] = <<>> /\ ahead[d] = <<>> BY <1>0, <1>7, <2>1, Zenon DEF EndOf
    <3>3. eof' = eof \cup {d} /\ stage' = stage /\ ahead' = ahead
      BY <2>1, <3>1, <3>2, Zenon
           DEF ByteStep, ReadMore, DecodeRecord, BeginFlush, FlushOne, CloseRead, DrainOne,
              RawRead, RawWrite, RawEof, Guarded, Draining, Relayed
    <3> QED BY <3>2, <3>3, Zenon
  <2>2. CASE d \notin fin /\ d \in fin'
    <3>1. RawEof(d) BY <2>2, Zenon DEF ByteStep, ReadMore, DecodeRecord, BeginFlush, FlushOne, CloseRead,
              DrainOne, RawRead, RawWrite, sockets
    <3>2. Relayed(d) /\ stage[d] = <<>> /\ eof' = eof \cup {d} /\ stage' = stage /\ ahead' = ahead
      BY <3>1, ZenonT(30) DEF RawEof
    <3>3. step[d] \in {"solo", "pair", "left"}
      BY <3>2, PeerFacts, ZenonT(60) DEF Relayed, InPair, HandoffInv, PairPartners
    <3> QED BY <1>0, <3>2, <3>3, ZenonT(30) DEF BytesOf
  <2> QED BY <2>1, <2>2, Zenon
<1>10. ASSUME NEW e \in Direction PROVE EndOf(e)'
  <2>0. EndOf(e) BY Zenon DEF EndInv
  <2>1. CASE e = d
    BY <1>1, <1>2, <1>6, <1>7, <1>8, <1>9, <2>0, <2>1, Zenon DEF EndOf, Active
  <2>2. CASE e # d
    BY <1>1, <1>2, <1>3, <1>6, <2>0, <2>2, Zenon DEF EndOf, Active
  <2> QED BY <2>1, <2>2, Zenon
<1> QED BY <1>0, <1>1, <1>3, <1>10, Zenon DEF EndInv

\* The switch to raw relaying: no half is given up.
LEMMA SwitchKeepsEnds ==
  ASSUME HandoffInv, EndInv, NEW d \in Direction,
         ToDirect(d) \/ ToOuter(d) \/ Boundary(d) \/ Rendezvous(d) \/ Commit(d) \/ GiveHalves(d)
  PROVE  EndInv'
<1> USE PeerFacts
<1>1. /\ UNCHANGED sockets /\ stage' = stage /\ ahead' = ahead /\ eof' = eof
  BY Zenon DEF ToDirect, ToOuter, Boundary, Rendezvous, Commit, GiveHalves, bytes
<1>2. end' = end /\ fin' = fin /\ linger' = linger /\ touched' = touched BY <1>1, Zenon DEF sockets
<1>3. step[d] \in {"pre", "rendezvous", "commit", "deposit"} /\ step'[d] # "ended" /\ step'[d] \in Steps
      /\ step'[Peer(d)] = step[Peer(d)] /\ (step'[d] = "pre" => step[d] = "pre")
  <2>1. CASE ToDirect(d) BY <2>1, ZenonT(60) DEF ToDirect, EnterDirect, HandoffInv, TypeOK, Steps
  <2>2. CASE ToOuter(d) BY <2>2, ZenonT(60) DEF ToOuter, EnterOuter, HandoffInv, TypeOK, Steps
  <2>3. CASE Boundary(d) BY <2>3, ZenonT(60) DEF Boundary, ReachRaw, HandoffInv, TypeOK, Steps
  <2>4. CASE Rendezvous(d)
    <3>1. CASE RendezvousYield(d)
      BY <3>1, ZenonT(60) DEF RendezvousYield, HandoffInv, TypeOK, Steps
    <3>2. CASE RendezvousCommit(d)
      BY <3>2, ZenonT(60) DEF RendezvousCommit, HandoffInv, TypeOK, Steps
    <3> QED BY <2>4, <3>1, <3>2, Zenon DEF Rendezvous
  <2>5. CASE Commit(d)
    BY <2>5, ZenonT(60) DEF Commit, Decide, HandoffInv, TypeOK, Steps
  <2>6. CASE GiveHalves(d) BY <2>6, ZenonT(60) DEF GiveHalves, Deposit, HandoffInv, TypeOK, Steps
  <2> QED BY <2>1, <2>2, <2>3, <2>4, <2>5, <2>6, Zenon
<1>4. Live BY <1>3, Zenon DEF Live
<1>5. \E x \in Direction : end[x] = "live" BY <1>4, LiveIsActive, Zenon
<1>6. step'[d] = "left" => step[Peer(d)] # "ended"
  <2>1. ASSUME step'[d] = "left" PROVE step[d] = "deposit"
    BY <1>3, <2>1, ZenonT(60)
         DEF ToDirect, ToOuter, Boundary, Rendezvous, Commit, GiveHalves, EnterDirect, EnterOuter,
         ReachRaw, RendezvousYield, RendezvousCommit, Decide, Deposit, HandoffInv, TypeOK
  <2> QED BY <2>1, Zenon DEF HandoffInv, PairPartners
<1>7. \A e \in Direction : Active(e)' <=> Active(e)
  <2>1. step[d] # "left" BY <1>3, Zenon
  <2>2. (Active(d)' <=> Active(d)) /\ (Active(Peer(d))' <=> Active(Peer(d)))
    BY <1>3, <1>6, <2>1, Zenon DEF Active
  <2> QED BY <2>2, Zenon
<1>8. \A e \in Direction : grant'[e] = "Directional" => recovered' = {}
  <2>1. CASE Commit(d)
    BY <2>1, Zenon DEF Commit, Decide, HandoffInv, TypeOK, PairPartners
  <2>2. CASE GiveHalves(d)
    <3>1. grant' = grant /\ grant[d] = "Pair"
      BY <2>2, Zenon DEF GiveHalves, Deposit, HandoffInv, GrantMatchesStep
    <3> QED BY <3>1 DEF HandoffInv, NoSplitDecision
  <2>3. CASE ~Commit(d) /\ ~GiveHalves(d)
    <3>1. grant' = grant /\ recovered' = recovered
      BY <2>3, Zenon DEF ToDirect, ToOuter, Boundary, Rendezvous, EnterDirect, EnterOuter, ReachRaw,
                  RendezvousYield, RendezvousCommit
    <3> QED BY <3>1, Zenon DEF EndInv, EndOf
  <2> QED BY <2>1, <2>2, <2>3, Zenon
<1>9. \A e \in Direction : grant[e] = "Directional" => grant'[e] = "Directional"
  BY ZenonT(60)
       DEF ToDirect, ToOuter, Boundary, Rendezvous, Commit, GiveHalves, EnterDirect, EnterOuter, ReachRaw,
         RendezvousYield, RendezvousCommit, Decide, Deposit, HandoffInv, TypeOK, GrantMatchesStep
<1>10. ASSUME NEW e \in Direction PROVE EndOf(e)'
  <2>1. EndOf(e) BY Zenon DEF EndInv
  <2>2. step'[e] = "pre" => step[e] = "pre" BY <1>3, Zenon
  <2> QED BY <1>1, <1>2, <1>5, <1>7, <1>8, <1>9, <2>1, <2>2, Zenon DEF EndOf
<1> QED BY <1>2, <1>10, Zenon DEF EndInv

\* A raw relay or a framed loop ends, and its halves go with it.
LEMMA FinishKeepsEnds ==
  ASSUME HandoffInv, ByteInv, EndInv, NEW d \in Direction, Graceful(d) \/ RawDone(d) \/ RawBenign(d)
  PROVE  EndInv'
<1> USE PeerFacts
<1>0. /\ end \in [Direction -> Ends] /\ fin \subseteq Direction /\ touched \subseteq Direction
      /\ linger \in BOOLEAN
      /\ \A e \in Direction : EndOf(e) /\ BytesOf(e)
  BY Zenon DEF EndInv, ByteInv
<1>1. /\ UNCHANGED bytes /\ touched' = touched /\ grant' = grant /\ recovered' = recovered
      /\ step' = [step EXCEPT ![d] = "ended"] /\ step[d] \in {"pre", "solo", "pair"}
  BY Zenon DEF Graceful, RawDone, RawBenign, FinishFramed, FinishRaw
<1>2. stage' = stage /\ ahead' = ahead /\ eof' = eof BY <1>1, Zenon DEF bytes
<1>3. step'[d] = "ended" /\ step'[Peer(d)] = step[Peer(d)] BY <1>1, Zenon DEF HandoffInv, TypeOK
<1>4. Live BY <1>1, Zenon DEF Live
<1>5. \E x \in Direction : end[x] = "live" BY <1>4, LiveIsActive, Zenon
<1>6. end[d] = "live" BY <1>0, <1>1, Zenon DEF EndOf, Active
<1>7. CASE step[d] \in {"pre", "solo"}
  <2>1. step[Peer(d)] # "left" /\ Peer(d) # d
    BY <1>7, ZenonT(60) DEF HandoffInv, PairPartners
  <2>2. ~Active(d)' /\ (Active(Peer(d))' <=> Active(Peer(d)))
    BY <1>3, <1>7, <2>1, Zenon DEF Active
  <2>3. end'[Peer(d)] = end[Peer(d)] /\ (Peer(d) \in fin' <=> Peer(d) \in fin) /\ fin' \subseteq Direction
    BY <1>0, <1>7, ZenonT(60) DEF Graceful, RawDone, RawBenign, GiveUp, Owned, Dropped
  <2>4. linger' \in BOOLEAN /\ (linger => linger')
    BY <1>0, Zenon DEF Graceful, RawDone, RawBenign
  <2>5. EndOf(Peer(d))'
    BY <1>0, <1>1, <1>2, <1>3, <1>5, <2>2, <2>3, ZenonT(60) DEF EndOf
  <2>6. CASE Graceful(d)
    <3>1. end' = [end EXCEPT ![d] = "eof"] /\ intent[d] = "close" /\ stage[d] = <<>>
      BY <2>6, Zenon DEF Graceful
    <3>2. d \in eof /\ ahead[d] = <<>> BY <1>0, <3>1, Zenon DEF BytesOf
    <3>3. EndOf(d)' BY <1>0, <1>1, <1>2, <1>3, <2>2, <3>1, <3>2, Zenon DEF EndOf
    <3>4. end' \in [Direction -> Ends] BY <1>0, <3>1, Zenon DEF Ends
    <3> QED BY <1>0, <1>1, <2>3, <2>4, <2>5, <3>3, <3>4, Zenon DEF EndInv
  <2>7. CASE RawDone(d)
    <3>1. step[d] = "solo" BY <1>7, <2>7, Zenon DEF RawDone, FinishRaw
    <3>2. end'[d] = "eof" /\ d \in fin /\ fin' = fin /\ end' \in [Direction -> Ends]
      BY <1>0, <1>6, <2>7, <3>1, Zenon DEF RawDone, GiveUp, Owned, Ends
    <3>3. EndOf(d)' BY <1>0, <1>1, <1>2, <1>3, <1>6, <2>2, <3>2, Zenon DEF EndOf
    <3> QED BY <1>0, <1>1, <2>3, <2>4, <2>5, <3>2, <3>3 DEF EndInv
  <2>8. CASE RawBenign(d)
    <3>1. step[d] = "solo" BY <1>7, <2>8, Zenon DEF RawBenign, FinishRaw
    <3>2. end'[d] = "benign" /\ end' \in [Direction -> Ends]
      BY <1>0, <1>6, <2>8, <3>1, Zenon DEF RawBenign, GiveUp, Owned, Ends
    <3>3. grant[d] = "Directional" BY <3>1, Zenon DEF HandoffInv, GrantMatchesStep
    <3>4. EndOf(d)' BY <1>0, <1>1, <1>2, <1>3, <2>2, <3>2, <3>3, Zenon DEF EndOf
    <3> QED BY <1>0, <1>1, <2>3, <2>4, <2>5, <3>2, <3>4, ZenonT(60) DEF EndInv
  <2> QED BY <2>6, <2>7, <2>8, Zenon
<1>8. CASE step[d] = "pair"
  <2>1. step[Peer(d)] = "left" /\ end[Peer(d)] = "live"
    BY <1>0, <1>8, Zenon DEF HandoffInv, PairPartners, EndOf, Active
  <2>2. \A e \in Direction : end[e] = "live" /\ ~Active(e)'
    BY <1>3, <1>6, <2>1, Zenon DEF Active
  <2>3. \A e \in Direction : e \in fin => e \in eof /\ stage[e] = <<>> /\ ahead[e] = <<>>
    BY <1>0, <2>2, Zenon DEF EndOf
  <2>4. fin' = fin /\ Owned(d) = Direction
    BY <1>8, Zenon DEF Graceful, FinishFramed, RawDone, RawBenign, Dropped, Owned
  <2>5. CASE RawDone(d)
    <3>1. /\ \A e \in Direction : end'[e] = "eof" /\ e \in fin
          /\ end' \in [Direction -> Ends] /\ linger' = linger
      BY <2>2, <2>4, <2>5, Zenon DEF RawDone, GiveUp, Ends
    <3>2. ASSUME NEW e \in Direction PROVE EndOf(e)'
      <4>1. step'[e] \in {"ended", "left"} BY <1>3, <2>1, Zenon
      <4>2. e \in eof' /\ stage'[e] = <<>> /\ ahead'[e] = <<>> BY <1>2, <2>3, <3>1, Zenon
      <4>3. grant'[e] = "Directional" => recovered' = {} BY <1>0, <1>1, Zenon DEF EndOf
      <4> QED BY <2>2, <3>1, <4>1, <4>2, <4>3, Zenon DEF EndOf
    <3> QED BY <1>0, <1>1, <2>4, <3>1, <3>2, Zenon DEF EndInv
  <2>6. CASE RawBenign(d)
    <3>1. /\ \A e \in Direction : end'[e] = "benign"
          /\ end' \in [Direction -> Ends] /\ linger' = (linger \/ LedgerTouched(d))
      BY <2>2, <2>4, <2>6, Zenon DEF RawBenign, GiveUp, Ends
    <3>2. LedgerTouched(d) <=> touched # {} BY <1>0, <2>4, Zenon DEF LedgerTouched
    <3>3. linger' \in BOOLEAN /\ (touched # {} => linger') BY <1>0, <3>1, <3>2, Zenon
    <3>4. ASSUME NEW e \in Direction PROVE EndOf(e)'
      BY <1>0, <1>1, <1>2, <1>3, <2>1, <2>2, <2>3, <2>4, <3>1, <3>3, ZenonT(60) DEF EndOf
    <3> QED BY <1>0, <1>1, <2>4, <3>1, <3>3, <3>4, Zenon DEF EndInv
  <2> QED BY <1>8, <2>5, <2>6, Zenon DEF Graceful, FinishFramed
<1> QED BY <1>1, <1>7, <1>8, Zenon

\* A step that gives up every half: the ends that were live are settled, the
\* others stay as they are.
LEMMA SettledEnds ==
  ASSUME HandoffInv, EndInv, DropSession, UNCHANGED <<bytes, touched>>,
         \E x \in Direction : end[x] = "live",
         end' \in [Direction -> Ends \ {"live"}],
         \A x \in Direction : end'[x] = "eof" => end[x] = "eof",
         fin' \subseteq Direction, linger' \in BOOLEAN, linger => linger',
         \A x \in Direction : end[x] # "live" => end'[x] = end[x] /\ (x \in fin' <=> x \in fin),
         \A x \in Direction : end[x] = "live" /\ end'[x] = "framed_err" => x \notin fin' /\ linger',
         \A x \in Direction : end[x] = "live" /\ end'[x] \in {"raw_err", "benign"} =>
            \/ grant[x] = "Directional"
            \/ (touched # {} => linger') /\ (x \in fin' => x \in eof)
  PROVE  EndInv'
<1>1. /\ stage' = stage /\ ahead' = ahead /\ eof' = eof /\ touched' = touched
      /\ grant' = grant /\ recovered' = recovered /\ \A x \in Direction : step'[x] = "ended"
  BY Zenon DEF bytes, DropSession
<1>2. ASSUME NEW x \in Direction PROVE EndOf(x)'
  BY <1>1, ZenonT(60) DEF EndInv, EndOf, Active, Ends
<1> QED BY <1>1, <1>2, Zenon DEF EndInv, Ends

\* A failing direction ends the session, and the error it reports is matched by
\* what its sink sees.
LEMMA FailuresKeepEnds ==
  ASSUME HandoffInv, ByteInv, EndInv, NEW d \in Direction, FailureStep(d)
  PROVE  EndInv'
<1> USE PeerFacts
<1>0. /\ end \in [Direction -> Ends] /\ fin \subseteq Direction /\ touched \subseteq Direction
      /\ linger \in BOOLEAN
      /\ \A e \in Direction : EndOf(e) /\ BytesOf(e)
  BY Zenon DEF EndInv, ByteInv
<1>1. step[d] \in {"pre", "solo", "pair"} /\ DropSession /\ UNCHANGED <<bytes, touched>>
  BY Zenon DEF FailureStep, FailFramed, FailDrain, FailRaw, Fail, CancelPeer
<1>2. end[d] = "live" BY <1>0, <1>1, Zenon DEF EndOf, Active
<1>3. ASSUME NEW x \in Direction, end[x] # "live" PROVE x = Peer(d) /\ x # d
  BY <1>2, <1>3, Zenon
<1>4. CASE FailFramed(d)
  <2>1. /\ step[d] = "pre" /\ d \notin fin BY <1>0, <1>4, Zenon DEF FailFramed, Guarded, EndOf
  <2>2. /\ end' \in [Direction -> Ends \ {"live"}] /\ end'[d] = "framed_err"
        /\ \A x \in Direction : /\ end'[x] = "eof" => end[x] = "eof"
                                /\ end[x] # "live" => end'[x] = end[x]
                                /\ end[x] = "live" => end'[x] \in {"framed_err", "dropped"}
                                /\ end[x] = "live" /\ end'[x] = "framed_err" => x = d
    BY <1>0, <1>2, <1>4, Zenon DEF FailFramed, Ends
  <2>3. linger' /\ linger' \in BOOLEAN
    BY <1>4, Zenon DEF FailFramed, CancelPeer
  <2>4. fin' \subseteq Direction /\ d \notin fin' /\ \A x \in Direction : end[x] # "live" => (x \in fin' <=> x \in fin)
    BY <1>0, <1>3, <1>4, <2>1, ZenonT(60) DEF FailFramed, CancelPeer
  <2> QED BY <1>1, <1>2, <2>2, <2>3, <2>4, SettledEnds, Zenon
<1>5. CASE FailDrain(d)
  <2>2. /\ end' \in [Direction -> Ends \ {"live"}]
        /\ \A x \in Direction : /\ end'[x] = "eof" => end[x] = "eof"
                                /\ end[x] # "live" => end'[x] = end[x]
                                /\ end[x] = "live" => end'[x] \in {"drain_err", "dropped"}
    BY <1>0, <1>2, <1>5, Zenon DEF FailDrain, Ends
  <2>3. linger' \in BOOLEAN /\ (linger => linger')
    BY <1>0, <1>5, Zenon DEF FailDrain, CancelPeer
  <2>4. fin' \subseteq Direction /\ \A x \in Direction : end[x] # "live" => (x \in fin' <=> x \in fin)
    BY <1>0, <1>2, <1>3, <1>5, ZenonT(60) DEF FailDrain, CancelPeer
  <2> QED BY <1>1, <1>2, <2>2, <2>3, <2>4, SettledEnds, Zenon
<1>6. CASE FailRaw(d)
  <2>0. step[d] \in {"solo", "pair"} BY <1>6, Zenon DEF FailRaw
  <2>2. /\ end' \in [Direction -> Ends \ {"live"}]
        /\ \A x \in Direction : /\ end'[x] = "eof" => end[x] = "eof"
                                /\ end[x] # "live" => end'[x] = end[x]
                                /\ end[x] = "live" => end'[x] \in {"raw_err", "dropped"}
                                /\ end[x] = "live" /\ end'[x] = "raw_err" => x \in Owned(d)
    BY <1>0, <1>2, <1>6, Zenon DEF FailRaw, Ends
  <2>3. linger' \in BOOLEAN /\ (linger => linger') /\ (LedgerTouched(d) => linger')
    BY <1>0, <1>6, Zenon DEF FailRaw, CancelPeer
  <2>4. fin' \subseteq Direction /\ \A x \in Direction : end[x] # "live" => (x \in fin' <=> x \in fin)
    BY <1>0, <1>2, <1>3, <1>6 DEF FailRaw, CancelPeer, Dropped
  <2>5. CASE step[d] = "solo"
    <3>1. grant[d] = "Directional" BY <2>5, Zenon DEF HandoffInv, GrantMatchesStep
    <3>2. Owned(d) = {d} BY <2>5, Zenon DEF Owned
    <3> QED BY <1>1, <1>2, <2>2, <2>3, <2>4, <3>1, <3>2, SettledEnds, Zenon
  <2>6. CASE step[d] = "pair"
    <3>1. Owned(d) = Direction /\ InPair BY <2>6, Zenon DEF Owned, InPair
    <3>2. fin' = fin BY <1>6, <2>6, <3>1, Zenon DEF FailRaw, CancelPeer, Dropped
    <3>3. touched # {} => linger' BY <1>0, <2>3, <3>1, Zenon DEF LedgerTouched
    <3>4. \A x \in Direction : end[x] = "live" /\ x \in fin' => x \in eof
      BY <1>0, <3>2, Zenon DEF EndOf
    <3> QED BY <1>1, <1>2, <2>2, <2>3, <2>4, <3>3, <3>4, SettledEnds, Zenon
  <2> QED BY <2>0, <2>5, <2>6, Zenon
<1> QED BY <1>4, <1>5, <1>6, Zenon DEF FailureStep

\* Dropping the session's future gives up every half that is left.
LEMMA DropKeepsEnds ==
  ASSUME HandoffInv, EndInv, DropFuture
  PROVE  EndInv'
<1>0. /\ end \in [Direction -> Ends] /\ fin \subseteq Direction /\ linger \in BOOLEAN
  BY Zenon DEF EndInv
<1>1. DropSession /\ UNCHANGED <<bytes, touched>> BY Zenon DEF DropFuture, Abandon
<1>2. Live BY Zenon DEF DropFuture, Abandon, Live
<1>3. \E x \in Direction : end[x] = "live" BY <1>2, LiveIsActive, Zenon
<1>4. /\ end' \in [Direction -> Ends \ {"live"}]
      /\ \A x \in Direction : /\ end'[x] = "eof" => end[x] = "eof"
                              /\ end[x] # "live" => end'[x] = end[x]
                              /\ end[x] = "live" => end'[x] = "dropped"
  BY <1>0, Zenon DEF DropFuture, GiveUp, Ends
<1>5. linger' \in BOOLEAN /\ (linger => linger') BY <1>0, Zenon DEF DropFuture
<1>6. fin' \subseteq Direction /\ \A x \in Direction : end[x] # "live" => (x \in fin' <=> x \in fin)
  BY <1>0, Zenon DEF DropFuture
<1> QED BY <1>1, <1>3, <1>4, <1>5, <1>6, SettledEnds, Zenon

\* Both directions are live when the session starts.
LEMMA EndInit == SessionInit => EndInv
<1> SUFFICES ASSUME SessionInit PROVE EndInv BY Zenon
<1> USE PeerFacts
<1>1. \A d \in Direction : step[d] = "pre" /\ grant[d] # "Directional" /\ end[d] = "live"
  BY Zenon DEF SessionInit, Init
<1>2. ASSUME NEW d \in Direction PROVE EndOf(d) BY <1>1, Zenon DEF SessionInit, EndOf, Active
<1> QED BY <1>2, Zenon DEF SessionInit, EndInv, Ends

\* EndInv is an invariant of the session.
LEMMA EndInvHolds == SessionSpec => []EndInv
<1>1. ASSUME HandoffInv, ByteInv, EndInv, [SessionNext]_sessionVars PROVE EndInv'
  <2>1. ASSUME NEW d \in Direction, ByteStep(d) PROVE EndInv' BY <1>1, <2>1, BytesKeepEnds, Zenon
  <2>2. ASSUME NEW d \in Direction, PhaseStep(d) PROVE EndInv'
    BY <1>1, <2>2, SwitchKeepsEnds, FinishKeepsEnds, Zenon DEF PhaseStep
  <2>3. ASSUME NEW d \in Direction, FailureStep(d) PROVE EndInv' BY <1>1, <2>3, FailuresKeepEnds, Zenon
  <2>4. CASE AbortTask BY <1>1, <2>4, DropKeepsEnds, Zenon DEF AbortTask
  <2>5. CASE IdleTick
    <3>1. DropFuture \/ UNCHANGED <<coordinator, bytes, sockets>> BY <2>5, Zenon DEF IdleTick
    <3> QED BY <1>1, <3>1, DropKeepsEnds, UnchangedEnds, Zenon
  <2>6. CASE SessionDone \/ UNCHANGED sessionVars
    <3>1. UNCHANGED <<coordinator, bytes, sockets>> BY <2>6, Zenon DEF SessionDone, SessionOver, sessionVars
    <3> QED BY <1>1, <3>1, UnchangedEnds, Zenon
  <2> QED BY <1>1, <2>1, <2>2, <2>3, <2>4, <2>5, <2>6, Zenon DEF SessionNext
<1>2. HandoffInv /\ ByteInv /\ EndInv /\ [SessionNext]_sessionVars => EndInv' BY <1>1, Zenon
<1> QED BY <1>2, EndInit, SessionHandoffInv, ByteInvHolds, PTL DEF SessionSpec

\* Whatever the phase and the relay form, the bytes of a direction reach its sink
\* in the order its source sent them, none lost and none twice.
THEOREM BytesStayInOrder == SessionSpec => []ByteOrder
<1>1. HandoffInv /\ ByteInv /\ EndInv /\ IdleInv => ByteOrder
  <2> SUFFICES ASSUME HandoffInv, ByteInv, EndInv, IdleInv PROVE ByteOrder BY Zenon
  <2>1. SessionTypeOK
    BY ZenonT(30) DEF HandoffInv, ByteInv, ByteTypes, BytesOf, EndInv, IdleInv, SessionTypeOK, Chunk
  <2>2. ASSUME NEW d \in Direction PROVE out[d] \o stage[d] \o ahead[d] = [i \in 1..taken[d] |-> i]
    <3>1. out[d] \in Seq(Chunk) /\ stage[d] \in Seq(Chunk) /\ ahead[d] \in Seq(Chunk) /\ taken[d] \in Nat
      BY SessionConstants DEF ByteInv, ByteTypes
    <3>2. InOrder(out[d], stage[d], ahead[d], taken[d]) BY Zenon DEF ByteInv, BytesOf
    <3> QED BY <3>1, <3>2, OrderedIsSent, Zenon
  <2> QED BY <2>1, <2>2, Zenon DEF ByteOrder
<1> QED BY <1>1, SessionHandoffInv, ByteInvHolds, EndInvHolds, IdleInvHolds, PTL

\* A half-close made on purpose follows the source's end and its last byte.
THEOREM HalfCloseIsComplete == SessionSpec => []EofOnlyWhenComplete
<1>1. ByteInv /\ EndInv => EofOnlyWhenComplete
  <2> SUFFICES ASSUME ByteInv, EndInv, NEW d \in Direction,
                      end[d] = "eof" \/ (end[d] = "live" /\ d \in fin)
               PROVE  d \in eof /\ Len(out[d]) = taken[d]
    BY Zenon DEF EofOnlyWhenComplete
  <2>1. d \in eof /\ stage[d] = <<>> /\ ahead[d] = <<>> BY Zenon DEF EndInv, EndOf
  <2>2. Len(out[d]) + Len(stage[d]) + Len(ahead[d]) = taken[d] BY Zenon
       DEF ByteInv, BytesOf, InOrder
  <2>3. Len(out[d]) \in Nat BY DEF ByteInv, ByteTypes
  <2> QED BY <2>1, <2>2, <2>3
<1> QED BY <1>1, ByteInvHolds, EndInvHolds, PTL

\* A framed direction that fails, and a bilateral relay that fails after its
\* first byte, are seen as a reset.
THEOREM FailureIsReset == SessionSpec => []AbortIsReset
<1>1. EndInv => AbortIsReset
  <2> SUFFICES ASSUME EndInv, NEW d \in Direction
               PROVE  /\ end[d] = "framed_err" => Signal(d) = "RST"
                      /\ end[d] \in {"raw_err", "benign"} /\ recovered # {} /\ touched # {} /\ d \notin eof =>
                            Signal(d) = "RST"
    BY Zenon DEF AbortIsReset
  <2> QED BY Zenon DEF EndInv, EndOf, Signal
<1> QED BY <1>1, EndInvHolds, PTL
=============================================================================
