---------------------------- MODULE PoolsProofs -----------------------------
(***************************************************************************)
(* Proofs about what sessions draw on: the relay's pipes and buffers for   *)
(* any number of relays and the dial-rate gate for any rate, burst and     *)
(* clock. Permits, buffers and admissions are counted by cardinality.      *)
(***************************************************************************)
EXTENDS RelayPools, DialRateGate, SequenceTheorems, FiniteSetTheorems, WellFoundedInduction,
        NaturalsInduction, TLAPS

-----------------------------------------------------------------------------
(* The pipe pool *)

\* No element twice.
Distinct(s) == \A i, j \in DOMAIN s : s[i] = s[j] => i = j

\* What the pool's and the leases' own operations do to the elements.
LEMMA ElementsAppend ==
    ASSUME NEW S, NEW s \in Seq(S), NEW e \in S
    PROVE  /\ Append(s, e) \in Seq(S) /\ Elements(Append(s, e)) = Elements(s) \cup {e}
           /\ Distinct(s) /\ e \notin Elements(s) => Distinct(Append(s, e))
<1>1. /\ DOMAIN s = 1 .. Len(s) /\ DOMAIN Append(s, e) = 1 .. Len(s) + 1 /\ Len(s) \in Nat
      /\ Append(s, e) \in Seq(S)
      /\ \A i \in 1 .. Len(s) : Append(s, e)[i] = s[i]
      /\ Append(s, e)[Len(s) + 1] = e
  OBVIOUS
<1>2. Elements(Append(s, e)) = Elements(s) \cup {e} BY <1>1 DEF Elements
<1>3. ASSUME Distinct(s), e \notin Elements(s) PROVE Distinct(Append(s, e))
  BY <1>1, <1>3 DEF Distinct, Elements
<1> QED BY <1>1, <1>2, <1>3, ZenonT(60)

\* What taking the head of a queue leaves.
LEMMA ElementsTail ==
    ASSUME NEW S, NEW s \in Seq(S), s # <<>>
    PROVE  /\ Head(s) \in Elements(s) /\ Head(s) \in S /\ Tail(s) \in Seq(S)
           /\ Elements(Tail(s)) \subseteq Elements(s) /\ Elements(s) \subseteq Elements(Tail(s)) \cup {Head(s)}
           /\ Distinct(s) => Distinct(Tail(s)) /\ Elements(Tail(s)) = Elements(s) \ {Head(s)}
<1>1. /\ DOMAIN s = 1 .. Len(s) /\ DOMAIN Tail(s) = 1 .. Len(s) - 1 /\ Len(s) \in Nat \ {0}
      /\ Tail(s) \in Seq(S) /\ Head(s) = s[1] /\ Head(s) \in S
      /\ \A i \in 1 .. Len(s) - 1 : Tail(s)[i] = s[i + 1]
  OBVIOUS
<1>2. Head(s) \in Elements(s) BY <1>1 DEF Elements
<1>3. Elements(Tail(s)) \subseteq Elements(s) BY <1>1 DEF Elements
<1>4. Elements(s) \subseteq Elements(Tail(s)) \cup {Head(s)}
  <2> SUFFICES ASSUME NEW i \in 1 .. Len(s), i # 1 PROVE s[i] \in Elements(Tail(s))
    BY <1>1 DEF Elements
  <2>1. i - 1 \in 1 .. Len(s) - 1 /\ s[i] = Tail(s)[i - 1] BY <1>1
  <2> QED BY <1>1, <2>1, Zenon DEF Elements
<1>5. ASSUME Distinct(s) PROVE Distinct(Tail(s)) /\ Head(s) \notin Elements(Tail(s))
  BY <1>1, <1>5 DEF Distinct, Elements
<1> QED BY <1>1, <1>2, <1>3, <1>4, <1>5, Zenon

\* What popping the last of a stack leaves.
LEMMA ElementsFront ==
    ASSUME NEW S, NEW s \in Seq(S), s # <<>>, Distinct(s)
    PROVE  LET front == SubSeq(s, 1, Len(s) - 1) last == s[Len(s)] IN
           /\ front \in Seq(S) /\ last \in S /\ last \in Elements(s) /\ Distinct(front)
           /\ Elements(front) = Elements(s) \ {last}
<1> DEFINE front == SubSeq(s, 1, Len(s) - 1)
           last == s[Len(s)]
<1>1. /\ DOMAIN s = 1 .. Len(s) /\ DOMAIN front = 1 .. Len(s) - 1 /\ Len(s) \in Nat \ {0}
      /\ front \in Seq(S) /\ last \in S
      /\ \A i \in 1 .. Len(s) - 1 : front[i] = s[i]
  OBVIOUS
<1> HIDE DEF front, last
<1>2. last = s[Len(s)] BY Zenon DEF last
<1>3. last \in Elements(s) BY <1>1, <1>2 DEF Elements
<1>4. Distinct(front) BY <1>1 DEF Distinct
<1>5. Elements(front) = Elements(s) \ {last}
  BY <1>1, <1>2 DEF Distinct, Elements
<1> QED BY <1>1, <1>3, <1>4, <1>5, Zenon DEF front, last

\* Where a pipe is: kept, leased by one relay, or closed, and always once.
PipesInOneHand ==
    /\ Distinct(idlePipes)
    /\ \A r \in Relay : /\ Distinct(leased[r])
                        /\ Elements(leased[r]) \cap Elements(idlePipes) = {}
                        /\ \A o \in Relay \ {r} : Elements(leased[r]) \cap Elements(leased[o]) = {}

\* Whose bytes it holds: its relay's, and nobody's when it is kept or closed.
OwnBytesOnly ==
    /\ \A r \in Relay : \A p \in Elements(leased[r]) : inPipe[p] \in {Drained, r}
    /\ \A p \in Pipe : (\A r \in Relay : p \notin Elements(leased[r])) => inPipe[p] = Drained

\* The inductive invariant of the splice side.
PipeInv ==
    /\ leased \in [Relay -> Seq(Pipe)] /\ idlePipes \in Seq(Pipe)
    /\ inPipe \in [Pipe -> Relay \cup {Drained}]
    /\ PipesInOneHand /\ OwnBytesOnly

\* A relay leases pipes.
LEMMA LeasedPipes ==
    ASSUME PipeInv, NEW r \in Relay
    PROVE  Elements(leased[r]) \subseteq Pipe
<1>1. leased[r] \in Seq(Pipe) BY Zenon DEF PipeInv
<1> QED BY <1>1 DEF Elements

\* Every pipe is idle or not yet created at the start.
LEMMA PipeInitInv == RelayInit => PipeInv
<1> SUFFICES ASSUME RelayInit PROVE PipeInv BY Zenon
<1>1. <<>> \in Seq(Pipe) /\ Elements(<<>>) = {} /\ Distinct(<<>>) BY DEF Elements, Distinct
<1> QED BY <1>1, Zenon DEF RelayInit, PipeInv, PipesInOneHand, OwnBytesOnly

\* A pipe is leased: the last one kept, or a new one.
LEMMA TakeKeeps ==
    ASSUME PipeInv, NEW r \in Relay, TakeIdle(r) \/ TakeNew(r)
    PROVE  PipeInv'
<1>1. PICK p \in Pipe : /\ leased' = [leased EXCEPT ![r] = Append(@, p)]
                        /\ p \notin Elements(idlePipes') /\ \A o \in Relay : p \notin Elements(leased[o])
                        /\ idlePipes' \in Seq(Pipe) /\ Distinct(idlePipes')
                        /\ Elements(idlePipes') \subseteq Elements(idlePipes)
                        /\ inPipe' = inPipe
  <2>1. CASE TakeIdle(r)
    <3>1. idlePipes \in Seq(Pipe) /\ idlePipes # <<>> /\ Distinct(idlePipes)
      BY <2>1, Zenon DEF TakeIdle, PipeInv, PipesInOneHand
    <3>2. LET last == idlePipes[Len(idlePipes)] IN
          /\ idlePipes' \in Seq(Pipe) /\ last \in Pipe /\ last \in Elements(idlePipes)
          /\ Distinct(idlePipes') /\ Elements(idlePipes') = Elements(idlePipes) \ {last}
      BY <2>1, <3>1, ElementsFront, Zenon DEF TakeIdle
    <3> QED BY <2>1, <3>2, Zenon DEF TakeIdle, Leases, PipeInv, PipesInOneHand
  <2>2. CASE TakeNew(r)
    <3>1. PICK p \in Pipe \ OpenPipes : Leases(r, p) BY <2>2, Zenon DEF TakeNew
    <3>2. p \notin Elements(idlePipes) BY <3>1, Zenon DEF OpenPipes
    <3>3. \A o \in Relay : p \notin Elements(leased[o]) BY <3>1, Zenon DEF OpenPipes
    <3>4. idlePipes' = idlePipes /\ inPipe' = inPipe BY <2>2, Zenon DEF TakeNew
    <3>5. leased' = [leased EXCEPT ![r] = Append(@, p)] BY <3>1, Zenon DEF Leases
    <3>6. idlePipes' \in Seq(Pipe) /\ Distinct(idlePipes') BY <3>4, Zenon DEF PipeInv, PipesInOneHand
    <3> QED BY <3>1, <3>2, <3>3, <3>4, <3>5, <3>6, Zenon
  <2> QED BY <2>1, <2>2, Zenon
<1>2. leased[r] \in Seq(Pipe) /\ Distinct(leased[r]) BY Zenon DEF PipeInv, PipesInOneHand
<1>3. /\ leased' \in [Relay -> Seq(Pipe)] /\ Distinct(leased'[r])
      /\ Elements(leased'[r]) = Elements(leased[r]) \cup {p}
      /\ \A o \in Relay \ {r} : leased'[o] = leased[o]
  BY <1>1, <1>2, ElementsAppend DEF PipeInv
<1>4. PipesInOneHand' BY <1>1, <1>3 DEF PipeInv, PipesInOneHand
<1>5. OwnBytesOnly' BY <1>1, <1>3, ZenonT(60) DEF PipeInv, OwnBytesOnly
<1> QED BY <1>1, <1>3, <1>4, <1>5, Zenon DEF PipeInv

\* A pipe is pumped through: only the relay's own bytes enter it.
LEMMA PumpKeeps ==
    ASSUME PipeInv, NEW r \in Relay, SpliceIn(r) \/ SpliceOut(r)
    PROVE  PipeInv'
<1>1. PICK p \in Elements(leased[r]), v \in {Drained, r} :
         inPipe' = [inPipe EXCEPT ![p] = v] /\ UNCHANGED <<leased, idlePipes>>
  BY Zenon DEF SpliceIn, SpliceOut
<1>2. p \in Pipe BY LeasedPipes, Zenon
<1>3. inPipe' \in [Pipe -> Relay \cup {Drained}] BY <1>1, <1>2, Zenon DEF PipeInv
<1>4. PipesInOneHand' BY <1>1, Zenon DEF PipeInv, PipesInOneHand
<1>5. ASSUME NEW o \in Relay, NEW q \in Elements(leased[o]) PROVE inPipe'[q] \in {Drained, o}
  <2>1. q \in Pipe BY <1>5, LeasedPipes, Zenon
  <2>2. CASE q = p
    <3>1. o = r BY <1>5, <2>2, Zenon DEF PipeInv, PipesInOneHand
    <3> QED BY <1>1, <1>2, <2>2, <3>1, Zenon DEF PipeInv
  <2>3. CASE q # p BY <1>1, <1>5, <2>1, <2>3, Zenon DEF PipeInv, OwnBytesOnly
  <2> QED BY <2>2, <2>3, Zenon
<1>6. ASSUME NEW q \in Pipe, \A o \in Relay : q \notin Elements(leased[o]) PROVE inPipe'[q] = Drained
  <2>1. q # p BY <1>6, Zenon
  <2> QED BY <1>1, <1>6, <2>1, Zenon DEF PipeInv, OwnBytesOnly
<1>7. OwnBytesOnly' BY <1>1, <1>5, <1>6 DEF OwnBytesOnly, Elements
<1> QED BY <1>1, <1>3, <1>4, <1>7, Zenon DEF PipeInv

\* A pipe goes back to the pool when it is drained, and is closed otherwise.
LEMMA GiveBackPipeKeeps ==
    ASSUME PipeInv, NEW r \in Relay, GiveBackPipe(r)
    PROVE  PipeInv'
<1> DEFINE p == Head(leased[r])
<1>1. leased[r] \in Seq(Pipe) /\ leased[r] # <<>> /\ Distinct(leased[r])
  BY Zenon DEF GiveBackPipe, PipeInv, PipesInOneHand
<1>2. /\ p \in Elements(leased[r]) /\ p \in Pipe /\ Tail(leased[r]) \in Seq(Pipe)
      /\ Distinct(Tail(leased[r])) /\ Elements(Tail(leased[r])) = Elements(leased[r]) \ {p}
  BY <1>1, ElementsTail, Zenon
<1>3. leased' = [leased EXCEPT ![r] = Tail(@)] BY Zenon DEF GiveBackPipe
<1> HIDE DEF p
<1>4. /\ leased' \in [Relay -> Seq(Pipe)] /\ Distinct(leased'[r])
      /\ Elements(leased'[r]) = Elements(leased[r]) \ {p}
      /\ \A o \in Relay \ {r} : leased'[o] = leased[o]
  BY <1>2, <1>3, Zenon DEF PipeInv
<1>5. /\ idlePipes' \in Seq(Pipe) /\ Distinct(idlePipes')
      /\ Elements(idlePipes') \subseteq Elements(idlePipes) \cup {p}
      /\ inPipe' \in [Pipe -> Relay \cup {Drained}]
      /\ inPipe'[p] = Drained /\ \A q \in Pipe \ {p} : inPipe'[q] = inPipe[q]
  <2>1. CASE Recyclable(p)
    <3>1. /\ inPipe[p] = Drained /\ inPipe' = inPipe /\ idlePipes' = Append(idlePipes, p)
      BY <2>1, Zenon DEF GiveBackPipe, Recyclable, p
    <3>2. p \notin Elements(idlePipes) BY <1>2, Zenon DEF PipeInv, PipesInOneHand
    <3>3. idlePipes \in Seq(Pipe) /\ Distinct(idlePipes) BY Zenon DEF PipeInv, PipesInOneHand
    <3>4. /\ idlePipes' \in Seq(Pipe) /\ Distinct(idlePipes')
          /\ Elements(idlePipes') = Elements(idlePipes) \cup {p}
      BY <1>2, <3>1, <3>2, <3>3, ElementsAppend
    <3> QED BY <3>1, <3>4, Zenon DEF PipeInv
  <2>2. CASE ~Recyclable(p)
    <3>1. Close({p}) /\ idlePipes' = idlePipes BY <2>2, Zenon DEF GiveBackPipe, p
    <3> QED BY <1>2, <3>1, Zenon DEF Close, PipeInv, PipesInOneHand
  <2> QED BY <2>1, <2>2, Zenon
<1>6. PipesInOneHand'
  <2> SUFFICES ASSUME NEW o \in Relay
               PROVE  /\ Distinct(leased'[o]) /\ Elements(leased'[o]) \cap Elements(idlePipes') = {}
                      /\ \A x \in Relay \ {o} : Elements(leased'[o]) \cap Elements(leased'[x]) = {}
    BY <1>5, Zenon DEF PipesInOneHand
  <2>1. Distinct(leased'[o]) BY <1>4, Zenon DEF PipeInv, PipesInOneHand
  <2>2. /\ Elements(leased'[o]) \subseteq Elements(leased[o]) \ {p}
        /\ \A x \in Relay : Elements(leased'[x]) \subseteq Elements(leased[x])
    BY <1>2, <1>4, ZenonT(60) DEF PipeInv, PipesInOneHand
  <2>3. /\ Elements(leased[o]) \cap Elements(idlePipes) = {}
        /\ \A x \in Relay \ {o} : Elements(leased[o]) \cap Elements(leased[x]) = {}
    BY Zenon DEF PipeInv, PipesInOneHand
  <2> QED BY <1>5, <2>1, <2>2, <2>3, Zenon
<1>7. OwnBytesOnly'
  <2>1. ASSUME NEW o \in Relay, NEW q \in Elements(leased'[o]) PROVE inPipe'[q] \in {Drained, o}
    <3>0. q \in Elements(leased[o]) BY <1>4, <2>1, Zenon
    <3>1. q \in Elements(leased[o]) /\ q \in Pipe BY <3>0, LeasedPipes, Zenon
    <3> QED BY <1>5, <3>1, Zenon DEF PipeInv, OwnBytesOnly
  <2>2. ASSUME NEW q \in Pipe, \A o \in Relay : q \notin Elements(leased'[o]) PROVE inPipe'[q] = Drained
    <3>1. CASE q = p BY <1>5, <3>1, Zenon
    <3>2. CASE q # p
      <4>1. \A o \in Relay : q \notin Elements(leased[o]) BY <1>4, <2>2, <3>2, Zenon
      <4> QED BY <1>5, <3>2, <4>1, Zenon DEF PipeInv, OwnBytesOnly
    <3> QED BY <3>1, <3>2, Zenon
  <2> QED BY <2>1, <2>2, Zenon DEF OwnBytesOnly
<1> QED BY <1>4, <1>5, <1>6, <1>7, Zenon DEF PipeInv

\* A dropped relay closes its pipes, whatever they hold.
LEMMA CancelPumpKeeps ==
    ASSUME PipeInv, NEW r \in Relay, CancelPump(r)
    PROVE  PipeInv'
<1>1. /\ leased' = [leased EXCEPT ![r] = <<>>] /\ idlePipes' = idlePipes
      /\ Close(Elements(leased[r]))
  BY Zenon DEF CancelPump
<1>2. <<>> \in Seq(Pipe) /\ Elements(<<>>) = {} /\ Distinct(<<>>) BY DEF Elements, Distinct
<1>3. /\ leased' \in [Relay -> Seq(Pipe)] /\ leased'[r] = <<>>
      /\ \A o \in Relay \ {r} : leased'[o] = leased[o]
  BY <1>1, <1>2, Zenon DEF PipeInv
<1>4. inPipe' \in [Pipe -> Relay \cup {Drained}] BY <1>1, Zenon DEF PipeInv, Close
<1>5. PipesInOneHand' BY <1>1, <1>2, <1>3, ZenonT(60) DEF PipeInv, PipesInOneHand
<1>6. OwnBytesOnly'
  <2>1. ASSUME NEW o \in Relay, NEW q \in Elements(leased'[o]) PROVE inPipe'[q] \in {Drained, o}
    <3>0. q \in Elements(leased[o]) BY <1>2, <1>3, <2>1, Zenon
    <3>1. q \in Elements(leased[o]) /\ q \in Pipe BY <3>0, LeasedPipes, Zenon
    <3> QED BY <1>1, <3>1, Zenon DEF PipeInv, OwnBytesOnly, Close
  <2>2. ASSUME NEW q \in Pipe, \A o \in Relay : q \notin Elements(leased'[o]) PROVE inPipe'[q] = Drained
    <3>1. CASE q \in Elements(leased[r]) BY <1>1, <3>1, Zenon DEF Close
    <3>2. CASE q \notin Elements(leased[r])
      <4>1. \A o \in Relay : q \notin Elements(leased[o]) BY <1>3, <2>2, <3>2, Zenon
      <4> QED BY <1>1, <3>2, <4>1, Zenon DEF PipeInv, OwnBytesOnly, Close
    <3> QED BY <3>1, <3>2, Zenon
  <2> QED BY <2>1, <2>2, Zenon DEF OwnBytesOnly
<1> QED BY <1>1, <1>3, <1>4, <1>5, <1>6, Zenon DEF PipeInv

\* The other steps leave the pipes alone.
LEMMA PipesUntouched ==
    ASSUME PipeInv, UNCHANGED <<leased, idlePipes, inPipe>>
    PROVE  PipeInv'
<1>1. leased' = leased /\ idlePipes' = idlePipes /\ inPipe' = inPipe BY Zenon
<1>2. PipesInOneHand' BY <1>1, Zenon DEF PipeInv, PipesInOneHand
<1>3. OwnBytesOnly' BY <1>1, Zenon DEF PipeInv, OwnBytesOnly
<1> QED BY <1>1, <1>2, <1>3, Zenon DEF PipeInv

\* PipeInv is an invariant of the pools.
LEMMA PipeInvHolds == RelaySpec => []PipeInv
<1>1. PipeInv /\ [RelayNext]_relayVars => PipeInv'
  <2> SUFFICES ASSUME PipeInv, [RelayNext]_relayVars PROVE PipeInv' BY Zenon
  <2>1. CASE UNCHANGED relayVars BY <2>1, PipesUntouched, Zenon DEF relayVars
  <2>2. ASSUME NEW r \in Relay,
               \/ Start(r) \/ TakeRefused(r) \/ PumpEnds(r) \/ SpliceOver(r) \/ AcquireBuffers(r)
               \/ CancelWait(r) \/ TakeBuffer(r) \/ AllocationFails(r) \/ CopyEnds(r)
               \/ ReturnBuffer(r) \/ ReleaseBuffers(r)
        PROVE  PipeInv'
    <3>1. UNCHANGED <<leased, idlePipes, inPipe>>
      BY <2>2, Zenon DEF Start, TakeRefused, PumpEnds, SpliceOver, AcquireBuffers, CancelWait, TakeBuffer,
                  AllocationFails, CopyEnds, ReturnBuffer, ReleaseBuffers, pipeVars
    <3> QED BY <3>1, PipesUntouched, Zenon
  <2> QED BY <2>1, <2>2, TakeKeeps, PumpKeeps, GiveBackPipeKeeps, CancelPumpKeeps, Zenon DEF RelayNext
<1> QED BY <1>1, PipeInitInv, PTL DEF RelaySpec

\* A relay never reads from a pipe bytes another relay left there.
THEOREM PipesCarryOwnBytes == RelaySpec => []NoForeignBytes
<1>1. PipeInv => NoForeignBytes BY Zenon DEF PipeInv, PipesInOneHand, OwnBytesOnly, NoForeignBytes
<1> QED BY <1>1, PipeInvHolds, PTL

-----------------------------------------------------------------------------
(* The buffer pool *)

\* A bounded set of numbers has its maximum.
LEMMA MaxIsReached ==
    ASSUME NEW m \in Nat, NEW K \in SUBSET (0 .. m), K # {}
    PROVE  Max(K) \in K /\ \A y \in K : Max(K) >= y
<1> DEFINE T == {n \in Nat : m - n \in K}
<1>1. T \subseteq Nat /\ T # {}
  <2>1. PICK k \in K : TRUE BY Zenon
  <2>2. k \in 0 .. m /\ m - k \in Nat /\ m - (m - k) = k BY <2>1
  <2>3. m - k \in T BY <2>1, <2>2, Zenon
  <2> QED BY <2>3, Zenon
<1>2. PICK n \in T : \A y \in T : ~ (<<y, n>> \in OpToRel(<, Nat))
  BY <1>1, NatLessThanWellFounded, WFMin, Zenon
<1>3. \A y \in T : ~(y < n) BY <1>2, Zenon DEF OpToRel
<1>4. m - n \in K /\ n \in Nat BY <1>2, Zenon
<1>5. ASSUME NEW y \in K PROVE m - n >= y
  <2>1. y \in 0 .. m /\ m - y \in Nat /\ m - (m - y) = y BY <1>5
  <2>2. m - y \in T BY <1>5, <2>1, Zenon
  <2>3. ~(m - y < n) BY <1>3, <2>2, Zenon
  <2> QED BY <1>4, <2>1, <2>3
<1> HIDE DEF T
<1>6. \E x \in K : \A y \in K : x >= y BY <1>4, <1>5, Zenon
<1> QED BY <1>6, Zenon DEF Max

\* The first k of a queue, counted.
LEMMA FrontCounted ==
    ASSUME NEW q \in Seq(Relay), Distinct(q), NEW k \in 0 .. Len(q)
    PROVE  LET F == {q[i] : i \in 1 .. k} IN
           /\ IsFiniteSet(F) /\ F \subseteq Relay
           /\ AskedBy(q, k) = Cardinality(F) + Cardinality(F \cap Bilateral)
<1> DEFINE F == {q[i] : i \in 1 .. k}
           B == {i \in 1 .. k : q[i] \in Bilateral}
           f == [i \in 1 .. k |-> q[i]]
           g == [i \in B |-> q[i]]
<1>1. Len(q) \in Nat /\ DOMAIN q = 1 .. Len(q) /\ k \in Nat /\ \A i \in 1 .. k : q[i] \in Relay OBVIOUS
<1>2. IsFiniteSet(1 .. k) /\ Cardinality(1 .. k) = k BY <1>1, FS_Interval
<1>3. f \in Bijection(1 .. k, F)
  BY <1>1 DEF Bijection, Injection, Surjection, IsInjective, Distinct
<1>4. IsFiniteSet(F) /\ Cardinality(F) = k BY <1>2, <1>3, FS_Bijection DEF ExistsBijection
<1>5. g \in Bijection(B, F \cap Bilateral)
  BY <1>1 DEF Bijection, Injection, Surjection, IsInjective, Distinct
<1>6. IsFiniteSet(B) BY <1>2, FS_Subset, Zenon
<1>7. Cardinality(F \cap Bilateral) = Cardinality(B) BY <1>5, <1>6, FS_Bijection DEF ExistsBijection
<1> QED BY <1>1, <1>4, <1>7, Zenon DEF AskedBy

\* One more of the queue asks for its own.
LEMMA NextAsks ==
    ASSUME NEW q \in Seq(Relay), NEW k \in Nat, k < Len(q)
    PROVE  AskedBy(q, k + 1) = AskedBy(q, k) + Needed(q[k + 1]) /\ AskedBy(q, k) \in Nat
<1> DEFINE B(n) == {i \in 1 .. n : q[i] \in Bilateral}
<1>1. IsFiniteSet(B(k)) /\ Cardinality(B(k)) \in Nat
  <2>1. IsFiniteSet(1 .. k) BY FS_Interval
  <2> QED BY <2>1, FS_Subset, FS_CardinalityType, Zenon
<1>2. CASE q[k + 1] \in Bilateral
  <2>1. B(k + 1) = B(k) \cup {k + 1} /\ k + 1 \notin B(k) BY <1>2
  <2>2. Cardinality(B(k + 1)) = Cardinality(B(k)) + 1 BY <1>1, <2>1, FS_AddElement, Zenon
  <2>3. AskedBy(q, k + 1) = k + 1 + (Cardinality(B(k)) + 1) /\ AskedBy(q, k) = k + Cardinality(B(k))
    BY <2>2, Zenon DEF AskedBy
  <2>4. Needed(q[k + 1]) = 2 BY <1>2, Zenon DEF Needed
  <2> HIDE DEF B
  <2> QED BY <1>1, <2>3, <2>4
<1>3. CASE q[k + 1] \notin Bilateral
  <2>1. B(k + 1) = B(k)
    <3>1. \A i \in 1 .. k + 1 : i = k + 1 \/ i \in 1 .. k OBVIOUS
    <3> QED BY <1>3, <3>1
  <2>2. Cardinality(B(k + 1)) = Cardinality(B(k)) BY <2>1, Zenon
  <2> QED BY <1>1, <1>3, <2>2 DEF AskedBy, Needed
<1> QED BY <1>2, <1>3, Zenon

\* As many waiters are served as the permits allow, and the next does not fit.
LEMMA ServedIsLargest ==
    ASSUME NEW q \in Seq(Relay), NEW n \in Nat
    PROVE  /\ Served(q, n) \in 0 .. Len(q) /\ AskedBy(q, Served(q, n)) <= n
           /\ Served(q, n) < Len(q) => n < AskedBy(q, Served(q, n) + 1)
<1> DEFINE K == {k \in 0 .. Len(q) : AskedBy(q, k) <= n}
<1>1. Len(q) \in Nat OBVIOUS
<1>2. AskedBy(q, 0) = 0
  <2>1. {i \in 1 .. 0 : q[i] \in Bilateral} = {} OBVIOUS
  <2> QED BY <2>1, FS_EmptySet DEF AskedBy
<1>3. 0 \in K BY <1>1, <1>2
<1>4. Max(K) \in K /\ \A y \in K : Max(K) >= y BY <1>1, <1>3, MaxIsReached, Zenon
<1>5. Served(q, n) = Max(K) BY Zenon DEF Served
<1> HIDE DEF K
<1>6. Max(K) \in 0 .. Len(q) /\ AskedBy(q, Max(K)) <= n BY <1>4, Zenon DEF K
<1>7. ASSUME Max(K) < Len(q) PROVE n < AskedBy(q, Max(K) + 1)
  <2>1. Max(K) + 1 \notin K BY <1>4, <1>6
  <2>2. Max(K) \in Nat /\ Max(K) + 1 \in 0 .. Len(q) BY <1>1, <1>6, <1>7
  <2>3. AskedBy(q, Max(K) + 1) \in Int BY <2>2, <1>7, NextAsks DEF Needed
  <2> QED BY <2>1, <2>2, <2>3 DEF K
<1> QED BY <1>5, <1>6, <1>7, Zenon

Stages == {"idle", "take", "pump", "return", "decline", "acquire", "wait", "fill", "copy", "drop"}
Holding == {"fill", "copy", "drop"}
Permits(S) == Cardinality(S) + Cardinality(S \cap Bilateral)

\* A number below another is below it by one at least.
LEMMA NotYetAll == ASSUME NEW a \in Nat, NEW b \in Nat, a <= b, a # b PROVE a + 1 <= b
OBVIOUS

\* The front of the line is served: its permits are taken from the free ones,
\* and the rest of the line waits because its first asks for more than is left.
LEMMA AssignServes ==
    ASSUME NEW q \in Seq(Relay), Distinct(q), NEW n \in Nat, NEW rest \in [Relay -> Stages],
           Assign(q, n, rest)
    PROVE  /\ bufferQueue' \in Seq(Relay) /\ Distinct(bufferQueue')
           /\ bufferFree' \in Nat
           /\ bufferQueue' # <<>> => bufferFree' < Needed(Head(bufferQueue'))
           /\ \E F \in SUBSET Elements(q) :
                 /\ Elements(bufferQueue') = Elements(q) \ F
                 /\ bufferFree' + Permits(F) = n
                 /\ relay' = [r \in Relay |-> IF r \in F THEN "fill" ELSE rest[r]]
<1> DEFINE k == Served(q, n)
           F == {q[i] : i \in 1 .. k}
<1>1. k \in 0 .. Len(q) /\ AskedBy(q, k) <= n /\ (k < Len(q) => n < AskedBy(q, k + 1))
  BY ServedIsLargest, Zenon
<1>2. /\ bufferQueue' = SubSeq(q, k + 1, Len(q)) /\ bufferFree' = n - AskedBy(q, k)
      /\ relay' = [r \in Relay |-> IF r \in F THEN "fill" ELSE rest[r]]
  BY Zenon DEF Assign
<1>3. AskedBy(q, k) = Permits(F) /\ F \subseteq Relay /\ Permits(F) \in Nat
  <2>1. IsFiniteSet(F) /\ F \subseteq Relay /\ AskedBy(q, k) = Cardinality(F) + Cardinality(F \cap Bilateral)
    BY <1>1, FrontCounted, Zenon
  <2>2. IsFiniteSet(F \cap Bilateral) BY <2>1, FS_Subset, Zenon
  <2>3. Cardinality(F) \in Nat /\ Cardinality(F \cap Bilateral) \in Nat BY <2>1, <2>2, FS_CardinalityType, Zenon
  <2> QED BY <2>1, <2>3 DEF Permits
<1> HIDE DEF k
<1>4. /\ Len(q) \in Nat /\ DOMAIN q = 1 .. Len(q) /\ k \in Nat /\ \A i \in 1 .. Len(q) : q[i] \in Relay
  BY <1>1
<1>5. /\ bufferQueue' \in Seq(Relay) /\ Len(bufferQueue') = Len(q) - k
      /\ DOMAIN bufferQueue' = 1 .. Len(q) - k
      /\ \A i \in 1 .. Len(q) - k : bufferQueue'[i] = q[i + k]
  <2> DEFINE s == SubSeq(q, k + 1, Len(q))
  <2>1. s \in Seq(Relay) /\ Len(s) = Len(q) - k /\ \A i \in 1 .. Len(q) - k : s[i] = q[k + 1 + i - 1]
    <3>1. k + 1 \in Int /\ Len(q) \in Int /\ (\A i \in k + 1 .. Len(q) : q[i] \in Relay) BY <1>4
    <3>2. /\ s \in Seq(Relay) /\ Len(s) = IF k + 1 <= Len(q) THEN Len(q) - (k + 1) + 1 ELSE 0
          /\ \A i \in 1 .. Len(q) - (k + 1) + 1 : s[i] = q[k + 1 + i - 1]
      BY <3>1, SubSeqProperties
    <3> HIDE DEF s
    <3>3. k <= Len(q) BY <1>1, <1>4
    <3>4. Len(q) - (k + 1) + 1 = Len(q) - k BY <1>4
    <3>5. Len(s) = Len(q) - k
      <4>1. CASE k = Len(q) BY <1>4, <3>2, <4>1
      <4>2. CASE k # Len(q)
        <5>1. k + 1 <= Len(q) BY <1>4, <3>3, <4>2, NotYetAll, Zenon
        <5> QED BY <3>2, <3>4, <5>1, Zenon
      <4> QED BY <4>1, <4>2, Zenon
    <3> QED BY <3>2, <3>4, <3>5, Zenon
  <2> HIDE DEF s
  <2>2. DOMAIN s = 1 .. Len(q) - k BY <2>1
  <2>3. \A i \in 1 .. Len(q) - k : k + 1 + i - 1 = i + k BY <1>4
  <2>4. bufferQueue' = s BY <1>2, Zenon DEF s
  <2> QED BY <2>1, <2>2, <2>3, <2>4, Zenon
<1>6. Distinct(bufferQueue')
  <2> SUFFICES ASSUME NEW i \in 1 .. Len(q) - k, NEW j \in 1 .. Len(q) - k, bufferQueue'[i] = bufferQueue'[j]
               PROVE  i = j
    BY <1>5, Zenon DEF Distinct
  <2>1. i + k \in DOMAIN q /\ j + k \in DOMAIN q /\ q[i + k] = q[j + k] BY <1>4, <1>5
  <2>2. i + k = j + k BY <2>1, Zenon DEF Distinct
  <2> QED BY <1>4, <2>2
<1>7. Elements(bufferQueue') = Elements(q) \ F
  <2>1. ASSUME NEW i \in 1 .. Len(q) - k PROVE bufferQueue'[i] \in Elements(q) \ F
    <3>1. i + k \in DOMAIN q /\ i + k \notin 1 .. k /\ bufferQueue'[i] = q[i + k] BY <1>4, <1>5
    <3>2. \A j \in 1 .. k : q[j] # q[i + k]
      <4>1. \A j \in 1 .. k : j \in DOMAIN q BY <1>1, <1>4
      <4> QED BY <3>1, <4>1, Zenon DEF Distinct
    <3> QED BY <3>1, <3>2, Zenon DEF Elements
  <2>2. ASSUME NEW j \in 1 .. Len(q), q[j] \notin F PROVE q[j] \in Elements(bufferQueue')
    <3>1. j \notin 1 .. k BY <2>2, Zenon
    <3>2. j - k \in 1 .. Len(q) - k /\ (j - k) + k = j BY <1>1, <1>4, <3>1
    <3>3. bufferQueue'[j - k] = q[j] BY <1>5, <3>2, Zenon
    <3> QED BY <1>5, <3>2, <3>3, Zenon DEF Elements
  <2> QED BY <1>4, <1>5, <2>1, <2>2, ZenonT(60) DEF Elements
<1>8. ASSUME bufferQueue' # <<>> PROVE bufferFree' < Needed(Head(bufferQueue'))
  <2>1. k < Len(q)
    <3>1. Len(bufferQueue') # 0 BY <1>5, <1>8
    <3> QED BY <1>1, <1>4, <1>5, <3>1
  <2>2. Head(bufferQueue') = q[k + 1]
    <3>1. Head(bufferQueue') = bufferQueue'[1] BY <1>5, <1>8
    <3>2. 1 \in 1 .. Len(q) - k /\ 1 + k = k + 1 BY <1>4, <2>1
    <3> QED BY <1>5, <3>1, <3>2, Zenon
  <2>3. AskedBy(q, k + 1) = AskedBy(q, k) + Needed(q[k + 1]) /\ AskedBy(q, k) \in Nat
    BY <1>4, <2>1, NextAsks, Zenon
  <2>4. Needed(q[k + 1]) \in Nat BY Zenon DEF Needed
  <2> QED BY <1>1, <1>2, <2>1, <2>2, <2>3, <2>4
<1>9. F \subseteq Elements(q) BY <1>1, <1>4 DEF Elements
<1>10. bufferFree' \in Nat /\ bufferFree' + Permits(F) = n BY <1>1, <1>2, <1>3
<1> HIDE DEF F
<1> QED BY <1>2, <1>5, <1>6, <1>7, <1>8, <1>9, <1>10, Zenon

BufferHolders(f) == {r \in Relay : f[r] \in Holding}
HoldingAtLeast(n) == {r \in Relay : bufferHeld[r] >= n}

\* Who holds buffers holds the permits for them.
HeldWithPermit(f) ==
    \A r \in Relay : /\ bufferHeld[r] > 0 => f[r] \in Holding
                     /\ bufferHeld[r] <= Needed(r)
                     /\ f[r] = "fill" => bufferHeld[r] < Needed(r)

\* The inductive invariant of the buffer side.
BufferInv ==
    /\ relay \in [Relay -> Stages]
    /\ bufferQueue \in Seq(Relay) /\ Distinct(bufferQueue)
    /\ Elements(bufferQueue) = {r \in Relay : relay[r] = "wait"}
    /\ bufferFree \in Nat /\ available \in Nat /\ bufferHeld \in [Relay -> 0 .. 2]
    /\ HeldWithPermit(relay)
    /\ bufferFree + Permits(BufferHolders(relay)) = MaxBuffers
    /\ available + Cardinality(HoldingAtLeast(1)) + Cardinality(HoldingAtLeast(2)) <= MaxBuffers
    /\ bufferQueue # <<>> => bufferFree < Needed(Head(bufferQueue))

\* The permits of a set of relays are a number.
LEMMA PermitsCounted ==
    ASSUME NEW S \in SUBSET Relay
    PROVE  /\ IsFiniteSet(S) /\ IsFiniteSet(S \cap Bilateral)
           /\ Cardinality(S) \in Nat /\ Cardinality(S \cap Bilateral) \in Nat /\ Permits(S) \in Nat
<1>1. IsFiniteSet(S) BY RelayAssumption, FS_Subset, Zenon
<1>2. IsFiniteSet(S \cap Bilateral) BY <1>1, FS_Subset, Zenon
<1>3. Cardinality(S) \in Nat /\ Cardinality(S \cap Bilateral) \in Nat BY <1>1, <1>2, FS_CardinalityType, Zenon
<1> QED BY <1>1, <1>2, <1>3 DEF Permits

\* The permits of two separate sets add up.
LEMMA PermitsApart ==
    ASSUME NEW S \in SUBSET Relay, NEW T \in SUBSET Relay, S \cap T = {}
    PROVE  Permits(S \cup T) = Permits(S) + Permits(T)
<1>1. /\ IsFiniteSet(S) /\ IsFiniteSet(S \cap Bilateral)
      /\ Cardinality(S) \in Nat /\ Cardinality(S \cap Bilateral) \in Nat
      /\ IsFiniteSet(T) /\ IsFiniteSet(T \cap Bilateral)
      /\ Cardinality(T) \in Nat /\ Cardinality(T \cap Bilateral) \in Nat
  BY PermitsCounted, Zenon
<1>2. Cardinality(S \cup T) = Cardinality(S) + Cardinality(T)
  <2>1. Cardinality(S \cup T) = Cardinality(S) + Cardinality(T) - Cardinality(S \cap T) BY <1>1, FS_Union, Zenon
  <2>2. Cardinality(S \cap T) = 0 BY FS_EmptySet, Zenon
  <2> QED BY <1>1, <2>1, <2>2
<1>3. Cardinality((S \cup T) \cap Bilateral) = Cardinality(S \cap Bilateral) + Cardinality(T \cap Bilateral)
  <2> DEFINE A == S \cap Bilateral
             B == T \cap Bilateral
  <2>1. Cardinality(A \cup B) = Cardinality(A) + Cardinality(B) - Cardinality(A \cap B) BY <1>1, FS_Union, Zenon
  <2>2. A \cap B = {} /\ A \cup B = (S \cup T) \cap Bilateral BY Zenon
  <2>3. Cardinality(A \cap B) = 0 BY <2>2, FS_EmptySet, Zenon
  <2>4. Cardinality(A) \in Nat /\ Cardinality(B) \in Nat BY <1>1, Zenon
  <2> HIDE DEF A, B
  <2>5. Cardinality(A \cup B) = Cardinality(A) + Cardinality(B) BY <2>1, <2>3, <2>4
  <2> QED BY <2>2, <2>5, Zenon DEF A, B
<1> QED BY <1>1, <1>2, <1>3 DEF Permits

\* One relay has the permits it needs.
LEMMA PermitsOfOne ==
    ASSUME NEW r \in Relay
    PROVE  Permits({r}) = Needed(r)
<1>1. Cardinality({r}) = 1 BY FS_Singleton, Zenon
<1>2. CASE r \in Bilateral
  <2>1. {r} \cap Bilateral = {r} BY <1>2, Zenon
  <2> QED BY <1>1, <1>2, <2>1 DEF Permits, Needed
<1>3. CASE r \notin Bilateral
  <2>1. {r} \cap Bilateral = {} BY <1>3, Zenon
  <2> QED BY <1>1, <1>3, <2>1, FS_EmptySet DEF Permits, Needed
<1> QED BY <1>2, <1>3, Zenon

\* A change of the line, of the free permits or of the holders.
LEMMA AssignKeeps ==
    ASSUME NEW q \in Seq(Relay), Distinct(q), NEW n \in Nat, NEW rest \in [Relay -> Stages],
           Elements(q) = {r \in Relay : rest[r] = "wait"},
           n + Permits(BufferHolders(rest)) = MaxBuffers,
           HeldWithPermit(rest),
           BufferInv, Assign(q, n, rest), UNCHANGED <<available, bufferHeld>>
    PROVE  BufferInv'
<1>1. PICK F \in SUBSET Elements(q) :
         /\ Elements(bufferQueue') = Elements(q) \ F
         /\ bufferFree' + Permits(F) = n
         /\ relay' = [r \in Relay |-> IF r \in F THEN "fill" ELSE rest[r]]
  BY AssignServes
<1>2. /\ bufferQueue' \in Seq(Relay) /\ Distinct(bufferQueue') /\ bufferFree' \in Nat
      /\ bufferQueue' # <<>> => bufferFree' < Needed(Head(bufferQueue'))
  BY AssignServes, Zenon
<1>3. relay' \in [Relay -> Stages] BY <1>1, Zenon DEF Stages
<1>4. \A r \in F : r \in Relay /\ rest[r] = "wait" BY <1>1, Zenon
<1>5. Elements(bufferQueue') = {r \in Relay : relay'[r] = "wait"} BY <1>1, <1>4, Zenon
<1>6. HeldWithPermit(relay)'
  <2> SUFFICES ASSUME NEW r \in Relay
               PROVE  /\ bufferHeld[r] > 0 => relay'[r] \in Holding
                      /\ bufferHeld[r] <= Needed(r)
                      /\ relay'[r] = "fill" => bufferHeld[r] < Needed(r)
    BY Zenon DEF HeldWithPermit
  <2>1. CASE r \in F
    <3>1. ~(bufferHeld[r] > 0) BY <1>4, <2>1, Zenon DEF HeldWithPermit, Holding
    <3>2. bufferHeld[r] = 0 BY <3>1 DEF BufferInv
    <3> QED BY <1>1, <2>1, <3>2 DEF Holding, Needed
  <2>2. CASE r \notin F BY <1>1, <2>2, Zenon DEF HeldWithPermit
  <2> QED BY <2>1, <2>2, Zenon
<1>7. bufferFree' + Permits(BufferHolders(relay')) = MaxBuffers
  <2>1. BufferHolders(relay') = BufferHolders(rest) \cup F BY <1>1, <1>4, Zenon DEF BufferHolders, Holding
  <2>2. BufferHolders(rest) \cap F = {} BY <1>4, Zenon DEF BufferHolders, Holding
  <2>3. BufferHolders(rest) \in SUBSET Relay /\ F \in SUBSET Relay BY <1>4, Zenon DEF BufferHolders
  <2>4. Permits(BufferHolders(relay')) = Permits(BufferHolders(rest)) + Permits(F) BY <2>1, <2>2, <2>3, PermitsApart, Zenon
  <2>5. Permits(BufferHolders(rest)) \in Nat /\ Permits(F) \in Nat BY <2>3, PermitsCounted, Zenon
  <2> QED BY <1>1, <1>2, <2>4, <2>5
<1>8. available' = available /\ bufferHeld' = bufferHeld BY Zenon
<1>9. BufferHolders(relay') = BufferHolders(relay)' BY Zenon DEF BufferHolders
<1>10. HoldingAtLeast(1)' = HoldingAtLeast(1) /\ HoldingAtLeast(2)' = HoldingAtLeast(2)
  BY <1>8, Zenon DEF HoldingAtLeast
<1>11. available' + Cardinality(HoldingAtLeast(1)') + Cardinality(HoldingAtLeast(2)') <= MaxBuffers
  BY <1>8, <1>10, Zenon DEF BufferInv
<1>12. available' \in Nat /\ bufferHeld' \in [Relay -> 0 .. 2] BY <1>8, Zenon DEF BufferInv
<1> QED BY <1>2, <1>3, <1>5, <1>6, <1>7, <1>9, <1>11, <1>12, Zenon DEF BufferInv

\* A waiter that leaves the queue leaves the others in it.
LEMMA WithoutElements ==
    ASSUME NEW q \in Seq(Relay), Distinct(q), NEW i \in DOMAIN q
    PROVE  /\ Without(q, i) \in Seq(Relay) /\ Distinct(Without(q, i))
           /\ Elements(Without(q, i)) = Elements(q) \ {q[i]}
<1> DEFINE w == Without(q, i)
<1>1. Len(q) \in Nat /\ DOMAIN q = 1 .. Len(q) /\ i \in 1 .. Len(q) /\ Len(q) - 1 \in Nat
      /\ \A j \in 1 .. Len(q) : q[j] \in Relay
  OBVIOUS
<1>2. /\ w = [j \in 1 .. Len(q) - 1 |-> IF j < i THEN q[j] ELSE q[j + 1]]
      /\ DOMAIN w = 1 .. Len(q) - 1
      /\ \A j \in 1 .. Len(q) - 1 : w[j] = IF j < i THEN q[j] ELSE q[j + 1]
  BY Zenon DEF Without
<1> HIDE DEF w
<1>3. \A j \in 1 .. Len(q) - 1 : j \in 1 .. Len(q) /\ j + 1 \in 1 .. Len(q) BY <1>1
<1>4. w \in [1 .. Len(q) - 1 -> Relay] BY <1>1, <1>2, <1>3, Zenon
<1>5. w \in Seq(Relay) BY <1>1, <1>4
<1> DEFINE skip(j) == IF j < i THEN j ELSE j + 1
<1>6. \A j \in 1 .. Len(q) - 1 : skip(j) \in 1 .. Len(q) /\ skip(j) # i /\ w[j] = q[skip(j)]
  BY <1>1, <1>2, <1>3
<1>10. \A a, b \in 1 .. Len(q) - 1 : skip(a) = skip(b) => a = b BY <1>1
<1> HIDE DEF skip
<1>11. \A a, b \in 1 .. Len(q) : q[a] = q[b] => a = b BY <1>1, Zenon DEF Distinct
<1>12. Distinct(w)
  <2> SUFFICES ASSUME NEW a \in 1 .. Len(q) - 1, NEW b \in 1 .. Len(q) - 1, w[a] = w[b] PROVE a = b
    BY <1>2, ZenonT(60) DEF Distinct
  <2>1. skip(a) = skip(b) BY <1>6, <1>11
  <2> QED BY <1>10, <2>1, Zenon
<1>7. ASSUME NEW a \in 1 .. Len(q) - 1 PROVE w[a] \in Elements(q) /\ w[a] # q[i]
  <2>1. w[a] = q[skip(a)] /\ skip(a) \in 1 .. Len(q) /\ skip(a) # i BY <1>6, Zenon
  <2> QED BY <1>1, <1>11, <2>1, Zenon DEF Elements
<1>8. ASSUME NEW j \in 1 .. Len(q), j # i PROVE q[j] \in Elements(w)
  <2>1. CASE j < i
    <3>1. j \in 1 .. Len(q) - 1 BY <1>1, <2>1
    <3> QED BY <1>2, <2>1, <3>1, Zenon DEF Elements
  <2>2. CASE j > i
    <3>1. j - 1 \in 1 .. Len(q) - 1 /\ (j - 1) + 1 = j /\ ~(j - 1 < i) BY <1>1, <2>2
    <3>2. w[j - 1] = q[j] BY <1>2, <3>1, Zenon
    <3> QED BY <1>2, <3>1, <3>2, Zenon DEF Elements
  <2> QED BY <1>1, <1>8, <2>1, <2>2
<1>9. Elements(w) = Elements(q) \ {q[i]}
  <2>1. Elements(w) = {w[a] : a \in 1 .. Len(q) - 1} /\ Elements(q) = {q[j] : j \in 1 .. Len(q)}
    BY <1>1, <1>2, Zenon DEF Elements
  <2>2. Elements(w) \subseteq Elements(q) \ {q[i]} BY <2>1, <1>7, Zenon
  <2>3. Elements(q) \ {q[i]} \subseteq Elements(w) BY <2>1, <1>8, Zenon
  <2> QED BY <2>2, <2>3, Zenon
<1> QED BY <1>5, <1>12, <1>9, Zenon DEF w

\* The three steps that change the line.
LEMMA LineKeeps ==
    ASSUME BufferInv, NEW r \in Relay, AcquireBuffers(r) \/ CancelWait(r) \/ ReleaseBuffers(r)
    PROVE  BufferInv'
<1>0. UNCHANGED <<available, bufferHeld>> BY Zenon DEF AcquireBuffers, CancelWait, ReleaseBuffers
<1>1. /\ bufferQueue \in Seq(Relay) /\ Distinct(bufferQueue) /\ relay \in [Relay -> Stages]
      /\ Elements(bufferQueue) = {o \in Relay : relay[o] = "wait"}
      /\ bufferFree \in Nat /\ bufferFree + Permits(BufferHolders(relay)) = MaxBuffers
      /\ HeldWithPermit(relay) /\ bufferHeld \in [Relay -> 0 .. 2]
  BY Zenon DEF BufferInv
<1>2. CASE AcquireBuffers(r)
  <2> DEFINE q == Append(bufferQueue, r)
             rest == [relay EXCEPT ![r] = "wait"]
  <2>1. relay[r] = "acquire" /\ Assign(q, bufferFree, rest) BY <1>2, Zenon DEF AcquireBuffers
  <2>2. r \notin Elements(bufferQueue) BY <1>1, <2>1, Zenon
  <2>3. q \in Seq(Relay) /\ Distinct(q) /\ Elements(q) = Elements(bufferQueue) \cup {r}
    BY <1>1, <2>2, ElementsAppend
  <2>4. rest \in [Relay -> Stages] /\ Elements(q) = {o \in Relay : rest[o] = "wait"}
    BY <1>1, <2>3, Zenon DEF Stages
  <2>5. BufferHolders(rest) = BufferHolders(relay) BY <1>1, <2>1, Zenon DEF BufferHolders, Holding
  <2>6. HeldWithPermit(rest) BY <1>1, <2>1, Zenon DEF HeldWithPermit, Holding
  <2> HIDE DEF q, rest
  <2>7. bufferFree + Permits(BufferHolders(rest)) = MaxBuffers BY <1>1, <2>5, Zenon
  <2> QED BY <1>0, <1>1, <2>1, <2>3, <2>4, <2>6, <2>7, AssignKeeps, Zenon
<1>3. CASE CancelWait(r)
  <2> DEFINE rest == [relay EXCEPT ![r] = "idle"]
  <2>1. PICK i \in DOMAIN bufferQueue :
           bufferQueue[i] = r /\ Assign(Without(bufferQueue, i), bufferFree, rest)
    BY <1>3, Zenon DEF CancelWait
  <2>2. relay[r] = "wait" BY <1>3, Zenon DEF CancelWait
  <2> DEFINE q == Without(bufferQueue, i)
  <2>3. q \in Seq(Relay) /\ Distinct(q) /\ Elements(q) = Elements(bufferQueue) \ {r}
    BY <1>1, <2>1, WithoutElements, Zenon
  <2>4. rest \in [Relay -> Stages] /\ Elements(q) = {o \in Relay : rest[o] = "wait"}
    BY <1>1, <2>3, Zenon DEF Stages
  <2>5. BufferHolders(rest) = BufferHolders(relay) BY <1>1, <2>2, Zenon DEF BufferHolders, Holding
  <2>6. HeldWithPermit(rest) BY <1>1, <2>2, Zenon DEF HeldWithPermit, Holding
  <2>7. Assign(q, bufferFree, rest) BY <2>1, Zenon
  <2> HIDE DEF q, rest
  <2>8. bufferFree + Permits(BufferHolders(rest)) = MaxBuffers BY <1>1, <2>5, Zenon
  <2> QED BY <1>0, <1>1, <2>3, <2>4, <2>6, <2>7, <2>8, AssignKeeps, Zenon
<1>4. CASE ReleaseBuffers(r)
  <2> DEFINE rest == [relay EXCEPT ![r] = "idle"]
             n == bufferFree + Needed(r)
  <2>1. relay[r] = "drop" /\ bufferHeld[r] = 0 /\ Assign(bufferQueue, n, rest)
    BY <1>4, Zenon DEF ReleaseBuffers
  <2>2. n \in Nat BY <1>1 DEF Needed
  <2>3. rest \in [Relay -> Stages] /\ Elements(bufferQueue) = {o \in Relay : rest[o] = "wait"}
    BY <1>1, <2>1, Zenon DEF Stages
  <2>4. HeldWithPermit(rest)
    <3> SUFFICES ASSUME NEW o \in Relay
                 PROVE  /\ bufferHeld[o] > 0 => rest[o] \in Holding
                        /\ bufferHeld[o] <= Needed(o)
                        /\ rest[o] = "fill" => bufferHeld[o] < Needed(o)
      BY Zenon DEF HeldWithPermit
    <3>1. CASE o = r BY <1>1, <2>1, <3>1 DEF Needed
    <3>2. CASE o # r BY <1>1, <3>2, Zenon DEF HeldWithPermit
    <3> QED BY <3>1, <3>2, Zenon
  <2>5. /\ BufferHolders(relay) = BufferHolders(rest) \cup {r} /\ BufferHolders(rest) \cap {r} = {}
        /\ BufferHolders(rest) \in SUBSET Relay /\ {r} \in SUBSET Relay
    BY <1>1, <2>1, Zenon DEF BufferHolders, Holding
  <2>6. Permits(BufferHolders(relay)) = Permits(BufferHolders(rest)) + Needed(r)
    BY <2>5, PermitsApart, PermitsOfOne, ZenonT(60)
  <2>7. Permits(BufferHolders(rest)) \in Nat /\ Needed(r) \in Nat BY <2>5, PermitsCounted, Zenon
       DEF Needed
  <2>8. n + Permits(BufferHolders(rest)) = MaxBuffers BY <1>1, <2>6, <2>7
  <2> HIDE DEF n, rest
  <2> QED BY <1>0, <1>1, <2>1, <2>2, <2>3, <2>4, <2>8, AssignKeeps, Zenon
<1> QED BY <1>2, <1>3, <1>4, Zenon

\* Steps that leave the line, the permits and who holds them alone.
LEMMA HoldersStay ==
    ASSUME BufferInv, bufferQueue' = bufferQueue, bufferFree' = bufferFree,
           relay' \in [Relay -> Stages],
           \A r \in Relay : /\ relay'[r] = "wait" <=> relay[r] = "wait"
                            /\ relay'[r] \in Holding <=> relay[r] \in Holding,
           available' \in Nat, bufferHeld' \in [Relay -> 0 .. 2], HeldWithPermit(relay)',
           available' + Cardinality(HoldingAtLeast(1)') + Cardinality(HoldingAtLeast(2)') <= MaxBuffers
    PROVE  BufferInv'
<1>1. Elements(bufferQueue') = {r \in Relay : relay'[r] = "wait"} BY Zenon DEF BufferInv
<1>2. BufferHolders(relay') = BufferHolders(relay) /\ BufferHolders(relay') = BufferHolders(relay)' BY Zenon DEF BufferHolders
<1>3. bufferFree' + Permits(BufferHolders(relay)') = MaxBuffers BY <1>2, Zenon DEF BufferInv
<1>4. bufferQueue' # <<>> => bufferFree' < Needed(Head(bufferQueue')) BY Zenon DEF BufferInv
<1>5. bufferQueue' \in Seq(Relay) /\ Distinct(bufferQueue') /\ bufferFree' \in Nat BY Zenon DEF BufferInv
<1> QED BY <1>1, <1>3, <1>4, <1>5, Zenon DEF BufferInv

\* The relays that hold n buffers can be counted, before and after a step.
LEMMA HoldingCounted ==
    ASSUME NEW n \in Nat
    PROVE  /\ IsFiniteSet(HoldingAtLeast(n)) /\ Cardinality(HoldingAtLeast(n)) \in Nat
           /\ IsFiniteSet(HoldingAtLeast(n)') /\ Cardinality(HoldingAtLeast(n)') \in Nat
<1>1. HoldingAtLeast(n) \subseteq Relay /\ HoldingAtLeast(n)' \subseteq Relay BY Zenon DEF HoldingAtLeast
<1> QED BY <1>1, RelayAssumption, FS_Subset, FS_CardinalityType, Zenon

\* One buffer more, or one less, in a relay's hands.
LEMMA OneMore ==
    ASSUME NEW held \in [Relay -> 0 .. 2], NEW r \in Relay, held[r] < 2
    PROVE  LET count(h) == Cardinality({o \in Relay : h[o] >= 1}) + Cardinality({o \in Relay : h[o] >= 2})
           IN  count([held EXCEPT ![r] = @ + 1]) = count(held) + 1
<1> DEFINE more == [held EXCEPT ![r] = @ + 1]
           S(h, n) == {o \in Relay : h[o] >= n}
<1>1. more \in [Relay -> 0 .. 2] /\ more[r] = held[r] + 1 /\ \A o \in Relay \ {r} : more[o] = held[o]
      /\ held[r] \in {0, 1}
  OBVIOUS
<1> HIDE DEF more
<1>2. \A h, n : IsFiniteSet(S(h, n)) /\ Cardinality(S(h, n)) \in Nat
  <2> TAKE h, n
  <2>1. S(h, n) \subseteq Relay BY Zenon
  <2> QED BY <2>1, RelayAssumption, FS_Subset, FS_CardinalityType, Zenon
<1>3. CASE held[r] = 0
  <2>1. S(more, 1) = S(held, 1) \cup {r} /\ r \notin S(held, 1) BY <1>1, <1>3
  <2>2. S(more, 2) = S(held, 2) BY <1>1, <1>3
  <2>3. Cardinality(S(more, 1)) = Cardinality(S(held, 1)) + 1
    <3>1. IsFiniteSet(S(held, 1)) BY <1>2, Zenon
    <3> HIDE DEF S
    <3> QED BY <2>1, <3>1, FS_AddElement, Zenon
  <2>4. Cardinality(S(more, 2)) = Cardinality(S(held, 2)) BY <2>2, Zenon
  <2>5. Cardinality(S(held, 1)) \in Nat /\ Cardinality(S(held, 2)) \in Nat BY <1>2, Zenon
  <2> HIDE DEF S
  <2>6. Cardinality(S(more, 1)) + Cardinality(S(more, 2)) = Cardinality(S(held, 1)) + Cardinality(S(held, 2)) + 1
    BY <2>3, <2>4, <2>5
  <2> QED BY <2>6, Zenon DEF more, S
<1>4. CASE held[r] = 1
  <2>1. S(more, 2) = S(held, 2) \cup {r} /\ r \notin S(held, 2) BY <1>1, <1>4
  <2>2. S(more, 1) = S(held, 1) BY <1>1, <1>4
  <2>3. Cardinality(S(more, 2)) = Cardinality(S(held, 2)) + 1
    <3>1. IsFiniteSet(S(held, 2)) BY <1>2, Zenon
    <3> HIDE DEF S
    <3> QED BY <2>1, <3>1, FS_AddElement, Zenon
  <2>4. Cardinality(S(more, 1)) = Cardinality(S(held, 1)) BY <2>2, Zenon
  <2>5. Cardinality(S(held, 1)) \in Nat /\ Cardinality(S(held, 2)) \in Nat BY <1>2, Zenon
  <2> HIDE DEF S
  <2>6. Cardinality(S(more, 1)) + Cardinality(S(more, 2)) = Cardinality(S(held, 1)) + Cardinality(S(held, 2)) + 1
    BY <2>3, <2>4, <2>5
  <2> QED BY <2>6, Zenon DEF more, S
<1> QED BY <1>1, <1>3, <1>4

\* A relay that still fills lacks a buffer it has a permit for.
LEMMA RoomForOneMore ==
    ASSUME BufferInv, NEW r \in Relay, relay[r] = "fill"
    PROVE  Cardinality(HoldingAtLeast(1)) + Cardinality(HoldingAtLeast(2)) + 1 <= MaxBuffers
<1> DEFINE H == BufferHolders(relay)
           h1 == HoldingAtLeast(1)
           h2 == HoldingAtLeast(2)
<1>1. /\ H \in SUBSET Relay /\ r \in H /\ relay \in [Relay -> Stages] /\ bufferHeld \in [Relay -> 0 .. 2]
      /\ HeldWithPermit(relay) /\ bufferFree \in Nat /\ bufferFree + Permits(H) = MaxBuffers
  BY Zenon DEF BufferInv, BufferHolders, Holding
<1>2. /\ IsFiniteSet(H) /\ IsFiniteSet(H \cap Bilateral)
      /\ Cardinality(H) \in Nat /\ Cardinality(H \cap Bilateral) \in Nat
  BY <1>1, PermitsCounted, Zenon
<1>3. h1 \subseteq H BY <1>1 DEF HeldWithPermit, HoldingAtLeast, BufferHolders
<1>4. h2 \subseteq H \cap Bilateral
  <2> SUFFICES ASSUME NEW o \in Relay, bufferHeld[o] >= 2 PROVE o \in H \cap Bilateral
    BY Zenon DEF HoldingAtLeast
  <2>1. bufferHeld[o] \in 0 .. 2 BY <1>1, Zenon
  <2> QED BY <1>1, <2>1 DEF HeldWithPermit, BufferHolders, Needed
<1>5. bufferHeld[r] < Needed(r) /\ bufferHeld[r] \in 0 .. 2 BY <1>1, Zenon DEF HeldWithPermit
<1>6. Cardinality(h1) <= Cardinality(H) /\ Cardinality(h2) <= Cardinality(H \cap Bilateral)
  BY <1>2, <1>3, <1>4, FS_Subset, Zenon
<1>7. Cardinality(h1) \in Nat /\ Cardinality(h2) \in Nat /\ IsFiniteSet(h1) /\ IsFiniteSet(h2)
  BY HoldingCounted, Zenon
<1>8. Cardinality(h1) # Cardinality(H) \/ Cardinality(h2) # Cardinality(H \cap Bilateral)
  <2>1. CASE bufferHeld[r] = 0
    <3>1. r \notin h1 BY <2>1 DEF HoldingAtLeast
    <3>2. h1 # H BY <1>1, <3>1, Zenon
    <3> QED BY <1>2, <1>3, <3>2, FS_Subset, Zenon
  <2>2. CASE bufferHeld[r] # 0
    <3>1. r \in Bilateral /\ bufferHeld[r] = 1 BY <1>5, <2>2 DEF Needed
    <3>2. r \notin h2 BY <3>1 DEF HoldingAtLeast
    <3>3. h2 # H \cap Bilateral BY <1>1, <3>1, <3>2, Zenon
    <3> QED BY <1>2, <1>4, <3>3, FS_Subset, Zenon
  <2> QED BY <2>1, <2>2, Zenon
<1>9. Permits(H) = Cardinality(H) + Cardinality(H \cap Bilateral) BY Zenon DEF Permits
<1> HIDE DEF H, h1, h2
<1>10. Cardinality(h1) + Cardinality(h2) + 1 <= Cardinality(H) + Cardinality(H \cap Bilateral)
  BY <1>2, <1>6, <1>7, <1>8
<1>11. Cardinality(h1) + Cardinality(h2) + 1 <= MaxBuffers
  BY <1>1, <1>2, <1>7, <1>9, <1>10, RelayAssumption
<1> QED BY <1>11, Zenon DEF h1, h2

\* A buffer is taken, or given back.
LEMMA BufferKeeps ==
    ASSUME BufferInv, NEW r \in Relay, TakeBuffer(r) \/ ReturnBuffer(r)
    PROVE  BufferInv'
<1> DEFINE count(h) == Cardinality({o \in Relay : h[o] >= 1}) + Cardinality({o \in Relay : h[o] >= 2})
<1>1. /\ relay \in [Relay -> Stages] /\ bufferHeld \in [Relay -> 0 .. 2] /\ HeldWithPermit(relay)
      /\ available \in Nat /\ MaxBuffers \in Nat
  BY RelayAssumption, Zenon DEF BufferInv
<1>2. /\ Cardinality(HoldingAtLeast(1)) + Cardinality(HoldingAtLeast(2)) = count(bufferHeld)
      /\ Cardinality(HoldingAtLeast(1)') + Cardinality(HoldingAtLeast(2)') = count(bufferHeld')
  BY Zenon DEF HoldingAtLeast
<1>3. /\ Cardinality(HoldingAtLeast(1)) \in Nat /\ Cardinality(HoldingAtLeast(2)) \in Nat
      /\ Cardinality(HoldingAtLeast(1)') \in Nat /\ Cardinality(HoldingAtLeast(2)') \in Nat
  BY HoldingCounted, Zenon
<1>4. available + count(bufferHeld) <= MaxBuffers BY <1>2, <1>3, <1>1, SMTT(20) DEF BufferInv
<1>5. count(bufferHeld) \in Nat /\ count(bufferHeld') \in Nat BY <1>2, <1>3
<1>6. CASE TakeBuffer(r)
  <2>1. /\ relay[r] = "fill" /\ available' = IF available > 0 THEN available - 1 ELSE 0
        /\ bufferHeld' = [bufferHeld EXCEPT ![r] = @ + 1]
        /\ relay' = [relay EXCEPT ![r] = IF bufferHeld[r] + 1 = Needed(r) THEN "copy" ELSE "fill"]
        /\ bufferFree' = bufferFree /\ bufferQueue' = bufferQueue
    BY <1>6, Zenon DEF TakeBuffer, GoTo
  <2>2. bufferHeld[r] < Needed(r) /\ bufferHeld[r] \in 0 .. 2 BY <1>1, <2>1, Zenon DEF HeldWithPermit
  <2>3. bufferHeld[r] < 2 BY <2>2 DEF Needed
  <2>4. count(bufferHeld') = count(bufferHeld) + 1 BY <1>1, <2>1, <2>3, OneMore
  <2>5. count(bufferHeld) + 1 <= MaxBuffers BY <1>2, <2>1, RoomForOneMore, Zenon
  <2> HIDE DEF count
  <2>6. available' \in Nat /\ available' + count(bufferHeld') <= MaxBuffers
    <3>1. CASE available > 0 BY <1>1, <1>4, <1>5, <2>1, <2>4, <3>1
    <3>2. CASE ~(available > 0) BY <1>1, <1>5, <2>1, <2>4, <2>5, <3>2
    <3> QED BY <3>1, <3>2, Zenon
  <2>7. available' + Cardinality(HoldingAtLeast(1)') + Cardinality(HoldingAtLeast(2)') <= MaxBuffers
    BY <1>2, <1>3, <2>6
  <2>8. /\ relay' \in [Relay -> Stages] /\ bufferHeld' \in [Relay -> 0 .. 2]
        /\ \A o \in Relay : /\ relay'[o] = "wait" <=> relay[o] = "wait"
                            /\ relay'[o] \in Holding <=> relay[o] \in Holding
    BY <1>1, <2>1, <2>2, <2>3 DEF Stages, Holding
  <2>9. HeldWithPermit(relay)'
    <3> SUFFICES ASSUME NEW o \in Relay
                 PROVE  /\ bufferHeld'[o] > 0 => relay'[o] \in Holding
                        /\ bufferHeld'[o] <= Needed(o)
                        /\ relay'[o] = "fill" => bufferHeld'[o] < Needed(o)
      BY Zenon DEF HeldWithPermit
    <3>1. CASE o = r BY <1>1, <2>1, <2>2, <3>1 DEF Holding, Needed
    <3>2. CASE o # r BY <1>1, <2>1, <3>2, Zenon DEF HeldWithPermit
    <3> QED BY <3>1, <3>2, Zenon
  <2> QED BY <2>1, <2>6, <2>7, <2>8, <2>9, HoldersStay, Zenon
<1>7. CASE ReturnBuffer(r)
  <2>1. /\ relay[r] = "drop" /\ bufferHeld[r] > 0
        /\ available' = IF available < MaxBuffers THEN available + 1 ELSE available
        /\ bufferHeld' = [bufferHeld EXCEPT ![r] = @ - 1]
        /\ relay' = relay /\ bufferFree' = bufferFree /\ bufferQueue' = bufferQueue
    BY <1>7, Zenon DEF ReturnBuffer
  <2>2. bufferHeld[r] \in 1 .. 2 BY <1>1, <2>1
  <2>3. /\ bufferHeld' \in [Relay -> 0 .. 2] /\ bufferHeld'[r] < 2
        /\ bufferHeld = [bufferHeld' EXCEPT ![r] = @ + 1]
    <3>1. bufferHeld' \in [Relay -> 0 .. 2] /\ bufferHeld'[r] = bufferHeld[r] - 1 BY <1>1, <2>1, <2>2
    <3>2. bufferHeld[r] - 1 < 2 /\ (bufferHeld[r] - 1) + 1 = bufferHeld[r] BY <2>2
    <3>3. \A o \in Relay \ {r} : bufferHeld'[o] = bufferHeld[o] BY <1>1, <2>1, Zenon
    <3>4. \A o \in Relay : [bufferHeld' EXCEPT ![r] = @ + 1][o] = bufferHeld[o] BY <3>1, <3>2, <3>3, Zenon
    <3> QED BY <1>1, <3>1, <3>2, <3>4, Zenon
  <2>4. count(bufferHeld) = count(bufferHeld') + 1 BY <2>3, OneMore, ZenonT(60)
  <2> HIDE DEF count
  <2>6. available' \in Nat /\ available' + count(bufferHeld') <= MaxBuffers
    <3>1. CASE available < MaxBuffers BY <1>1, <1>4, <1>5, <2>1, <2>4, <3>1
    <3>2. CASE ~(available < MaxBuffers) BY <1>1, <1>4, <1>5, <2>1, <2>4, <3>2
    <3> QED BY <3>1, <3>2, Zenon
  <2>7. available' + Cardinality(HoldingAtLeast(1)') + Cardinality(HoldingAtLeast(2)') <= MaxBuffers
    BY <1>2, <1>3, <2>6
  <2>9. HeldWithPermit(relay)'
    <3> SUFFICES ASSUME NEW o \in Relay
                 PROVE  /\ bufferHeld'[o] > 0 => relay[o] \in Holding
                        /\ bufferHeld'[o] <= Needed(o)
                        /\ relay[o] = "fill" => bufferHeld'[o] < Needed(o)
      BY <2>1, Zenon DEF HeldWithPermit
    <3>1. CASE o = r BY <1>1, <2>1, <2>2, <3>1 DEF Holding, Needed, HeldWithPermit
    <3>2. CASE o # r BY <1>1, <2>1, <3>2, Zenon DEF HeldWithPermit
    <3> QED BY <3>1, <3>2, Zenon
  <2> QED BY <1>1, <2>1, <2>3, <2>6, <2>7, <2>9, HoldersStay, Zenon
<1> QED BY <1>6, <1>7, Zenon

\* The other steps of a relay: nothing of the buffers changes.
LEMMA ElsewhereKeeps ==
    ASSUME BufferInv, NEW r \in Relay, UNCHANGED bufferVars,
           \/ UNCHANGED relay
           \/ \E s \in Stages \ (Holding \cup {"wait"}) :
                 relay[r] \notin Holding \cup {"wait"} /\ GoTo(r, s)
           \/ relay[r] \in {"fill", "copy"} /\ GoTo(r, "drop")
    PROVE  BufferInv'
<1>1. /\ relay \in [Relay -> Stages] /\ bufferHeld \in [Relay -> 0 .. 2] /\ HeldWithPermit(relay)
      /\ available \in Nat
      /\ available + Cardinality(HoldingAtLeast(1)) + Cardinality(HoldingAtLeast(2)) <= MaxBuffers
  BY Zenon DEF BufferInv
<1>2. /\ bufferQueue' = bufferQueue /\ bufferFree' = bufferFree /\ available' = available
      /\ bufferHeld' = bufferHeld
  BY Zenon DEF bufferVars
<1>3. HoldingAtLeast(1)' = HoldingAtLeast(1) /\ HoldingAtLeast(2)' = HoldingAtLeast(2)
  BY <1>2, Zenon DEF HoldingAtLeast
<1>4. available' + Cardinality(HoldingAtLeast(1)') + Cardinality(HoldingAtLeast(2)') <= MaxBuffers
  BY <1>1, <1>2, <1>3, Zenon
<1>5. /\ relay' \in [Relay -> Stages]
      /\ \A o \in Relay : /\ relay'[o] = "wait" <=> relay[o] = "wait"
                          /\ relay'[o] \in Holding <=> relay[o] \in Holding
                          /\ relay'[o] = "fill" => relay[o] = "fill"
  BY <1>1 DEF GoTo, Stages, Holding
<1>6. HeldWithPermit(relay)' BY <1>1, <1>2, <1>5, Zenon DEF HeldWithPermit
<1> QED BY <1>1, <1>2, <1>4, <1>5, <1>6, HoldersStay, Zenon

\* No relay holds a buffer at the start.
LEMMA BufferInitInv == RelayInit => BufferInv
<1> SUFFICES ASSUME RelayInit PROVE BufferInv BY Zenon
<1>1. /\ relay \in [Relay -> Stages] /\ \A r \in Relay : relay[r] = "idle"
      /\ bufferHeld \in [Relay -> 0 .. 2] /\ \A r \in Relay : bufferHeld[r] = 0
      /\ bufferQueue = <<>> /\ bufferFree = MaxBuffers /\ available = 0
  BY DEF RelayInit, Stages
<1>2. /\ bufferQueue \in Seq(Relay) /\ Distinct(bufferQueue) /\ Elements(bufferQueue) = {}
  BY <1>1 DEF Distinct, Elements
<1>3. Elements(bufferQueue) = {r \in Relay : relay[r] = "wait"} BY <1>1, <1>2, Zenon
<1>4. BufferHolders(relay) = {} /\ HoldingAtLeast(1) = {} /\ HoldingAtLeast(2) = {}
  BY <1>1 DEF BufferHolders, Holding, HoldingAtLeast
<1>5. Cardinality({}) = 0 /\ {} \cap Bilateral = {} BY FS_EmptySet, Zenon
<1>6. Permits(BufferHolders(relay)) = 0 BY <1>4, <1>5 DEF Permits
<1>7. HeldWithPermit(relay) BY <1>1 DEF HeldWithPermit, Needed
<1>8. bufferFree + Permits(BufferHolders(relay)) = MaxBuffers BY <1>1, <1>6, RelayAssumption
<1>9. available + Cardinality(HoldingAtLeast(1)) + Cardinality(HoldingAtLeast(2)) <= MaxBuffers
  <2>1. Cardinality(HoldingAtLeast(1)) = 0 /\ Cardinality(HoldingAtLeast(2)) = 0 BY <1>4, <1>5, Zenon
  <2> QED BY <1>1, <2>1, RelayAssumption
<1> QED BY <1>1, <1>2, <1>3, <1>7, <1>8, <1>9, RelayAssumption, Zenon DEF BufferInv

\* BufferInv is an invariant of the pools.
LEMMA BufferInvHolds == RelaySpec => []BufferInv
<1>1. BufferInv /\ [RelayNext]_relayVars => BufferInv'
  <2> SUFFICES ASSUME BufferInv, [RelayNext]_relayVars PROVE BufferInv' BY Zenon
  <2>1. CASE UNCHANGED relayVars
    <3>1. CASE Relay = {}
      <4>1. UNCHANGED <<relay, bufferVars>> BY <2>1, Zenon DEF relayVars, bufferVars
      <4> QED BY <4>1, Zenon DEF BufferInv, bufferVars, HeldWithPermit, BufferHolders, HoldingAtLeast
    <3>2. ASSUME NEW r \in Relay PROVE BufferInv'
      <4>1. UNCHANGED bufferVars /\ UNCHANGED relay BY <2>1, Zenon DEF relayVars, bufferVars
      <4> QED BY <4>1, ElsewhereKeeps, Zenon
    <3> QED BY <3>1, <3>2, Zenon
  <2>2. ASSUME NEW r \in Relay,
               \/ Start(r) \/ TakeIdle(r) \/ TakeNew(r) \/ TakeRefused(r) \/ SpliceIn(r)
               \/ SpliceOut(r) \/ PumpEnds(r) \/ CancelPump(r) \/ GiveBackPipe(r) \/ SpliceOver(r)
        PROVE  BufferInv'
    <3>1. UNCHANGED bufferVars
      BY <2>2, Zenon
           DEF Start, TakeIdle, TakeNew, TakeRefused, SpliceIn, SpliceOut, PumpEnds, CancelPump,
                  GiveBackPipe, SpliceOver
    <3>2. \/ UNCHANGED relay
          \/ \E s \in Stages \ (Holding \cup {"wait"}) :
                relay[r] \notin Holding \cup {"wait"} /\ GoTo(r, s)
      BY <2>2, Zenon DEF Start, TakeIdle, TakeNew, TakeRefused, SpliceIn, SpliceOut, PumpEnds, CancelPump,
                  GiveBackPipe, SpliceOver, Leases, Stages, Holding
    <3> QED BY <3>1, <3>2, ElsewhereKeeps, Zenon
  <2>3. ASSUME NEW r \in Relay, AllocationFails(r) \/ CopyEnds(r) PROVE BufferInv'
    <3>1. UNCHANGED bufferVars /\ relay[r] \in {"fill", "copy"} /\ GoTo(r, "drop")
      BY <2>3, Zenon DEF AllocationFails, CopyEnds
    <3> QED BY <3>1, ElsewhereKeeps, Zenon
  <2> QED BY <2>1, <2>2, <2>3, LineKeeps, BufferKeeps, Zenon DEF RelayNext
<1> QED BY <1>1, BufferInitInv, PTL DEF RelaySpec

\* Permits are conserved, no more buffers exist than the pool allows, and the
\* first in line waits only while too few permits are free for it.
THEOREM PermitsAreKept == RelaySpec => []BuffersFollowPermits
<1>1. BufferInv => BuffersFollowPermits
  <2> SUFFICES ASSUME BufferInv PROVE BuffersFollowPermits BY Zenon
  <2> DEFINE H == BufferHolders(relay)
  <2>1. H = {r \in Relay : relay[r] \in {"fill", "copy", "drop"}} BY Zenon DEF BufferHolders, Holding
  <2>2. Cardinality(H) \in Nat /\ Cardinality(H \cap Bilateral) \in Nat
    <3>1. H \in SUBSET Relay BY Zenon DEF BufferHolders
    <3> QED BY <3>1, PermitsCounted, Zenon
  <2> HIDE DEF H
  <2>3. bufferFree + Cardinality(H) + Cardinality(H \cap Bilateral) = MaxBuffers
    BY <2>2 DEF BufferInv, Permits, H
  <2> QED BY <2>1, <2>3, Zenon DEF BufferInv, BuffersFollowPermits, HoldingAtLeast
<1> QED BY <1>1, BufferInvHolds, PTL

-----------------------------------------------------------------------------
(* The dial-rate gate *)

\* The larger of two instants.
LEMMA MaxOfTwo ==
    ASSUME NEW x \in Int, NEW y \in Int
    PROVE  Max({x, y}) \in Int /\ Max({x, y}) >= x /\ Max({x, y}) >= y
<1>1. \E m \in {x, y} : \A z \in {x, y} : m >= z
  <2>1. CASE x >= y BY <2>1
  <2>2. CASE ~(x >= y) BY <2>2
  <2> QED BY <2>1, <2>2, Zenon
<1>2. Max({x, y}) \in {x, y} /\ \A z \in {x, y} : Max({x, y}) >= z BY <1>1, Zenon DEF Max
<1> QED BY <1>2, Zenon

\* Multiples of an interval grow with the factor.
LEMMA ProductGrows ==
    ASSUME NEW n \in Nat, NEW m \in Nat, NEW i \in Nat
    PROVE  /\ n * i \in Nat /\ (n + 1) * i = n * i + i /\ 0 * i = 0 /\ 1 * i = i
           /\ n <= m => n * i <= m * i
<1>1. n * i \in Nat OBVIOUS
<1>2. (n + 1) * i = n * i + i OBVIOUS
<1>3. ASSUME n <= m PROVE n * i <= m * i
  <2>1. m - n \in Nat BY <1>3
  <2>2. m * i = n * i + (m - n) * i BY <2>1
  <2>3. (m - n) * i \in Nat /\ m * i \in Nat BY <2>1
  <2> QED BY <1>1, <2>2, <2>3
<1> QED BY <1>1, <1>2, <1>3

\* A chain of bounds.
LEMMA AtMostChain ==
    ASSUME NEW a \in Int, NEW b \in Int, NEW c \in Int, NEW d \in Int, a <= b, b <= c, c <= d
    PROVE  a <= d
OBVIOUS

\* What was far enough ahead stays so when the schedule moves on.
LEMMA StillAhead ==
    ASSUME NEW c \in Nat, NEW a \in Nat, NEW x \in Nat, NEW y \in Nat, x <= y, c <= x - a
    PROVE  c <= y - a
OBVIOUS

\* The interval and the burst window of a rate are whole.
LEMMA TimingIsNat ==
    ASSUME NEW r \in Rate
    PROVE  IntervalOf(r) \in Nat /\ BurstOf(r) \in Nat
<1>1. r \in Nat /\ Second \in Nat \ {0} /\ MaxNanos \in Nat BY GateConstants, Zenon
<1>2. IntervalOf(r) \in Nat
  <2>1. CASE r = 0 BY <2>1, Zenon DEF IntervalOf
  <2>2. CASE r # 0
    <3>1. Second + r - 1 \in Nat /\ r \in Nat \ {0} BY <1>1, <2>2
    <3>2. (Second + r - 1) \div r \in Nat BY <3>1
    <3> QED BY <2>2, <3>2, Zenon DEF IntervalOf, DivCeil
  <2> QED BY <2>1, <2>2, Zenon
<1>3. IntervalOf(r) * r \in Nat BY <1>1, <1>2, ProductGrows, Zenon
<1> QED BY <1>1, <1>2, <1>3, Zenon DEF BurstOf, Saturating

Busy == {"burst", "next", "exchange"}
From(a) == {n \in Nat : n >= a}
Among(g, P) == {i \in DOMAIN g : g[i] \in P}
Since(a) == Among(grants, From(a))
Within(a, b) == Among(grants, a .. b)

\* A dial's locals are those of the stored setting unless it is stale.
LocalsCurrent ==
    \A t \in Dial :
        /\ place[t] \in Busy => step[t] # 0
        /\ place[t] \in Busy /\ t \notin stale => step[t] = interval
        /\ place[t] \in {"next", "exchange"} /\ t \notin stale /\ target = Idle
              => latest[t] <= at[t] + burst

\* Each admitted dial pushed the next free instant one interval ahead.
NextIsAhead ==
    \A a \in Nat : Cardinality(Since(a)) = 0 \/ Cardinality(Since(a)) * interval <= next - a

\* The inductive invariant of the gate.
GateInv ==
    /\ now \in Nat /\ interval \in Nat /\ burst \in Nat /\ next \in Nat /\ target \in Rate \cup {Idle}
    /\ place \in [Dial -> {"idle", "interval"} \cup Busy]
    /\ at \in [Dial -> Nat] /\ step \in [Dial -> Nat] /\ latest \in [Dial -> Nat]
    /\ nextSeen \in [Dial -> Nat] /\ grants \in Seq(Nat)
    /\ LocalsCurrent /\ NextIsAhead /\ RateHeld

\* The admissions in a window can be counted.
LEMMA GrantsCounted ==
    ASSUME NEW g \in Seq(Nat), NEW P
    PROVE  IsFiniteSet(Among(g, P)) /\ Cardinality(Among(g, P)) \in Nat
<1>1. DOMAIN g = 1 .. Len(g) /\ Len(g) \in Nat OBVIOUS
<1>2. IsFiniteSet(DOMAIN g) BY <1>1, FS_Interval
<1> QED BY <1>2, FS_Subset, FS_CardinalityType, Zenon DEF Among

\* One more admission counts in the windows that contain it.
LEMMA OneMoreGrant ==
    ASSUME NEW g \in Seq(Nat), NEW w \in Nat, NEW P
    PROVE  Cardinality(Among(Append(g, w), P))
              = IF w \in P THEN Cardinality(Among(g, P)) + 1 ELSE Cardinality(Among(g, P))
<1> DEFINE h == Append(g, w)
           G == Among(g, P)
           H == Among(h, P)
<1>1. /\ Len(g) \in Nat /\ DOMAIN g = 1 .. Len(g) /\ DOMAIN h = 1 .. Len(g) + 1
      /\ h[Len(g) + 1] = w /\ \A i \in 1 .. Len(g) : h[i] = g[i]
  OBVIOUS
<1>2. \A i \in 1 .. Len(g) + 1 : i = Len(g) + 1 \/ i \in 1 .. Len(g) BY <1>1
<1>3. \A i \in 1 .. Len(g) : i \in 1 .. Len(g) + 1 /\ i # Len(g) + 1 BY <1>1
<1>4. Len(g) + 1 \in 1 .. Len(g) + 1 BY <1>1
<1> HIDE DEF h
<1>5. CASE w \in P
  <2>1. H = G \cup {Len(g) + 1} /\ Len(g) + 1 \notin G BY <1>1, <1>2, <1>3, <1>4, <1>5 DEF Among
  <2>2. IsFiniteSet(G) BY GrantsCounted, Zenon
  <2> HIDE DEF G, H
  <2>3. Cardinality(H) = Cardinality(G) + 1 BY <2>1, <2>2, FS_AddElement, Zenon
  <2> QED BY <1>5, <2>3, Zenon DEF G, H, h
<1>6. CASE w \notin P
  <2>1. H = G BY <1>1, <1>2, <1>3, <1>4, <1>6 DEF Among
  <2> QED BY <1>6, <2>1, Zenon DEF G, H, h
<1> QED BY <1>5, <1>6, Zenon

\* A step that admits nobody and changes no setting.
LEMMA CountsStay ==
    ASSUME GateInv, grants' = grants, interval' = interval, next' \in Nat, next' >= next,
           target' = Idle => target = Idle /\ burst' = burst
    PROVE  NextIsAhead' /\ RateHeld'
<1>1. NextIsAhead'
  <2> SUFFICES ASSUME NEW a \in Nat
               PROVE  Cardinality(Since(a)') = 0 \/ Cardinality(Since(a)') * interval <= next' - a
    BY Zenon DEF NextIsAhead
  <2>1. Since(a)' = Since(a) BY Zenon DEF Since
  <2>2. Cardinality(Since(a)) \in Nat BY GrantsCounted, Zenon DEF GateInv, Since
  <2>3. Cardinality(Since(a)) * interval \in Nat BY <2>2, ProductGrows, Zenon DEF GateInv
  <2>4. Cardinality(Since(a)) = 0 \/ Cardinality(Since(a)) * interval <= next - a BY Zenon DEF GateInv, NextIsAhead
  <2> DEFINE c == Cardinality(Since(a)) * interval
  <2>5. c \in Nat /\ next \in Nat /\ (Cardinality(Since(a)) = 0 \/ c <= next - a) BY <2>3, <2>4, Zenon DEF GateInv
  <2> HIDE DEF c
  <2>6. Cardinality(Since(a)) = 0 \/ c <= next' - a BY <2>5, StillAhead, Zenon
  <2> QED BY <2>1, <2>6, Zenon DEF c
<1>2. RateHeld' BY Zenon DEF GateInv, RateHeld
<1> QED BY <1>1, <1>2, Zenon

\* A dial that admits nobody: its own locals change, and nothing of the gate.
LEMMA DialKeeps ==
    ASSUME GateInv, NEW t \in Dial,
           \/ SampleClock(t) \/ LoadInterval(t) \/ GateClosed(t) \/ LoadBurst(t) \/ LoadNext(t)
           \/ Refuse(t) \/ ExchangeFails(t)
    PROVE  GateInv'
<1>1. UNCHANGED <<now, gate, grants>>
  BY Zenon DEF SampleClock, LoadInterval, GateClosed, LoadBurst, LoadNext, Refuse, ExchangeFails
<1>2. /\ now' = now /\ interval' = interval /\ burst' = burst /\ next' = next /\ target' = target
      /\ grants' = grants
  BY <1>1, Zenon DEF gate
<1>3. /\ now \in Nat /\ interval \in Nat /\ burst \in Nat /\ next \in Nat /\ MaxNanos \in Nat
      /\ place \in [Dial -> {"idle", "interval"} \cup Busy]
      /\ at \in [Dial -> Nat] /\ step \in [Dial -> Nat] /\ latest \in [Dial -> Nat]
      /\ nextSeen \in [Dial -> Nat] /\ grants \in Seq(Nat) /\ target \in Rate \cup {Idle}
  BY GateConstants, Zenon DEF GateInv
<1>4. NextIsAhead' /\ RateHeld'
  <2>1. next' \in Nat /\ next' >= next BY <1>2, <1>3
  <2> QED BY <1>2, <2>1, CountsStay, Zenon
<1>5. /\ at' \in [Dial -> Nat] /\ step' \in [Dial -> Nat] /\ latest' \in [Dial -> Nat]
      /\ nextSeen' \in [Dial -> Nat] /\ place' \in [Dial -> {"idle", "interval"} \cup Busy]
  <2>1. CASE SampleClock(t) BY <1>3, <2>1, Zenon DEF SampleClock, GateGoto
  <2>2. CASE LoadInterval(t) BY <1>3, <2>2, Zenon DEF LoadInterval, GateGoto, Busy
  <2>3. CASE GateClosed(t) \/ Refuse(t)
    <3>1. GateReturn(t) BY <2>3, Zenon DEF GateClosed, Refuse
    <3> QED BY <1>3, <3>1, Zenon DEF GateReturn, GateGoto
  <2>4. CASE LoadBurst(t) BY <1>3, <2>4 DEF LoadBurst, GateGoto, Busy, Saturating
  <2>5. CASE LoadNext(t) BY <1>3, <2>5, Zenon DEF LoadNext, GateGoto, Busy
  <2>6. CASE ExchangeFails(t) BY <1>3, <2>6, Zenon DEF ExchangeFails
  <2> QED BY <2>1, <2>2, <2>3, <2>4, <2>5, <2>6, Zenon
<1>6. ASSUME NEW o \in Dial
      PROVE  /\ place'[o] \in Busy => step'[o] # 0
             /\ place'[o] \in Busy /\ o \notin stale' => step'[o] = interval
             /\ place'[o] \in {"next", "exchange"} /\ o \notin stale' /\ target = Idle
                   => latest'[o] <= at'[o] + burst
  <2>0. /\ place[o] \in Busy => step[o] # 0
        /\ place[o] \in Busy /\ o \notin stale => step[o] = interval
        /\ place[o] \in {"next", "exchange"} /\ o \notin stale /\ target = Idle
              => latest[o] <= at[o] + burst
    BY Zenon DEF GateInv, LocalsCurrent
  <2>1. CASE o # t
    <3>1. /\ place'[o] = place[o] /\ step'[o] = step[o] /\ latest'[o] = latest[o] /\ at'[o] = at[o]
          /\ o \notin stale' => o \notin stale
      BY <1>3, <2>1, Zenon
           DEF SampleClock, LoadInterval, GateClosed, LoadBurst, LoadNext, Refuse, ExchangeFails,
                        GateReturn, GateGoto
    <3> QED BY <2>0, <3>1, Zenon
  <2>2. CASE o = t /\ (SampleClock(t) \/ GateClosed(t) \/ Refuse(t))
    BY <1>3, <2>2, Zenon DEF SampleClock, GateClosed, Refuse, GateReturn, GateGoto, Busy
  <2>3. CASE o = t /\ LoadInterval(t) BY <1>3, <2>3, Zenon DEF LoadInterval, GateGoto, Busy
  <2>4. CASE o = t /\ LoadBurst(t)
    <3>1. /\ place[o] = "burst" /\ step' = step /\ stale' = stale /\ at' = at /\ place'[o] = "next"
          /\ latest'[o] = Saturating(at[o] + burst)
      BY <1>3, <2>4, Zenon DEF LoadBurst, GateGoto
    <3>2. Saturating(at[o] + burst) <= at[o] + burst
      <4>1. at[o] \in Nat BY <1>3, Zenon
      <4> QED BY <1>3, <4>1 DEF Saturating
    <3> QED BY <2>0, <3>1, <3>2, Zenon DEF Busy
  <2>5. CASE o = t /\ LoadNext(t)
    <3>1. /\ place[o] = "next" /\ step' = step /\ stale' = stale /\ at' = at /\ latest' = latest
      BY <2>5, Zenon DEF LoadNext
    <3> QED BY <2>0, <3>1, Zenon DEF Busy
  <2>6. CASE o = t /\ ExchangeFails(t)
    <3>1. step' = step /\ stale' = stale /\ at' = at /\ latest' = latest /\ place' = place
      BY <2>6, Zenon DEF ExchangeFails
    <3> QED BY <2>0, <3>1, Zenon
  <2> QED BY <2>1, <2>2, <2>3, <2>4, <2>5, <2>6, Zenon
<1>7. LocalsCurrent' BY <1>2, <1>6, Zenon DEF LocalsCurrent
<1> QED BY <1>2, <1>3, <1>4, <1>5, <1>7, Zenon DEF GateInv

\* set_rate, and the clock.
LEMMA SettingKeeps ==
    ASSUME GateInv, GateTick \/ (\E r \in Rate : StoreBurst(r)) \/ StoreInterval
    PROVE  GateInv'
<1>1. /\ now \in Nat /\ interval \in Nat /\ burst \in Nat /\ next \in Nat /\ MaxNanos \in Nat
      /\ place \in [Dial -> {"idle", "interval"} \cup Busy]
      /\ at \in [Dial -> Nat] /\ step \in [Dial -> Nat] /\ latest \in [Dial -> Nat]
      /\ nextSeen \in [Dial -> Nat] /\ grants \in Seq(Nat) /\ LocalsCurrent
      /\ target \in Rate \cup {Idle}
  BY GateConstants, Zenon DEF GateInv
<1>2. UNCHANGED <<next, locals>> BY Zenon DEF GateTick, StoreBurst, StoreInterval, gate
<1>3. /\ next' = next /\ place' = place /\ at' = at /\ step' = step /\ latest' = latest
      /\ nextSeen' = nextSeen
  BY <1>2, Zenon DEF locals
<1>4. CASE GateTick
  <2>1. /\ now' \in Nat /\ interval' = interval /\ burst' = burst /\ target' = target
        /\ grants' = grants /\ stale' = stale
    BY <1>1, <1>4 DEF GateTick, gate, Saturating
  <2>2. NextIsAhead' /\ RateHeld' BY <1>1, <1>3, <2>1, CountsStay
  <2>3. LocalsCurrent' BY <1>1, <1>3, <2>1, Zenon DEF LocalsCurrent
  <2> QED BY <1>1, <1>3, <2>1, <2>2, <2>3, Zenon DEF GateInv
<1>5. ASSUME NEW r \in Rate, StoreBurst(r) PROVE GateInv'
  <2>1. /\ now' = now /\ interval' = interval /\ burst' \in Nat /\ target' # Idle
        /\ grants' = grants /\ stale' = stale /\ target' \in Rate
    BY <1>5, TimingIsNat, GateConstants DEF StoreBurst, Idle
  <2>2. NextIsAhead' /\ RateHeld' BY <1>1, <1>3, <2>1, CountsStay
  <2>3. LocalsCurrent' BY <1>1, <1>3, <2>1, Zenon DEF LocalsCurrent
  <2> QED BY <1>1, <1>3, <2>1, <2>2, <2>3, Zenon DEF GateInv
<1>6. CASE StoreInterval
  <2>1. /\ now' = now /\ interval' \in Nat /\ burst' = burst /\ grants' = <<>>
        /\ stale' = {t \in Dial : place[t] \in Busy} /\ target' = Idle
    BY <1>1, <1>6, TimingIsNat, Zenon DEF StoreInterval, Busy
  <2>2. LocalsCurrent' BY <1>1, <1>3, <2>1, Zenon DEF LocalsCurrent, Busy
  <2>3. \A P : Among(grants', P) = {} BY <2>1 DEF Among
  <2>4. \A P : Cardinality(Among(grants', P)) = 0 BY <2>3, FS_EmptySet, Zenon
  <2>5. NextIsAhead' BY <2>4, Zenon DEF NextIsAhead, Since
  <2>6. RateHeld'
    <3> SUFFICES ASSUME NEW a \in 0 .. MaxNanos, NEW b \in 0 .. MaxNanos, a <= b
                 PROVE  LET n == Cardinality(Among(grants', a .. b))
                        IN  n = 0 /\ n * interval' <= b - a + burst'
      BY Zenon DEF RateHeld, Among
    <3>1. Cardinality(Among(grants', a .. b)) = 0 BY <2>4, Zenon
    <3>2. 0 * interval' = 0 BY <2>1, ProductGrows, Zenon
    <3>3. 0 <= b - a + burst' BY <1>1, <2>1
    <3> QED BY <3>1, <3>2, <3>3, Zenon
  <2>7. grants' \in Seq(Nat) BY <2>1
  <2> QED BY <1>1, <1>3, <2>1, <2>2, <2>5, <2>6, <2>7, Zenon DEF GateInv
<1> QED BY <1>4, <1>5, <1>6, Zenon

\* A dial is admitted: the next free instant moves ahead of every window that
\* starts before it, and no further than the burst.
LEMMA ExchangeKeeps ==
    ASSUME GateInv, NEW t \in Dial, Exchange(t)
    PROVE  GateInv'
<1>1. /\ now \in Nat /\ interval \in Nat /\ burst \in Nat /\ next \in Nat /\ MaxNanos \in Nat
      /\ place \in [Dial -> {"idle", "interval"} \cup Busy]
      /\ at \in [Dial -> Nat] /\ step \in [Dial -> Nat] /\ latest \in [Dial -> Nat]
      /\ nextSeen \in [Dial -> Nat] /\ grants \in Seq(Nat) /\ LocalsCurrent
      /\ target \in Rate \cup {Idle}
  BY GateConstants, Zenon DEF GateInv
<1>2. PICK w \in Nat : w = at[t] BY <1>1, Zenon
<1>3. PICK k \in Nat : k = step[t] BY <1>1, Zenon
<1>4. PICK s \in Int : s = Slot(t) /\ s >= next + k /\ s >= w + k
  <2>1. next = nextSeen[t] BY Zenon DEF Exchange
  <2>2. Max({next, w}) \in Int /\ Max({next, w}) >= next /\ Max({next, w}) >= w
    <3>1. next \in Int /\ w \in Int BY <1>1, <1>2
    <3> QED BY <3>1, MaxOfTwo, Zenon
  <2>3. Slot(t) = Max({next, w}) + k BY <1>2, <1>3, <2>1, Zenon DEF Slot
  <2> QED BY <1>1, <2>2, <2>3
<1>5. s <= MaxNanos /\ s <= latest[t] BY <1>4, Zenon DEF Exchange, Conforms
<1>6. next' = s BY <1>1, <1>4, <1>5 DEF Exchange, Saturating
<1>7. s \in Nat /\ s >= next BY <1>1, <1>3, <1>4
<1>8. GateReturn(t) /\ place[t] = "exchange" BY Zenon DEF Exchange
<1>9. /\ now' = now /\ interval' = interval /\ burst' = burst /\ target' = target
  BY Zenon DEF Exchange
<1>10. /\ at' \in [Dial -> Nat] /\ step' \in [Dial -> Nat] /\ latest' \in [Dial -> Nat]
       /\ nextSeen' \in [Dial -> Nat] /\ place' \in [Dial -> {"idle", "interval"} \cup Busy]
  BY <1>1, <1>8, Zenon DEF GateReturn, GateGoto
<1>11. LocalsCurrent'
  <2> SUFFICES ASSUME NEW o \in Dial
      PROVE  /\ place'[o] \in Busy => step'[o] # 0
             /\ place'[o] \in Busy /\ o \notin stale' => step'[o] = interval
             /\ place'[o] \in {"next", "exchange"} /\ o \notin stale' /\ target = Idle
                   => latest'[o] <= at'[o] + burst
    BY <1>9, ZenonT(30) DEF LocalsCurrent
  <2>1. CASE o # t
    <3>1. /\ place'[o] = place[o] /\ step'[o] = step[o] /\ latest'[o] = latest[o] /\ at'[o] = at[o]
          /\ o \notin stale' => o \notin stale
      BY <1>1, <1>8, <2>1, Zenon DEF GateReturn, GateGoto
    <3> QED BY <1>1, <3>1, Zenon DEF LocalsCurrent
  <2>2. CASE o = t BY <1>1, <1>8, <2>2, Zenon DEF GateReturn, GateGoto, Busy
  <2> QED BY <2>1, <2>2, Zenon
<1>12. CASE t \in stale
  <2>1. grants' = grants BY <1>12, Zenon DEF Exchange
  <2>2. NextIsAhead' /\ RateHeld' BY <1>6, <1>7, <1>9, <2>1, CountsStay, Zenon
  <2> QED BY <1>1, <1>6, <1>7, <1>9, <1>10, <1>11, <2>1, <2>2, Zenon DEF GateInv
<1>13. CASE t \notin stale
  <2>1. grants' = Append(grants, w) BY <1>2, <1>13, Zenon DEF Exchange
  <2>2. k = interval /\ interval # 0 BY <1>1, <1>3, <1>8, <1>13, Zenon DEF LocalsCurrent, Busy
  <2>3. target = Idle => s <= w + burst
    <3>1. latest[t] \in Nat BY <1>1, Zenon
    <3>2. target = Idle => latest[t] <= w + burst BY <1>1, <1>2, <1>8, <1>13, Zenon DEF LocalsCurrent
    <3> QED BY <1>1, <1>5, <1>7, <3>1, <3>2
  <2>4. grants' \in Seq(Nat) BY <1>1, <2>1
  <2>5. ASSUME NEW a \in Nat
        PROVE  Cardinality(Since(a)') = 0 \/ Cardinality(Since(a)') * interval <= s - a
    <3>1. PICK n \in Nat : n = Cardinality(Since(a)) BY <1>1, GrantsCounted, Zenon DEF Since
    <3>2. n * interval \in Nat /\ (n + 1) * interval = n * interval + interval
          /\ 0 * interval = 0
      BY <1>1, ProductGrows, Zenon
    <3>3. n = 0 \/ n * interval <= next - a BY <3>1, Zenon DEF GateInv, NextIsAhead
    <3>4. Cardinality(Since(a)') = IF w \in From(a) THEN n + 1 ELSE n
      <4>1. Cardinality(Among(Append(grants, w), From(a)))
               = IF w \in From(a) THEN Cardinality(Among(grants, From(a))) + 1 ELSE Cardinality(Among(grants, From(a)))
        BY <1>1, OneMoreGrant
      <4> QED BY <2>1, <3>1, <4>1, Zenon DEF Since
    <3>5. CASE w \in From(a)
      <4>1. w >= a BY <3>5, Zenon DEF From
      <4>2. (n + 1) * interval <= s - a
        <5>1. CASE n = 0
          <6>1. (n + 1) * interval = interval BY <1>1, <3>2, <5>1
          <6> QED BY <1>1, <1>4, <2>2, <4>1, <6>1
        <5>2. CASE n * interval <= next - a BY <1>1, <1>4, <2>2, <3>2, <5>2
        <5> QED BY <3>3, <5>1, <5>2, Zenon
      <4> QED BY <3>4, <3>5, <4>2, Zenon
    <3>6. CASE w \notin From(a)
      <4>1. n = 0 \/ n * interval <= s - a BY <1>1, <1>7, <3>2, <3>3, StillAhead, Zenon
      <4> QED BY <3>4, <3>6, <4>1, Zenon
    <3> QED BY <3>5, <3>6, Zenon
  <2>6. NextIsAhead' BY <1>6, <1>9, <2>5, Zenon DEF NextIsAhead
  <2>7. RateHeld'
    <3> SUFFICES ASSUME NEW a \in 0 .. MaxNanos, NEW b \in 0 .. MaxNanos, a <= b, target = Idle
                 PROVE  Cardinality(Within(a, b)') * interval <= b - a + burst
      BY <1>9, <2>2, Zenon DEF RateHeld, Within, Among
    <3>0. a \in Nat /\ b \in Nat BY <1>1
    <3>1. PICK n \in Nat : n = Cardinality(Within(a, b)) BY <1>1, GrantsCounted, Zenon DEF Within
    <3>2. Cardinality(Within(a, b)') = IF w \in a .. b THEN n + 1 ELSE n
      <4>1. Cardinality(Among(Append(grants, w), a .. b))
               = IF w \in a .. b THEN Cardinality(Among(grants, a .. b)) + 1 ELSE Cardinality(Among(grants, a .. b))
        BY <1>1, OneMoreGrant
      <4> QED BY <2>1, <3>1, <4>1, Zenon DEF Within
    <3>3. CASE w \in a .. b
      <4>1. PICK m \in Nat : m = Cardinality(Since(a)') BY <2>4, GrantsCounted, Zenon DEF Since
      <4>2. Within(a, b)' \subseteq Since(a)'
        <5>1. \A x \in a .. b : x \in From(a) BY <3>0 DEF From
        <5> QED BY <5>1, Zenon DEF Within, Since, Among
      <4>3. IsFiniteSet(Since(a)') BY <2>4, GrantsCounted, Zenon DEF Since
      <4>4. Cardinality(Within(a, b)') <= m BY <4>1, <4>2, <4>3, FS_Subset, Zenon
      <4>5. n + 1 <= m BY <3>2, <3>3, <4>4, Zenon
      <4>6. (n + 1) * interval <= m * interval /\ (n + 1) * interval \in Nat /\ m * interval \in Nat
        BY <1>1, <4>5, ProductGrows
      <4>7. m * interval <= s - a BY <2>5, <3>0, <4>1, <4>5
      <4>8. s - a <= b - a + burst BY <1>1, <1>7, <2>3, <3>0, <3>3
      <4>9. (n + 1) * interval <= b - a + burst
        <5>1. s - a \in Int /\ b - a + burst \in Int BY <1>1, <1>7, <3>0
        <5> QED BY <4>6, <4>7, <4>8, <5>1, AtMostChain
      <4> QED BY <3>2, <3>3, <4>9, Zenon
    <3>4. CASE w \notin a .. b
      <4>1. n * interval <= b - a + burst BY <2>2, <3>1, Zenon DEF GateInv, RateHeld, Within, Among
      <4> QED BY <3>2, <3>4, <4>1, Zenon
    <3> QED BY <3>3, <3>4, Zenon
  <2> QED BY <1>1, <1>6, <1>7, <1>9, <1>10, <1>11, <2>4, <2>6, <2>7, Zenon DEF GateInv
<1> QED BY <1>12, <1>13, Zenon

\* GateInv is an invariant of the gate.
LEMMA GateInvHolds == GateSpec => []GateInv
<1>1. GateInit => GateInv
  <2> SUFFICES ASSUME GateInit PROVE GateInv BY Zenon
  <2>1. /\ now = 0 /\ next = 0 /\ target = Idle /\ grants = <<>> /\ interval \in Nat /\ burst \in Nat
        /\ place = [t \in Dial |-> "idle"] /\ at = [t \in Dial |-> 0] /\ step = [t \in Dial |-> 0]
        /\ latest = [t \in Dial |-> 0] /\ nextSeen = [t \in Dial |-> 0]
    BY TimingIsNat, Zenon DEF GateInit
  <2>2. LocalsCurrent BY <2>1, Zenon DEF LocalsCurrent, Busy
  <2>3. \A P : Among(grants, P) = {} BY <2>1 DEF Among
  <2>4. \A P : Cardinality(Among(grants, P)) = 0 BY <2>3, FS_EmptySet, Zenon
  <2>5. NextIsAhead BY <2>4, Zenon DEF NextIsAhead, Since
  <2>6. RateHeld
    <3> SUFFICES ASSUME NEW a \in 0 .. MaxNanos, NEW b \in 0 .. MaxNanos, a <= b
                 PROVE  LET n == Cardinality(Among(grants, a .. b))
                        IN  n = 0 /\ n * interval <= b - a + burst
      BY Zenon DEF RateHeld, Among
    <3>1. Cardinality(Among(grants, a .. b)) = 0 BY <2>4, Zenon
    <3>2. 0 * interval = 0 BY <2>1, ProductGrows, Zenon
    <3>3. 0 <= b - a + burst BY <2>1, GateConstants
    <3> QED BY <3>1, <3>2, <3>3, Zenon
  <2>7. grants \in Seq(Nat) BY <2>1
  <2> QED BY <2>1, <2>2, <2>5, <2>6, <2>7, Zenon DEF GateInv
<1>2. GateInv /\ [GateNext]_gateVars => GateInv'
  <2> SUFFICES ASSUME GateInv, [GateNext]_gateVars PROVE GateInv' BY Zenon
  <2>1. CASE UNCHANGED gateVars
    <3>1. /\ now' = now /\ interval' = interval /\ burst' = burst /\ next' = next /\ target' = target
          /\ place' = place /\ at' = at /\ step' = step /\ latest' = latest /\ nextSeen' = nextSeen
          /\ stale' = stale /\ grants' = grants
      BY <2>1, Zenon DEF gateVars, gate, locals
    <3>2. NextIsAhead' /\ RateHeld'
      <4>1. next' \in Nat /\ next' >= next BY <3>1 DEF GateInv
      <4> QED BY <3>1, <4>1, CountsStay, Zenon
    <3>3. LocalsCurrent' BY <3>1, Zenon DEF GateInv, LocalsCurrent
    <3> QED BY <3>1, <3>2, <3>3, Zenon DEF GateInv
  <2> QED BY <2>1, SettingKeeps, DialKeeps, ExchangeKeeps, Zenon DEF GateNext
<1> QED BY <1>1, <1>2, PTL DEF GateSpec

\* In no window of time are more dials admitted than the rate and its burst
\* allow.
THEOREM GateHoldsTheRate == GateSpec => []RateHeld
<1>1. GateInv => RateHeld BY Zenon DEF GateInv
<1> QED BY <1>1, GateInvHolds, PTL
=============================================================================
