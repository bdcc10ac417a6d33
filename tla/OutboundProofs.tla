--------------------------- MODULE OutboundProofs ---------------------------
(***************************************************************************)
(* Proofs about the way out: the warm pools for any pools, callers and     *)
(* policy, name resolution for any requests and names, and the client's    *)
(* race for any sessions and lines.  In WarmPool the invariant ties a      *)
(* landing socket to the lock its controller holds and the lifecycle to    *)
(* the progress of deactivate.                                             *)
(***************************************************************************)
EXTENDS WarmPool, DnsFlight, ClientRace, TLAPS

-----------------------------------------------------------------------------
(* Warm pools *)

\* The controller's control points.
Labels == {"unborn", "start", "adjust", "due", "head", "reconcile", "register", "recheck", "select",
           "landed", "failed", "push", "drop", "exit", "clear", "done"}

\* What the proofs need of the types.
PoolTypes ==
    /\ ready \in [Pool -> Nat] /\ target \in [Pool -> Nat]
    /\ misses \in [Pool -> Nat] /\ cooldown \in [Pool -> BOOLEAN]
    /\ lifecycle \in [Pool -> {"created", "active", "stopped"}]
    /\ retire \in [Pool -> {"no", "swapped", "cleared", "returned"}]
    /\ pc \in [Pool -> Labels]
    /\ shed \subseteq Pool

\* Types of the locals the other facts do not read.
LocalTypes == dials \in [Pool -> Nat] /\ cpool \in [Caller -> Pool]

\* deactivate begins by stopping the pool.
RetireStops == \A p \in Pool : retire[p] # "no" => lifecycle[p] = "stopped"

\* A socket about to be pushed is admitted under the lock, before
\* deactivate's clear.
PushIsLocked ==
    \A p \in Pool : pc[p] = "push" =>
        p \in holder /\ ready[p] < target[p] /\ retire[p] \in {"no", "swapped"}

\* A shed pool's cooldown is still ahead.
ShedCools == \A p \in shed : cooldown[p]

WarmInv == /\ PoolTypes /\ RetireStops /\ PushIsLocked /\ ShedCools
           /\ StoppedPoolIsEmpty /\ ReadyWithinTarget

-----------------------------------------------------------------------------

\* Min of two numbers is one of them and bounds both.
LEMMA MinPair == ASSUME NEW a \in Int, NEW b \in Int
                 PROVE  Min({a, b}) \in {a, b} /\ Min({a, b}) <= a /\ Min({a, b}) <= b
<1> DEFINE m == IF a <= b THEN a ELSE b
<1>1. m \in {a, b} /\ \A y \in {a, b} : m <= y  OBVIOUS
<1>2. \E x \in {a, b} : \A y \in {a, b} : x <= y  BY <1>1, Zenon
<1>3. Min({a, b}) \in {a, b} /\ \A y \in {a, b} : Min({a, b}) <= y  BY <1>2, Zenon DEF Min
<1> QED  BY <1>3, Zenon

\* Max of two numbers is one of them.
LEMMA MaxPair == ASSUME NEW a \in Int, NEW b \in Int PROVE Max({a, b}) \in {a, b}
<1> DEFINE m == IF a >= b THEN a ELSE b
<1>1. m \in {a, b} /\ \A y \in {a, b} : m >= y  OBVIOUS
<1>2. \E x \in {a, b} : \A y \in {a, b} : x >= y  BY <1>1, Zenon
<1> QED  BY <1>2, Zenon DEF Max

\* Max of three numbers is one of them and no less than the third.
LEMMA MaxTriple == ASSUME NEW a \in Int, NEW b \in Int, NEW c \in Int
                   PROVE  Max({a, b, c}) \in {a, b, c} /\ Max({a, b, c}) >= c
<1> DEFINE ab == IF a >= b THEN a ELSE b
           m == IF ab >= c THEN ab ELSE c
<1>1. m \in {a, b, c} /\ \A y \in {a, b, c} : m >= y  OBVIOUS
<1>2. \E x \in {a, b, c} : \A y \in {a, b, c} : x >= y  BY <1>1, Zenon
<1>3. Max({a, b, c}) \in {a, b, c} /\ \A y \in {a, b, c} : Max({a, b, c}) >= y  BY <1>2, Zenon DEF Max
<1> QED  BY <1>3, Zenon

\* The targets of an adjustment are naturals.
LEMMA TargetsAreNat == ASSUME WarmConstants, NEW p \in Pool, target[p] \in Nat, misses[p] \in Nat
                       PROVE  NextTargets(p) \subseteq Nat
<1> DEFINE growth == Max({Min({misses[p], RefillBatch}), Max({target[p] \div 2, 1})})
           floor == IF misses[p] > 0 THEN Max({MinReady, target[p] + growth}) ELSE MinReady
           shrunk(d) == Max({target[p] - RefillBatch, d, MinReady})
<1>0. MinReady \in Nat /\ MaxReady \in Nat /\ RefillBatch \in Nat  BY Zenon DEF WarmConstants
<1>1. growth \in Nat
  <2>0. misses[p] \in Int /\ RefillBatch \in Int  BY <1>0
  <2>5. Min({misses[p], RefillBatch}) \in {misses[p], RefillBatch}  BY <2>0, MinPair, Zenon
  <2>1. Min({misses[p], RefillBatch}) \in Nat  BY <1>0, <2>5, Zenon
  <2>2. target[p] \div 2 \in Nat  OBVIOUS
  <2>3. Max({target[p] \div 2, 1}) \in Nat  BY <2>2, MaxPair
  <2> HIDE DEF growth
  <2>4. Max({Min({misses[p], RefillBatch}), Max({target[p] \div 2, 1})}) \in Nat
    BY <2>1, <2>3, MaxPair
  <2> QED  BY <2>4, Zenon DEF growth
<1> HIDE DEF growth
<1>2. floor \in Nat
  <2>1. target[p] + growth \in Nat  BY <1>1
  <2>2. Max({MinReady, target[p] + growth}) \in Nat  BY <1>0, <2>1, MaxPair
  <2> QED  BY <1>0, <2>2, Zenon
<1> HIDE DEF floor
<1>3. Min({floor, MaxReady}) \in Nat  BY <1>0, <1>2, MinPair
<1>4. ASSUME NEW d \in Nat PROVE shrunk(d) \in Nat
  <2>1. /\ Max({target[p] - RefillBatch, d, MinReady}) \in {target[p] - RefillBatch, d, MinReady}
        /\ Max({target[p] - RefillBatch, d, MinReady}) >= MinReady
    <3>1. target[p] - RefillBatch \in Int /\ d \in Int /\ MinReady \in Int  BY <1>0
    <3> QED  BY <3>1, MaxTriple, Zenon
  <2> QED  BY <1>0, <2>1
<1> HIDE DEF shrunk
<1>5. \A d \in Min({floor, MaxReady})..MaxReady : d \in Nat  BY <1>0, <1>3
<1>6. NextTargets(p) = UNION {IF d > target[p] THEN {d}
                              ELSE IF d < target[p] THEN {target[p], shrunk(d)}
                              ELSE {target[p]} : d \in Min({floor, MaxReady})..MaxReady}
  BY Zenon DEF NextTargets, shrunk, floor, growth
<1>7. ASSUME NEW d \in Min({floor, MaxReady})..MaxReady,
             NEW x \in IF d > target[p] THEN {d}
                       ELSE IF d < target[p] THEN {target[p], shrunk(d)} ELSE {target[p]}
      PROVE  x \in Nat
  <2>1. d \in Nat  BY <1>5, Zenon
  <2>2. shrunk(d) \in Nat  BY <1>4, <2>1, Zenon
  <2> QED  BY <2>1, <2>2, Zenon
<1> QED  BY <1>6, <1>7, Zenon

-----------------------------------------------------------------------------

\* What a growth does to the dials: one lands, all are dropped, or reconcile
\* adds some to a pool that is not cooling down.
LEMMA DialsStep ==
    ASSUME WarmConstants, LocalTypes, [WarmNext]_vars
    PROVE  \/ dials' = dials
           \/ \E p \in Pool : dials[p] > 0 /\ dials' = [dials EXCEPT ![p] = @ - 1]
           \/ \E p \in Pool : dials' = [dials EXCEPT ![p] = 0]
           \/ \E p \in Pool, n \in Nat : /\ dials' = [dials EXCEPT ![p] = @ + n]
                                         /\ cooldown[p] => n = 0
<1> USE DEF state, notify, controller, callers, authority, pressure
<1>1. CASE UNCHANGED vars  BY <1>1, Zenon DEF vars
<1>2. CASE PressureMoves  BY <1>2, Zenon DEF PressureMoves
<1>3. ASSUME NEW c \in Caller, Checkout(c) PROVE dials' = dials
  BY <1>3, Zenon DEF Checkout, CheckoutStart, CheckoutPop, CheckoutStale, CheckoutHit, CheckoutMiss, UseDone
<1>4. ASSUME NEW p \in Pool, Activate(p) \/ Deactivate(p) \/ OnMaintenance(p) \/ BackoffEnds(p) \/ CooldownEnds(p)
      PROVE  dials' = dials
  BY <1>4, Zenon DEF Activate, Deactivate, DeactivateSwap, DeactivateClear, DeactivateNotify, OnMaintenance,
              BackoffEnds, CooldownEnds
<1>5. ASSUME NEW p \in Pool, OnDial(p) PROVE dials[p] > 0 /\ dials' = [dials EXCEPT ![p] = @ - 1]
  BY <1>5, Zenon DEF OnDial
<1>6. ASSUME NEW p \in Pool, OnPressure(p) PROVE dials' = dials \/ dials' = [dials EXCEPT ![p] = 0]
  BY <1>6, Zenon DEF OnPressure
<1>7. ASSUME NEW p \in Pool, Reconcile(p)
      PROVE  \E n \in Nat : dials' = [dials EXCEPT ![p] = @ + n] /\ (cooldown[p] => n = 0)
  <2>1. PICK n \in 0..RefillBatch : n = Refill(p) /\ dials' = [dials EXCEPT ![p] = @ + n]
    BY <1>7, Zenon DEF Reconcile
  <2>2. RefillBatch \in Nat  BY Zenon DEF WarmConstants
  <2>3. n \in Nat  BY <2>1, <2>2
  <2>4. cooldown[p] => n = 0  BY <2>1, Zenon DEF Refill
  <2> QED  BY <2>1, <2>3, <2>4, Zenon
<1>8. ASSUME NEW p \in Pool, Exit(p) PROVE dials' = [dials EXCEPT ![p] = 0]
  BY <1>8, Zenon DEF Exit
<1>9. ASSUME NEW p \in Pool, Runs(p), ~Reconcile(p), ~Exit(p) PROVE dials' = dials
  BY <1>9, Zenon DEF Runs, ControllerStart, Adjust, AdjustIfDue, Head, Register, Recheck, OnNotified, Landed,
              Push, Drop, Failed, ExitClear
<1> QED  BY <1>1, <1>2, <1>3, <1>4, <1>5, <1>6, <1>7, <1>8, <1>9, Zenon DEF WarmNext

\* The locals keep their types.
LEMMA LocalsStep == ASSUME WarmConstants, LocalTypes, [WarmNext]_vars PROVE LocalTypes'
<1>1. dials' \in [Pool -> Nat]  BY DialsStep DEF LocalTypes
<1>2. cpool' \in [Caller -> Pool]
  <2> USE DEF LocalTypes, state, notify, controller, callers, authority, pressure
  <2>1. CASE UNCHANGED vars  BY <2>1, Zenon DEF vars
  <2>2. CASE PressureMoves  BY <2>2, Zenon DEF PressureMoves
  <2>3. ASSUME NEW c \in Caller, Checkout(c) PROVE cpool' \in [Caller -> Pool]
    BY <2>3, Zenon DEF Checkout, CheckoutStart, CheckoutPop, CheckoutStale, CheckoutHit, CheckoutMiss, UseDone
  <2>4. ASSUME NEW p \in Pool,
               Activate(p) \/ Deactivate(p) \/ OnDial(p) \/ OnPressure(p) \/ OnMaintenance(p)
               \/ BackoffEnds(p) \/ CooldownEnds(p)
        PROVE  cpool' = cpool
    BY <2>4, Zenon DEF Activate, Deactivate, DeactivateSwap, DeactivateClear, DeactivateNotify, OnDial,
                OnPressure, OnMaintenance, BackoffEnds, CooldownEnds
  <2>5. ASSUME NEW p \in Pool, Runs(p) PROVE cpool' = cpool
    BY <2>5, Zenon
         DEF Runs, ControllerStart, Adjust, AdjustIfDue, Head, Reconcile, Register, Recheck,
                OnNotified, Landed, Push, Drop, Failed, Exit, ExitClear
  <2> QED  BY <2>1, <2>2, <2>3, <2>4, <2>5, Zenon DEF WarmNext
<1> QED  BY <1>1, <1>2, Zenon DEF LocalTypes

-----------------------------------------------------------------------------

\* The first state satisfies the invariant.
LEMMA InitInv == ASSUME WarmConstants, WarmInit PROVE WarmInv
<1>0. MinReady \in Nat  BY Zenon DEF WarmConstants
<1>1. PoolTypes
  <2>1. ready \in [Pool -> Nat] /\ target \in [Pool -> Nat] /\ misses \in [Pool -> Nat]
    BY <1>0, Zenon DEF WarmInit
  <2>2. cooldown \in [Pool -> BOOLEAN]  BY Zenon DEF WarmInit
  <2>3. /\ lifecycle \in [Pool -> {"created", "active", "stopped"}]
        /\ retire \in [Pool -> {"no", "swapped", "cleared", "returned"}]
        /\ pc \in [Pool -> Labels]
    BY Zenon DEF WarmInit, Labels
  <2>4. shed \subseteq Pool  BY Zenon DEF WarmInit
  <2> QED  BY <2>1, <2>2, <2>3, <2>4, Zenon DEF PoolTypes
<1>2. ReadyWithinTarget  BY <1>0 DEF WarmInit, ReadyWithinTarget
<1>3. RetireStops /\ PushIsLocked /\ ShedCools /\ StoppedPoolIsEmpty
  BY Zenon DEF WarmInit, RetireStops, PushIsLocked, ShedCools, StoppedPoolIsEmpty
<1> QED  BY <1>1, <1>2, <1>3, Zenon DEF WarmInv

\* A step that leaves what the invariant reads alone, but for control points
\* other than "push", keeps it.
LEMMA QuietStep ==
    ASSUME WarmInv, NEW p \in Pool, NEW l \in Labels, l # "push",
           UNCHANGED <<lifecycle, ready, target, misses, cooldown, retire, shed>>,
           holder' = holder \/ (holder' = holder \ {p} /\ pc'[p] # "push"),
           pc' = pc \/ pc' = [pc EXCEPT ![p] = l]
    PROVE  WarmInv'
  BY DEF WarmInv, PoolTypes, RetireStops, PushIsLocked, ShedCools, StoppedPoolIsEmpty,
         ReadyWithinTarget

\* Taking sockets out of a pool whose lock is free keeps it.
LEMMA RemoveStep ==
    ASSUME WarmInv, NEW p \in Pool, p \notin holder, NEW n \in Nat, n <= ready[p],
           NEW l \in Labels, l # "push",
           ready' = [ready EXCEPT ![p] = n],
           UNCHANGED <<lifecycle, target, misses, cooldown, retire, shed, holder>>,
           pc' = pc \/ pc' = [pc EXCEPT ![p] = l]
    PROVE  WarmInv'
<1> USE DEF WarmInv
<1>0. ready[p] \in Nat /\ target[p] \in Nat  BY Zenon DEF PoolTypes
<1>1. PoolTypes'  BY DEF PoolTypes
<1>2. RetireStops' /\ ShedCools'  BY Zenon DEF RetireStops, ShedCools
<1>3. PushIsLocked'  BY ZenonT(60) DEF PushIsLocked, PoolTypes
<1>4. StoppedPoolIsEmpty'  BY <1>0 DEF StoppedPoolIsEmpty, PoolTypes
<1>5. ReadyWithinTarget'
  <2>1. ready[p] <= target[p]  BY Zenon DEF ReadyWithinTarget
  <2>2. n <= target[p]  BY ONLY <1>0, <2>1, n \in Nat, n <= ready[p]
  <2> QED  BY <2>2, Zenon DEF ReadyWithinTarget, PoolTypes
<1> QED  BY <1>1, <1>2, <1>3, <1>4, <1>5, Zenon

\* prune_and_adjust keeps it.
LEMMA PruneStep ==
    ASSUME WarmConstants, WarmInv, NEW p \in Pool, PruneAndAdjust(p), pc[p] # "push",
           UNCHANGED <<lifecycle, holder, retire>>, pc' = [pc EXCEPT ![p] = "head"]
    PROVE  WarmInv'
<1> USE DEF WarmInv
<1>1. PICK t \in NextTargets(p) : target' = [target EXCEPT ![p] = t]  BY Zenon DEF PruneAndAdjust
<1>2. t \in Nat
  <2>1. target[p] \in Nat /\ misses[p] \in Nat  BY Zenon DEF PoolTypes
  <2> QED  BY <1>1, <2>1, TargetsAreNat, Zenon
<1>3. target' \in [Pool -> Nat] /\ target'[p] = t
  BY <1>1, <1>2, Zenon DEF PoolTypes
<1>4. PICK n \in Nat : n <= ready[p] /\ n <= t /\ ready' = [ready EXCEPT ![p] = n]
  <2>1. CASE fd \/ mem
    <3>1. ready' = [ready EXCEPT ![p] = 0]  BY <2>1, Zenon DEF PruneAndAdjust
    <3>2. ready[p] \in Nat  BY Zenon DEF PoolTypes
    <3>3. 0 \in Nat /\ 0 <= ready[p] /\ 0 <= t  BY <1>2, <3>2
    <3> QED  BY ONLY <3>1, <3>3, Zenon
  <2>2. CASE ~(fd \/ mem)
    <3>1. PICK k \in 0..ready[p] : k <= target'[p] /\ ready' = [ready EXCEPT ![p] = k]
      BY <2>2, Zenon DEF PruneAndAdjust
    <3>2. ready[p] \in Nat  BY Zenon DEF PoolTypes
    <3>3. k \in Nat /\ k <= ready[p] /\ k <= t  BY <1>3, <3>1, <3>2
    <3> QED  BY ONLY <3>1, <3>3, Zenon
  <2> QED  BY <2>1, <2>2, Zenon
<1>5. ready' \in [Pool -> Nat] /\ ready'[p] = n /\ \A q \in Pool : q # p => ready'[q] = ready[q]
  BY <1>4, Zenon DEF PoolTypes
<1>6. \/ UNCHANGED <<cooldown, shed>>
      \/ cooldown' = [cooldown EXCEPT ![p] = TRUE] /\ shed' = shed \cup {p}
  BY Zenon DEF PruneAndAdjust, DeferPressureRefill
<1>7. misses' = [misses EXCEPT ![p] = 0] /\ p \notin holder  BY Zenon DEF PruneAndAdjust
<1>8. PoolTypes'
  <2>1. misses' \in [Pool -> Nat]  BY <1>7, Zenon DEF PoolTypes
  <2>2. cooldown' \in [Pool -> BOOLEAN]
    <3>1. cooldown \in [Pool -> BOOLEAN]  BY Zenon DEF PoolTypes
    <3> QED  BY ONLY <1>6, <3>1, Zenon
  <2>3. shed' \subseteq Pool  BY <1>6, Zenon DEF PoolTypes
  <2>4. pc' \in [Pool -> Labels]  BY Zenon DEF PoolTypes, Labels
  <2> QED  BY <1>3, <1>5, <2>1, <2>2, <2>3, <2>4, Zenon DEF PoolTypes
<1>9. RetireStops' /\ ShedCools'  BY <1>6 DEF RetireStops, ShedCools, PoolTypes
<1>10. \A q \in Pool : q # p => target'[q] = target[q]  BY <1>1, Zenon DEF PoolTypes
<1>11. PushIsLocked'  BY <1>5, <1>10, Zenon DEF PushIsLocked, PoolTypes
<1>12. StoppedPoolIsEmpty'
  <2>1. ready[p] \in Nat  BY Zenon DEF PoolTypes
  <2> QED  BY <1>4, <1>5, <2>1 DEF StoppedPoolIsEmpty
<1>13. ReadyWithinTarget'  BY <1>3, <1>4, <1>5, <1>10, Zenon DEF ReadyWithinTarget
<1> QED  BY <1>8, <1>9, <1>11, <1>12, <1>13, Zenon

\* The controller's steps keep it.
LEMMA RunsStep == ASSUME WarmConstants, WarmInv, NEW p \in Pool, Runs(p) PROVE WarmInv'
<1> USE DEF Goto, state, notify, controller, callers, authority, pressure
<1>1. CASE ControllerStart(p)  BY <1>1, QuietStep, Zenon DEF ControllerStart, Labels
<1>2. CASE Adjust(p)  BY <1>2, PruneStep, Zenon DEF Adjust
<1>3. CASE AdjustIfDue(p)
  <2>1. CASE PruneAndAdjust(p)  BY <1>3, <2>1, PruneStep, Zenon DEF AdjustIfDue
  <2>2. CASE UNCHANGED <<state, authority, shed>>
    BY <1>3, <2>2, QuietStep, Zenon DEF AdjustIfDue, Labels
  <2> QED  BY <1>3, <2>1, <2>2, Zenon DEF AdjustIfDue
<1>4. CASE Head(p)
  <2>1. PICK l \in {"exit", "register", "reconcile"} : pc' = [pc EXCEPT ![p] = l]
    BY <1>4, Zenon DEF Head
  <2> QED  BY <1>4, <2>1, QuietStep, Zenon DEF Head, Labels
<1>5. CASE Reconcile(p)  BY <1>5, QuietStep, Zenon DEF Reconcile, Labels
<1>6. CASE Register(p)  BY <1>6, QuietStep, Zenon DEF Register, Labels
<1>7. CASE Recheck(p)
  <2>1. PICK l \in {"exit", "select"} : pc' = [pc EXCEPT ![p] = l]
    BY <1>7, Zenon DEF Recheck
  <2> QED  BY <1>7, <2>1, QuietStep, Zenon DEF Recheck, Labels
<1>8. CASE OnNotified(p)  BY <1>8, QuietStep, Zenon DEF OnNotified, Labels
<1>9. CASE Landed(p)
  <2> USE DEF WarmInv
  <2>1. pc' = [pc EXCEPT ![p] = IF Admissible(p) THEN "push" ELSE "drop"] /\ holder' = holder \cup {p}
    BY <1>9, Zenon DEF Landed
  <2>2. UNCHANGED <<lifecycle, ready, target, misses, cooldown, retire, shed>>  BY <1>9, Zenon DEF Landed
  <2>3. Admissible(p) => ready[p] < target[p] /\ retire[p] = "no"
    BY Zenon DEF Admissible, Active, RetireStops, PoolTypes
  <2>4. PoolTypes'  BY <2>1, <2>2, Zenon DEF PoolTypes, Labels
  <2>5. PushIsLocked'  BY <2>1, <2>2, <2>3, Zenon DEF PushIsLocked, PoolTypes
  <2>6. RetireStops' /\ ShedCools' /\ StoppedPoolIsEmpty' /\ ReadyWithinTarget'
    BY <2>2, Zenon DEF RetireStops, ShedCools, StoppedPoolIsEmpty, ReadyWithinTarget
  <2> QED  BY <2>4, <2>5, <2>6, Zenon
<1>10. CASE Push(p)
  <2> USE DEF WarmInv
  <2>1. pc' = [pc EXCEPT ![p] = "due"] /\ holder' = holder \ {p} /\ pc[p] = "push"
    BY <1>10, Zenon DEF Push
  <2>2. UNCHANGED <<lifecycle, target, misses, cooldown, retire, shed>>  BY <1>10, Zenon DEF Push
  <2>3. CASE ready' = ready  BY <2>1, <2>2, <2>3, QuietStep, ZenonT(60) DEF Labels, PoolTypes
  <2>4. CASE ready' = [ready EXCEPT ![p] = @ + 1]
    <3>1. ready[p] \in Nat /\ target[p] \in Nat /\ ready[p] < target[p]
      BY <2>1, Zenon DEF PoolTypes, PushIsLocked
    <3>2. ready' \in [Pool -> Nat] /\ ready'[p] = ready[p] + 1
          /\ \A q \in Pool : q # p => ready'[q] = ready[q]
      BY <2>4, <3>1 DEF PoolTypes
    <3>3. retire[p] \in {"no", "swapped"}  BY <2>1, Zenon DEF PushIsLocked
    <3>4. PoolTypes'  BY <2>1, <2>2, <3>2, Zenon DEF PoolTypes, Labels
    <3>5. PushIsLocked'  BY <2>1, <2>2, <3>2, Zenon DEF PushIsLocked, PoolTypes
    <3>6. StoppedPoolIsEmpty'  BY <2>2, <3>2, <3>3, Zenon DEF StoppedPoolIsEmpty
    <3>7. ready'[p] <= target[p]  BY ONLY <3>1, <3>2
    <3>8. ReadyWithinTarget'  BY <2>2, <3>2, <3>7, Zenon DEF ReadyWithinTarget
    <3>9. RetireStops' /\ ShedCools'  BY <2>2, Zenon DEF RetireStops, ShedCools
    <3> QED  BY <3>4, <3>5, <3>6, <3>8, <3>9, Zenon
  <2> QED  BY <1>10, <2>3, <2>4, Zenon DEF Push
<1>11. CASE Drop(p)
  <2> USE DEF WarmInv
  <2>1. pc' = [pc EXCEPT ![p] = "due"] /\ holder' = holder \ {p} /\ pc[p] = "drop"
    BY <1>11, Zenon DEF Drop
  <2>2. UNCHANGED <<lifecycle, ready, target, misses, retire>>  BY <1>11, Zenon DEF Drop
  <2>3. CASE UNCHANGED <<cooldown, shed>>  BY <2>1, <2>2, <2>3, QuietStep, ZenonT(60)
       DEF Labels, PoolTypes
  <2>4. CASE cooldown' = [cooldown EXCEPT ![p] = TRUE] /\ shed' = shed \cup {p}
    <3>1. cooldown' \in [Pool -> BOOLEAN]
      <4>1. cooldown \in [Pool -> BOOLEAN]  BY Zenon DEF PoolTypes
      <4> QED  BY ONLY <2>4, <4>1, Zenon
    <3>2. PoolTypes'  BY <2>1, <2>2, <2>4, <3>1, Zenon DEF PoolTypes, Labels
    <3>3. ShedCools'  BY <2>4, Zenon DEF ShedCools, PoolTypes
    <3>4. PushIsLocked'  BY <2>1, <2>2, Zenon DEF PushIsLocked, PoolTypes
    <3>5. RetireStops' /\ StoppedPoolIsEmpty' /\ ReadyWithinTarget'
      BY <2>2, Zenon DEF RetireStops, StoppedPoolIsEmpty, ReadyWithinTarget
    <3> QED  BY <3>2, <3>3, <3>4, <3>5, Zenon
  <2> QED  BY <1>11, <2>3, <2>4, Zenon DEF Drop, DeferPressureRefill
<1>12. CASE Failed(p)  BY <1>12, QuietStep, Zenon DEF Failed, Labels
<1>13. CASE Exit(p)  BY <1>13, QuietStep, Zenon DEF Exit, Labels
<1>14. CASE ExitClear(p)
  <2>1. 0 \in Nat /\ 0 <= ready[p]  BY DEF WarmInv, PoolTypes
  <2> QED  BY <1>14, <2>1, RemoveStep, Zenon DEF ExitClear, Labels
<1> QED  BY <1>1, <1>2, <1>3, <1>4, <1>5, <1>6, <1>7, <1>8, <1>9, <1>10, <1>11, <1>12, <1>13, <1>14, Zenon
         DEF Runs

\* The pressure branch defers the refill and drops the dials.
LEMMA PressureStep == ASSUME WarmInv, NEW p \in Pool, OnPressure(p) PROVE WarmInv'
<1> USE DEF WarmInv, state, notify, callers, authority, pressure
<1>1. UNCHANGED <<lifecycle, ready, target, misses, holder, retire>>
      /\ pc' = [pc EXCEPT ![p] = "adjust"]
  BY Zenon DEF OnPressure, Goto
<1>2. CASE UNCHANGED <<cooldown, shed>>  BY <1>1, <1>2, QuietStep, Zenon DEF Labels
<1>3. CASE cooldown' = [cooldown EXCEPT ![p] = TRUE] /\ shed' = shed \cup {p}
  <2>1. cooldown' \in [Pool -> BOOLEAN]
    <3>1. cooldown \in [Pool -> BOOLEAN]  BY Zenon DEF PoolTypes
    <3> QED  BY ONLY <1>3, <3>1, Zenon
  <2>2. PoolTypes'  BY <1>1, <1>3, <2>1, Zenon DEF PoolTypes, Labels
  <2>3. ShedCools'  BY <1>3, Zenon DEF ShedCools, PoolTypes
  <2>4. PushIsLocked'  BY <1>1, Zenon DEF PushIsLocked, PoolTypes
  <2>5. RetireStops' /\ StoppedPoolIsEmpty' /\ ReadyWithinTarget'
    BY <1>1, Zenon DEF RetireStops, StoppedPoolIsEmpty, ReadyWithinTarget
  <2> QED  BY <2>2, <2>3, <2>4, <2>5, Zenon
<1> QED  BY <1>2, <1>3, Zenon DEF OnPressure, DeferPressureRefill

\* activate, deactivate and the end of a cooldown keep it.
LEMMA LifecycleStep ==
    ASSUME WarmInv, NEW p \in Pool, Activate(p) \/ Deactivate(p) \/ CooldownEnds(p)
    PROVE  WarmInv'
<1> USE DEF WarmInv, state, notify, controller, callers, authority, pressure
<1>1. CASE Activate(p)
  <2>1. /\ UNCHANGED <<ready, target, misses, cooldown, holder, retire, shed>>
        /\ lifecycle[p] = "created" /\ lifecycle' = [lifecycle EXCEPT ![p] = "active"]
        /\ pc' = [pc EXCEPT ![p] = "start"]
    BY <1>1, Zenon DEF Activate, Goto
  <2>2. PoolTypes'  BY <2>1, Zenon DEF PoolTypes, Labels
  <2>3. RetireStops'  BY <2>1, Zenon DEF RetireStops, PoolTypes
  <2>4. PushIsLocked'  BY <2>1, Zenon DEF PushIsLocked, PoolTypes
  <2>5. ShedCools' /\ StoppedPoolIsEmpty' /\ ReadyWithinTarget'
    BY <2>1, Zenon DEF ShedCools, StoppedPoolIsEmpty, ReadyWithinTarget
  <2> QED  BY <2>2, <2>3, <2>4, <2>5, Zenon
<1>2. CASE DeactivateSwap(p)
  <2>1. /\ UNCHANGED <<ready, target, misses, cooldown, holder, shed, pc>>
        /\ lifecycle' = [lifecycle EXCEPT ![p] = "stopped"]
        /\ retire' = [retire EXCEPT ![p] = "swapped"]
    BY <1>2, Zenon DEF DeactivateSwap
  <2>2. PoolTypes'  BY <2>1, Zenon DEF PoolTypes
  <2>3. RetireStops'  BY <2>1, Zenon DEF RetireStops, PoolTypes
  <2>4. PushIsLocked'  BY <2>1, Zenon DEF PushIsLocked, PoolTypes
  <2>5. ShedCools' /\ StoppedPoolIsEmpty' /\ ReadyWithinTarget'
    BY <2>1, Zenon DEF ShedCools, StoppedPoolIsEmpty, ReadyWithinTarget, PoolTypes
  <2> QED  BY <2>2, <2>3, <2>4, <2>5, Zenon
<1>3. CASE DeactivateClear(p)
  <2>1. /\ UNCHANGED <<lifecycle, target, misses, cooldown, holder, shed, pc>>
        /\ p \notin holder /\ retire[p] = "swapped"
        /\ ready' = [ready EXCEPT ![p] = 0]
        /\ retire' = [retire EXCEPT ![p] = "cleared"]
    BY <1>3, Zenon DEF DeactivateClear
  <2>2. PoolTypes'  BY <2>1, Zenon DEF PoolTypes
  <2>3. RetireStops'  BY <2>1, Zenon DEF RetireStops, PoolTypes
  <2>4. PushIsLocked'  BY <2>1, Zenon DEF PushIsLocked, PoolTypes
  <2>5. StoppedPoolIsEmpty'  BY <2>1, Zenon DEF StoppedPoolIsEmpty, PoolTypes
  <2>6. ShedCools'  BY <2>1, Zenon DEF ShedCools
  <2>7. ReadyWithinTarget'  BY <2>1 DEF ReadyWithinTarget, PoolTypes
  <2> QED  BY <2>2, <2>3, <2>4, <2>5, <2>6, <2>7, Zenon
<1>4. CASE DeactivateNotify(p)
  <2>1. /\ UNCHANGED <<lifecycle, ready, target, misses, cooldown, holder, shed, pc>>
        /\ retire[p] = "cleared" /\ retire' = [retire EXCEPT ![p] = "returned"]
    BY <1>4, Zenon DEF DeactivateNotify
  <2>2. PoolTypes'  BY <2>1, Zenon DEF PoolTypes
  <2>3. RetireStops' /\ PushIsLocked'  BY <2>1, Zenon DEF RetireStops, PushIsLocked, PoolTypes
  <2>4. ShedCools' /\ ReadyWithinTarget'  BY <2>1, Zenon DEF ShedCools, ReadyWithinTarget
  <2>5. StoppedPoolIsEmpty'  BY <2>1, Zenon DEF StoppedPoolIsEmpty, PoolTypes
  <2> QED  BY <2>2, <2>3, <2>4, <2>5, Zenon
<1>5. CASE CooldownEnds(p)
  <2>1. /\ UNCHANGED <<lifecycle, ready, target, misses, holder, retire, pc>>
        /\ cooldown' = [cooldown EXCEPT ![p] = FALSE] /\ shed' = shed \ {p}
    BY <1>5, Zenon DEF CooldownEnds
  <2>2. cooldown' \in [Pool -> BOOLEAN]
    <3>1. cooldown \in [Pool -> BOOLEAN]  BY Zenon DEF PoolTypes
    <3> QED  BY ONLY <2>1, <3>1, Zenon
  <2>3. PoolTypes'  BY <2>1, <2>2, Zenon DEF PoolTypes
  <2>4. ShedCools'  BY <2>1, Zenon DEF ShedCools, PoolTypes
  <2>5. RetireStops' /\ PushIsLocked' /\ StoppedPoolIsEmpty' /\ ReadyWithinTarget'
    BY <2>1, Zenon DEF RetireStops, PushIsLocked, StoppedPoolIsEmpty, ReadyWithinTarget
  <2> QED  BY <2>3, <2>4, <2>5, Zenon
<1> QED  BY <1>1, <1>2, <1>3, <1>4, <1>5, Zenon DEF Deactivate

\* A caller's steps keep it.
LEMMA CheckoutStep ==
    ASSUME WarmConstants, WarmInv, LocalTypes, NEW c \in Caller, Checkout(c) PROVE WarmInv'
<1> USE DEF state, notify, controller, callers, authority, pressure
<1>0. cpool[c] \in Pool  BY Zenon DEF LocalTypes
<1>1. CASE CheckoutStart(c) \/ CheckoutStale(c) \/ CheckoutHit(c) \/ UseDone(c)
  <2>1. UNCHANGED <<lifecycle, ready, target, misses, cooldown, retire, shed, holder, pc>>
    BY <1>1, Zenon DEF CheckoutStart, CheckoutStale, CheckoutHit, UseDone
  <2> QED  BY <1>0, <2>1, QuietStep, Zenon DEF Labels
<1>2. CASE CheckoutPop(c)
  <2>1. /\ cpool[c] \notin holder
        /\ UNCHANGED <<lifecycle, target, misses, cooldown, retire, shed, holder, pc>>
    BY <1>2, Zenon DEF CheckoutPop
  <2>2. CASE ready' = ready  BY <1>0, <2>1, <2>2, QuietStep, Zenon DEF Labels
  <2>3. CASE ready[cpool[c]] # 0 /\ ready' = [ready EXCEPT ![cpool[c]] = @ - 1]
    <3>1. ready[cpool[c]] \in Nat  BY <1>0, Zenon DEF WarmInv, PoolTypes
    <3>2. ready[cpool[c]] - 1 \in Nat /\ ready[cpool[c]] - 1 <= ready[cpool[c]]  BY <2>3, <3>1
    <3> QED  BY <1>0, <2>1, <2>3, <3>2, RemoveStep, Zenon DEF Labels
  <2> QED  BY <1>2, <2>2, <2>3, Zenon DEF CheckoutPop
<1>3. CASE CheckoutMiss(c)
  <2> USE DEF WarmInv
  <2>1. UNCHANGED <<lifecycle, ready, target, cooldown, retire, shed, holder, pc>>
    BY <1>3 DEF CheckoutMiss
  <2>2. misses' \in [Pool -> Nat]
    <3> DEFINE q == cpool[c]
               batch == Max({RefillBatch, 1})
               following == misses[q] + 1
    <3>1. misses' = [misses EXCEPT ![q] = Min({following, batch})]  BY <1>3, Zenon DEF CheckoutMiss
    <3>2. RefillBatch \in Nat /\ misses \in [Pool -> Nat] /\ misses[q] \in Nat
      BY <1>0, Zenon DEF WarmConstants, PoolTypes
    <3>3. batch \in Nat
      <4>1. Max({RefillBatch, 1}) \in {RefillBatch, 1}  BY <3>2, MaxPair
      <4> QED  BY <3>2, <4>1
    <3> HIDE DEF batch
    <3>4. following \in Nat  BY <3>2
    <3> HIDE DEF following
    <3>5. Min({following, batch}) \in {following, batch}  BY <3>3, <3>4, MinPair
    <3>6. Min({following, batch}) \in Nat  BY <3>3, <3>4, <3>5, Zenon
    <3> QED  BY ONLY <3>1, <3>2, <3>6, Zenon
  <2>3. PoolTypes'  BY <2>1, <2>2, Zenon DEF PoolTypes
  <2>4. RetireStops' /\ PushIsLocked' /\ ShedCools' /\ StoppedPoolIsEmpty' /\ ReadyWithinTarget'
    BY <2>1, Zenon
         DEF RetireStops, PushIsLocked, ShedCools, StoppedPoolIsEmpty, ReadyWithinTarget
  <2> QED  BY <2>3, <2>4, Zenon
<1> QED  BY <1>1, <1>2, <1>3, Zenon DEF Checkout

\* Every step keeps the invariant.
LEMMA NextInv ==
    ASSUME WarmConstants, WarmInv, LocalTypes, [WarmNext]_vars PROVE WarmInv'
<1> USE DEF state, notify, controller, callers, authority, pressure
<1>1. CASE UNCHANGED vars
  BY <1>1, Zenon DEF vars, WarmInv, PoolTypes, RetireStops, PushIsLocked, ShedCools, StoppedPoolIsEmpty,
              ReadyWithinTarget
<1>2. CASE PressureMoves
  BY <1>2, Zenon DEF PressureMoves, WarmInv, PoolTypes, RetireStops, PushIsLocked, ShedCools,
              StoppedPoolIsEmpty, ReadyWithinTarget
<1>3. ASSUME NEW p \in Pool, BackoffEnds(p) PROVE WarmInv'
  BY <1>3, QuietStep DEF BackoffEnds, Labels
<1>4. ASSUME NEW p \in Pool, OnMaintenance(p) PROVE WarmInv'
  BY <1>4, QuietStep, Zenon DEF OnMaintenance, Goto, Labels
<1>5. ASSUME NEW p \in Pool, OnDial(p) PROVE WarmInv'
  <2>1. PICK l \in {"landed", "failed"} : pc' = [pc EXCEPT ![p] = l]  BY <1>5 DEF OnDial, Goto
  <2> QED  BY <1>5, <2>1, QuietStep, Zenon DEF OnDial, Labels
<1> QED  BY <1>1, <1>2, <1>3, <1>4, <1>5, RunsStep, PressureStep, LifecycleStep, CheckoutStep, Zenon
         DEF WarmNext

\* The invariant holds in every reachable state.
LEMMA InvHolds == WarmSafety => [](WarmInv /\ LocalTypes)
<1>1. WarmInit => WarmInv /\ LocalTypes
  <2>1. WarmInit => LocalTypes  BY DEF WarmInit, LocalTypes
  <2> QED  BY <2>1, InitInv, WarmConstants, Zenon
<1>2. WarmInv /\ LocalTypes /\ [WarmNext]_vars => (WarmInv /\ LocalTypes)'
  BY NextInv, LocalsStep, WarmConstants, Zenon
<1> QED  BY <1>1, <1>2, PTL DEF WarmSafety

\* A pool whose deactivate has cleared it never holds a ready socket again,
\* for any number of pools and callers and any policy.
THEOREM StoppedPoolsAreEmpty == WarmSafety => []StoppedPoolIsEmpty
<1>1. WarmInv => StoppedPoolIsEmpty  BY Zenon DEF WarmInv
<1> QED  BY <1>1, InvHolds, PTL

\* A pool never holds more ready sockets than its target.
THEOREM ReadyIsBounded == WarmSafety => []ReadyWithinTarget
<1>1. WarmInv => ReadyWithinTarget  BY Zenon DEF WarmInv
<1> QED  BY <1>1, InvHolds, PTL

\* No dial starts during the cooldown of a pressure shed.
THEOREM CooldownsHold == WarmSafety => CooldownHolds
<1>1. ASSUME WarmInv, LocalTypes, [WarmNext]_vars
      PROVE  [\A p \in Pool : p \in shed => dials'[p] <= dials[p]]_vars
  <2> SUFFICES ASSUME NEW p \in Pool, p \in shed PROVE dials'[p] <= dials[p]
    BY Zenon
  <2>1. cooldown[p] /\ dials \in [Pool -> Nat]  BY <1>1, Zenon DEF WarmInv, ShedCools, LocalTypes
  <2> QED  BY <1>1, <2>1, DialsStep, WarmConstants
<1> QED  BY <1>1, InvHolds, PTL DEF CooldownHolds, WarmSafety

-----------------------------------------------------------------------------
(* Name resolution *)

\* The inductive invariant.  A flight and its slot point at each other from the
\* claim to the publication, so the slot a request joins has not sent yet, and
\* a request leads at most once.
DnsInv ==
    /\ DnsTypeOK
    /\ FlightOwnsSlot
    /\ SubscribersHear
    /\ \A n \in Name : slot[n] \in Request =>
          name[slot[n]] = n /\ flight[slot[n]] \in {"lookup", "resolved"}
    /\ \A r \in Request : ask[r] = "new" => flight[r] = "none"
    /\ \A r \in Request : ask[r] = "waiting" => joined[r] \in Request

\* No request has come in, and the table is empty.
LEMMA DnsInitInv == DnsInit => DnsInv
BY DnsAssumption
   DEF DnsInit, DnsInv, DnsTypeOK, FlightOwnsSlot, SubscribersHear, Cached, Nobody

\* What eviction leaves: an entry goes only if it is a cached answer, never if
\* a lookup is in flight for it.
LEMMA EvictionSparesFlights ==
    ASSUME DnsTypeOK, NEW table \in {slot} \cup Evicted(slot)
    PROVE  /\ table \in [Name -> Cached \cup Request]
           /\ \A n \in Name : \/ table[n] = slot[n]
                              \/ slot[n] \in {"cached", "expired"} /\ table[n] = "none"
<1> DEFINE fresh == [n \in Name |-> IF slot[n] = "expired" THEN "none" ELSE slot[n]]
<1>1. table = slot \/ table = fresh \/ \E v \in Victims(fresh) : table = [fresh EXCEPT ![v] = "none"]
  BY Zenon DEF Evicted
<1>2. fresh \in [Name -> Cached \cup Request] BY Zenon DEF DnsTypeOK, Cached
<1>3. CASE table = slot BY <1>3, Zenon DEF DnsTypeOK
<1>4. CASE table = fresh BY <1>2, <1>4, Zenon
<1>5. ASSUME NEW v \in Victims(fresh), table = [fresh EXCEPT ![v] = "none"]
      PROVE  /\ table \in [Name -> Cached \cup Request]
             /\ \A n \in Name : \/ table[n] = slot[n]
                                \/ slot[n] \in {"cached", "expired"} /\ table[n] = "none"
  BY <1>2, <1>5, Zenon DEF Victims, Cached
<1> QED BY <1>1, <1>3, <1>4, <1>5, Zenon

\* What a request does besides leading a lookup.
LEMMA DnsRequestKeeps ==
    ASSUME DnsInv, NEW r \in Request,
           Hit(r) \/ DropExpired(r) \/ Join(r) \/ Denied(r) \/ Receive(r) \/ GiveUp(r)
    PROVE  DnsInv'
<1> USE DnsAssumption DEF DnsInv, DnsTypeOK, FlightOwnsSlot, SubscribersHear, Resolved
<1>1. CASE Hit(r) BY <1>1 DEF Hit
<1>2. CASE DropExpired(r) BY <1>2 DEF DropExpired, Cached
<1>3. CASE Join(r) BY <1>3 DEF Join
<1>4. CASE Denied(r) BY <1>4 DEF Denied
<1>5. CASE Receive(r) BY <1>5 DEF Receive
<1>6. CASE GiveUp(r) BY <1>6 DEF GiveUp
<1> QED BY <1>1, <1>2, <1>3, <1>4, <1>5, <1>6, Zenon

\* A request that leads takes the empty slot of its own name.
LEMMA DnsLeadKeeps ==
    ASSUME DnsInv, NEW r \in Request, Lead(r)
    PROVE  DnsInv'
<1>1. PICK table \in {slot} \cup Evicted(slot) : slot' = [table EXCEPT ![name[r]] = r]
  BY Zenon DEF Lead
<1>2. /\ table \in [Name -> Cached \cup Request]
      /\ \A n \in Name : \/ table[n] = slot[n]
                         \/ slot[n] \in {"cached", "expired"} /\ table[n] = "none"
  BY EvictionSparesFlights, Zenon DEF DnsInv
<1>3. \A n \in Name : slot'[n] = IF n = name[r] THEN r ELSE table[n]
  BY <1>1, <1>2, Zenon
<1>4. DnsTypeOK' BY <1>1, <1>2, ZenonT(60) DEF Lead, DnsInv, DnsTypeOK
<1>5. FlightOwnsSlot'
  BY <1>2, <1>3, <1>4, DnsAssumption DEF Lead, DnsInv, DnsTypeOK, FlightOwnsSlot, Cached
<1>6. SubscribersHear' BY DEF Lead, DnsInv, DnsTypeOK, SubscribersHear
<1>7. \A n \in Name : slot'[n] \in Request =>
          name'[slot'[n]] = n /\ flight'[slot'[n]] \in {"lookup", "resolved"}
  BY <1>2, <1>3, DnsAssumption DEF Lead, DnsInv, DnsTypeOK, Cached
<1>8. \A q \in Request : /\ ask'[q] = "new" => flight'[q] = "none"
                         /\ ask'[q] = "waiting" => joined'[q] \in Request
  BY DEF Lead, DnsInv, DnsTypeOK
<1> QED BY <1>4, <1>5, <1>6, <1>7, <1>8, Zenon DEF DnsInv

\* The end of a lookup releases the slot its own request holds.
LEMMA DnsFlightKeeps ==
    ASSUME DnsInv, NEW r \in Request, LookupEnds(r) \/ BackendReturns(r) \/ SpawnFlight(r)
    PROVE  DnsInv'
<1>1. CASE LookupEnds(r)
  <2>1. keep' \in [Request -> BOOLEAN] BY <1>1, ZenonT(60) DEF LookupEnds, DnsInv, DnsTypeOK
  <2>2. lookups' \subseteq Request BY <1>1 DEF LookupEnds, DnsInv, DnsTypeOK
  <2>3. DnsTypeOK' BY <1>1, <2>1, <2>2, Zenon DEF LookupEnds, DnsInv, DnsTypeOK
  <2> QED BY <1>1, <2>3 DEF LookupEnds, DnsInv, DnsTypeOK, FlightOwnsSlot, SubscribersHear
<1>2. CASE BackendReturns(r)
  BY <1>2, Zenon DEF BackendReturns, DnsInv, DnsTypeOK, FlightOwnsSlot, SubscribersHear
<1>3. CASE flight[r] = "resolved" /\ Publish(r) /\ flight' = [flight EXCEPT ![r] = "published"]
  <2>1. slot[name[r]] = r /\ name[r] \in Name
    BY <1>3, ZenonT(60) DEF DnsInv, DnsTypeOK, FlightOwnsSlot
  <2>2. slot' = [slot EXCEPT ![name[r]] = IF keep[r] THEN "cached" ELSE "none"]
    BY <1>3, <2>1, DnsAssumption, Zenon DEF Publish, Cached
  <2>3. \A n \in Name : slot'[n] = slot[n] \/ (n = name[r] /\ slot'[n] \in Cached)
    BY <2>1, <2>2 DEF DnsInv, DnsTypeOK, Cached
  <2>4. DnsTypeOK' BY <1>3, <2>2, Zenon DEF Publish, DnsInv, DnsTypeOK, Cached
  <2>5. FlightOwnsSlot'
    BY <1>3, <2>1, <2>3 DEF Publish, DnsInv, DnsTypeOK, FlightOwnsSlot
  <2>6. SubscribersHear' BY <1>3 DEF Publish, DnsInv, DnsTypeOK, SubscribersHear
  <2>7. \A n \in Name : slot'[n] \in Request =>
            name'[slot'[n]] = n /\ flight'[slot'[n]] \in {"lookup", "resolved"}
    BY <1>3, <2>1, <2>2, DnsAssumption DEF Publish, DnsInv, DnsTypeOK, Cached
  <2>8. \A q \in Request : /\ ask'[q] = "new" => flight'[q] = "none"
                           /\ ask'[q] = "waiting" => joined'[q] \in Request
    BY <1>3 DEF Publish, DnsInv, DnsTypeOK
  <2> QED BY <2>4, <2>5, <2>6, <2>7, <2>8, Zenon DEF DnsInv
<1>4. CASE flight[r] = "published" /\ Broadcast(r) /\ flight' = [flight EXCEPT ![r] = "sent"]
  BY <1>4 DEF Broadcast, DnsInv, DnsTypeOK, FlightOwnsSlot, SubscribersHear
<1> QED BY <1>1, <1>2, <1>3, <1>4, Zenon DEF SpawnFlight

\* DnsInv is an invariant of the resolver.
LEMMA DnsInvHolds == DnsSpec => []DnsInv
<1>1. DnsInv /\ [DnsNext]_dnsVars => DnsInv'
  <2> SUFFICES ASSUME DnsInv, [DnsNext]_dnsVars PROVE DnsInv' BY Zenon
  <2>1. ASSUME NEW n \in Name, Expires(n) PROVE DnsInv'
    BY <2>1, DnsAssumption
       DEF Expires, DnsInv, DnsTypeOK, FlightOwnsSlot, SubscribersHear, Cached
  <2>2. CASE UNCHANGED dnsVars
    BY <2>2, Zenon DEF dnsVars, DnsInv, DnsTypeOK, FlightOwnsSlot, SubscribersHear
  <2> QED BY <2>1, <2>2, DnsRequestKeeps, DnsLeadKeeps, DnsFlightKeeps, Zenon DEF DnsNext
<1> QED BY <1>1, DnsInitInv, PTL DEF DnsSpec

\* A request that waits for another's lookup waits for one that is still to end
\* and will be answered.
THEOREM SubscribersAlwaysHear == DnsSpec => []SubscribersHear
<1>1. DnsInv => SubscribersHear BY Zenon DEF DnsInv
<1> QED BY <1>1, DnsInvHolds, PTL

\* A name's slot belongs to the lookup in flight for it, so two lookups never run
\* for one name.
THEOREM OneLookupPerName == DnsSpec => []FlightOwnsSlot
<1>1. DnsInv => FlightOwnsSlot BY Zenon DEF DnsInv
<1> QED BY <1>1, DnsInvHolds, PTL

-----------------------------------------------------------------------------
(* The client race *)

\* What one session's driver and engine know.
RaceLocals ==
    /\ step \in [ClientSession -> {"start", "race", "blame", "praise", "over"}]
    /\ polled \in [ClientSession -> [Candidate -> {"pending", "ok", "error", "seen"}]]
    /\ engine \in [ClientSession -> [Candidate -> {"Unstarted", "Pending", "Failed", "Retired"}]]
    /\ terminal \in [ClientSession -> BOOLEAN] /\ started \in [ClientSession -> BOOLEAN]
    /\ adopted \in [ClientSession -> SUBSET Candidate]

\* While a race runs, the engine's state of a candidate is a function of what
\* the driver has done with it: a recorded error is a failure, and an alternate
\* is pending from the moment the driver started it.
EngineMirrorsDriver(s) ==
    step[s] \in {"start", "race"} =>
        /\ ~terminal[s] /\ adopted[s] = {}
        /\ engine[s]["Primary"] = IF polled[s]["Primary"] = "seen" THEN "Failed" ELSE "Pending"
        /\ engine[s]["Alternate"] = IF ~started[s] THEN "Unstarted"
                                    ELSE IF polled[s]["Alternate"] = "seen" THEN "Failed"
                                    ELSE "Pending"

\* The inductive invariant.
RaceInv ==
    /\ RaceLocals
    /\ \A s \in ClientSession :
          /\ EngineMirrorsDriver(s)
          /\ started[s] \/ polled[s]["Alternate"] = "pending"
          /\ adopted[s] # {} => \E c \in Candidate : adopted[s] = {c} /\ polled[s][c] = "ok"

\* No race has started.
LEMMA RaceInitInv == RaceInit => RaceInv
BY DEF RaceInit, RaceInv, RaceLocals, EngineMirrorsDriver, Candidate

\* A step of one session leaves the others' races alone.
LEMMA OtherRacesStay ==
    ASSUME RaceInv, NEW s \in ClientSession, RaceLocals',
           \A o \in ClientSession \ {s} :
              /\ step'[o] = step[o] /\ polled'[o] = polled[o] /\ engine'[o] = engine[o]
              /\ terminal'[o] = terminal[o] /\ started'[o] = started[o]
              /\ adopted'[o] = adopted[o],
           EngineMirrorsDriver(s)', started'[s] \/ polled'[s]["Alternate"] = "pending",
           adopted'[s] # {} => \E c \in Candidate : adopted'[s] = {c} /\ polled'[s][c] = "ok"
    PROVE  RaceInv'
<1>1. ASSUME NEW o \in ClientSession, o # s
      PROVE  /\ EngineMirrorsDriver(o)'
             /\ started'[o] \/ polled'[o]["Alternate"] = "pending"
             /\ adopted'[o] # {} => \E c \in Candidate : adopted'[o] = {c} /\ polled'[o][c] = "ok"
  BY <1>1 DEF RaceInv, EngineMirrorsDriver
<1> QED BY <1>1, ZenonT(60) DEF RaceInv

\* The driver's steps that concern no single candidate.
LEMMA RaceStepKeeps ==
    ASSUME RaceInv, NEW s \in ClientSession,
           \/ Start(s) \/ Hedge(s) \/ Deadline(s) \/ ClearFaults(s) \/ SetSticky(s)
           \/ \E l \in LineIndex : NoteFault(s, l)
    PROVE  RaceInv'
<1>1. CASE Start(s)
  BY <1>1, ZenonT(60) DEF Start, RaceInv, RaceLocals, EngineMirrorsDriver
<1>2. CASE Hedge(s)
  <2>1. RaceLocals' BY <1>2 DEF Hedge, RaceInv, RaceLocals, Candidate, MayStartAlternate
  <2>2. EngineMirrorsDriver(s)'
    <3>1. MayStartAlternate(s) /\ ~started[s] /\ step[s] = "race"
      BY <1>2, Zenon DEF Hedge, RaceInv, RaceLocals, MayStartAlternate, EngineMirrorsDriver
    <3>2. /\ engine'[s]["Alternate"] = "Pending" /\ engine'[s]["Primary"] = engine[s]["Primary"]
          /\ started'[s] = TRUE
      BY <1>2, <3>1 DEF Hedge, RaceInv, RaceLocals, Candidate
    <3>3. polled'[s]["Alternate"] = "pending" /\ polled' = polled
      BY <1>2, <3>1, Zenon DEF Hedge, RaceInv
    <3> QED BY <1>2, <3>1, <3>2, <3>3, SMTT(20) DEF Hedge, RaceInv, RaceLocals, EngineMirrorsDriver
  <2>3. started'[s] \/ polled'[s]["Alternate"] = "pending"
    BY <1>2, Zenon DEF Hedge, RaceInv
  <2>4. adopted'[s] # {} => \E c \in Candidate : adopted'[s] = {c} /\ polled'[s][c] = "ok"
    BY <1>2, Zenon DEF Hedge, RaceInv
  <2> QED BY <1>2, <2>1, <2>2, <2>3, <2>4, OtherRacesStay, ZenonT(30) DEF Hedge, RaceInv, RaceLocals
<1>3. CASE Deadline(s)
  BY <1>3, ZenonT(60) DEF Deadline, RaceInv, RaceLocals, EngineMirrorsDriver, Retired
<1>4. CASE ClearFaults(s)
  BY <1>4, ZenonT(60) DEF ClearFaults, RaceInv, RaceLocals, EngineMirrorsDriver, raceLocal
<1>5. CASE SetSticky(s)
  BY <1>5, ZenonT(60) DEF SetSticky, RaceInv, RaceLocals, EngineMirrorsDriver, raceLocal
<1>6. ASSUME NEW l \in LineIndex, NoteFault(s, l) PROVE RaceInv'
  BY <1>6 DEF NoteFault, RaceInv, RaceLocals, EngineMirrorsDriver, raceLocal
<1> QED BY <1>1, <1>2, <1>3, <1>4, <1>5, <1>6, Zenon

\* The steps that concern one candidate: it answers, fails or wins.
LEMMA CandidateKeeps ==
    ASSUME RaceInv, NEW s \in ClientSession, NEW c \in Candidate,
           Completes(s, c) \/ Adopt(s, c) \/ Fail(s, c)
    PROVE  RaceInv'
<1>1. CASE Completes(s, c)
  <2>0. PICK result \in {"ok", "error"} : polled' = [polled EXCEPT ![s][c] = result]
    BY <1>1, Zenon DEF Completes
  <2>1. RaceLocals' BY <1>1, <2>0, Zenon DEF Completes, RaceInv, RaceLocals
  <2>2. EngineMirrorsDriver(s)'
    BY <1>1, <2>0 DEF Completes, RaceInv, RaceLocals, Candidate, EngineMirrorsDriver
  <2>3. started'[s] \/ polled'[s]["Alternate"] = "pending"
    BY <1>1, <2>0 DEF Completes, RaceInv, RaceLocals, Candidate
  <2>4. adopted'[s] = {} BY <1>1, Zenon DEF Completes, RaceInv, EngineMirrorsDriver
  <2> QED BY <1>1, <2>0, <2>1, <2>2, <2>3, <2>4, OtherRacesStay, Zenon
          DEF Completes, RaceInv, RaceLocals
<1>2. CASE Adopt(s, c)
  <2>1. RaceLocals' BY <1>2, Zenon DEF Adopt, RaceInv, RaceLocals, Retired
  <2>2. EngineMirrorsDriver(s)'
    BY <1>2, Zenon DEF Adopt, RaceInv, RaceLocals, EngineMirrorsDriver
  <2>3. started'[s] \/ polled'[s]["Alternate"] = "pending" BY <1>2, ZenonT(30) DEF Adopt, RaceInv
  <2>4. adopted'[s] = {c} /\ polled'[s][c] = "ok"
    BY <1>2 DEF Adopt, Served, Unfinished, RaceInv, RaceLocals, EngineMirrorsDriver
  <2> QED BY <1>2, <2>1, <2>2, <2>3, <2>4, OtherRacesStay, Zenon DEF Adopt, RaceInv, RaceLocals
<1>3. CASE Fail(s, c)
  <2> DEFINE starts == c = "Primary" /\ HasAlternate /\ ~started[s] /\ MayStartAlternate(s)
             other == IF c = "Primary" THEN "Alternate" ELSE "Primary"
             over == ~HasAlternate \/ polled[s][other] = "seen"
             after == [[engine[s] EXCEPT ![c] = "Failed"]
                          EXCEPT !["Alternate"] = IF starts THEN "Pending" ELSE @]
  <2>0. /\ Served(s, c) /\ polled[s][c] = "error"
        /\ polled' = [polled EXCEPT ![s][c] = "seen"]
        /\ started' = [started EXCEPT ![s] = @ \/ starts]
        /\ engine' = [engine EXCEPT ![s] = IF over THEN Retired ELSE after]
        /\ terminal' = [terminal EXCEPT ![s] = over]
        /\ step' = [step EXCEPT ![s] = IF over THEN "blame" ELSE @]
        /\ adopted' = adopted
    BY <1>3, Zenon DEF Fail
  <2>1. RaceLocals'
    BY <2>0 DEF RaceInv, RaceLocals, Retired, Candidate
  <2>2. EngineMirrorsDriver(s)'
    <3>1. CASE over BY <2>0, <3>1, ZenonT(60) DEF RaceInv, RaceLocals, EngineMirrorsDriver
    <3>2. CASE ~over
      <4>1. step[s] = "race" /\ step'[s] = "race" /\ terminal'[s] = FALSE
        BY <2>0, <3>2, Zenon DEF Served, RaceInv, RaceLocals
      <4>2. HasAlternate BY <3>2, Zenon
      <4>3. /\ started[s] \/ polled[s]["Alternate"] = "pending"
            /\ EngineMirrorsDriver(s)
        BY Zenon DEF RaceInv
      <4>4. engine'[s] = after BY <2>0, <3>2, Zenon DEF RaceInv, RaceLocals
      <4>5. CASE c = "Primary"
        <5>1. started'[s] = TRUE
          BY <2>0, <4>1, <4>2, <4>3, <4>5, Zenon
             DEF RaceInv, RaceLocals, EngineMirrorsDriver, MayStartAlternate
        <5>2. /\ polled'[s]["Primary"] = "seen"
              /\ polled'[s]["Alternate"] = polled[s]["Alternate"]
          BY <2>0, <4>5 DEF RaceInv, RaceLocals, Candidate
        <5>0. /\ DOMAIN engine[s] = Candidate /\ "Primary" \in Candidate /\ "Alternate" \in Candidate
          BY <4>2 DEF RaceInv, RaceLocals, Candidate
        <5>3. engine'[s]["Primary"] = "Failed" BY <4>4, <4>5, <5>0, Zenon
        <5>6. engine'[s]["Alternate"] = IF starts THEN "Pending" ELSE engine[s]["Alternate"]
          BY <4>4, <4>5, <5>0, Zenon
        <5>4. polled[s]["Alternate"] # "seen" BY <3>2, <4>5, Zenon
        <5>5. engine'[s]["Alternate"] = "Pending"
          BY <4>1, <4>2, <4>3, <4>5, <5>4, <5>6, Zenon DEF EngineMirrorsDriver, MayStartAlternate
        <5> QED BY <2>0, <4>1, <4>3, <5>1, <5>2, <5>3, <5>4, <5>5, Zenon DEF EngineMirrorsDriver
      <4>6. CASE c = "Alternate"
        <5>1. started[s] /\ started'[s] BY <2>0, <4>6, Zenon DEF Served, RaceInv, RaceLocals
        <5>2. /\ polled'[s]["Alternate"] = "seen"
              /\ polled'[s]["Primary"] = polled[s]["Primary"]
          BY <2>0, <4>6, SMTT(20) DEF RaceInv, RaceLocals, Candidate
        <5>3. /\ engine'[s]["Alternate"] = "Failed"
              /\ engine'[s]["Primary"] = engine[s]["Primary"]
          BY <4>4, <4>6, SMTT(20) DEF RaceInv, RaceLocals, Candidate
        <5> QED BY <2>0, <4>1, <4>3, <5>1, <5>2, <5>3, ZenonT(60) DEF EngineMirrorsDriver
      <4> QED BY <4>5, <4>6, Zenon DEF Candidate
    <3> QED BY <3>1, <3>2, Zenon
  <2>3. started'[s] \/ polled'[s]["Alternate"] = "pending"
    BY <2>0, SMTT(20) DEF RaceInv, RaceLocals, Candidate, Served
  <2>4. adopted'[s] = {} BY <2>0, Zenon DEF Served, RaceInv, EngineMirrorsDriver
  <2> QED BY <2>0, <2>1, <2>2, <2>3, <2>4, OtherRacesStay, ZenonT(30) DEF RaceInv, RaceLocals
<1> QED BY <1>1, <1>2, <1>3, Zenon

\* RaceInv is an invariant of the races.
LEMMA RaceInvHolds == RaceSpec => []RaceInv
<1>1. RaceInv /\ [RaceNext]_raceVars => RaceInv'
  <2> SUFFICES ASSUME RaceInv, [RaceNext]_raceVars PROVE RaceInv' BY Zenon
  <2>1. CASE UNCHANGED raceVars
    BY <2>1, ZenonT(60) DEF raceVars, RaceInv, RaceLocals, EngineMirrorsDriver
  <2> QED BY <2>1, RaceStepKeeps, CandidateKeeps, Zenon DEF RaceNext
<1> QED BY <1>1, RaceInitInv, PTL DEF RaceSpec

\* The driver's view of a race and the engine's never contradict each other.
THEOREM DriverAndEngineAgree == RaceSpec => []DriverAgreesWithEngine
<1>1. RaceInv => DriverAgreesWithEngine
  BY DEF RaceInv, RaceLocals, EngineMirrorsDriver, DriverAgreesWithEngine, Served, Unfinished,
         Accepts, Candidate
<1> QED BY <1>1, RaceInvHolds, PTL
=============================================================================
