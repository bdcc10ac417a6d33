---------------------------- MODULE LimitsProofs ----------------------------
(***************************************************************************)
(* Proofs about the limits of the process: the descriptor budget for every *)
(* set of tasks, every capacity and every request size, and the adaptive   *)
(* controller for any knobs and any load. Units are counted by             *)
(* cardinality, one member of Reserved for each unit behind a permit.      *)
(***************************************************************************)
EXTENDS FdBudget, Adaptive, SequenceTheorems, FiniteSetTheorems, TLAPS

-----------------------------------------------------------------------------
(* The descriptor budget *)

\* Removing one permit from a sequence of permits leaves a sequence of permits.
LEMMA WithoutType ==
  ASSUME NEW s \in Seq(Nat), NEW i \in 1 .. Len(s)
  PROVE  Without(s, i) \in Seq(Nat)
<1>1. SubSeq(s, 1, i - 1) \in Seq(Nat) /\ SubSeq(s, i + 1, Len(s)) \in Seq(Nat)
      OBVIOUS
<1> QED
    BY <1>1 DEF Without

\* A task registered on `released` is counted in `waiters` and is inside its
\* second attempt, or parked behind it.
Counted(t) ==
  /\ pc[t] = "enable" => t \in waiters
  /\ t \in registered =>
       /\ t \in waiters
       /\ mode[t] = "recheck"
       /\ pc[t] \in {"load", "cas", "observe", "raised", "parked"}

\* A registered task that is parked, or about to park on a stale count,
\* although its units fit.
Stuck(t) ==
  /\ t \in registered
  /\ used + want[t] <= Capacity
  /\ pc[t] = "parked" \/ (pc[t] = "cas" /\ seen[t] + want[t] > Capacity)

SomeReleasing == \E r \in Task : Releasing(r)

WaiterInv == \A t \in Task : Counted(t) /\ (Stuck(t) => SomeReleasing)

FdInv ==
  /\ FdTypeOK
  /\ NoOvershoot
  /\ WaiterInv
  /\ NoLostPressureChange

\* The invariant holds before any call.
LEMMA FdInitInv == FdInit => FdInv
<1> SUFFICES ASSUME FdInit PROVE FdInv
    BY Zenon
<1> USE BudgetConstants DEF BudgetConstants, FdInit
<1>1. <<>> \in Seq(Nat)
      OBVIOUS
<1>2. FdTypeOK
      BY <1>1, Zenon DEF FdTypeOK, Pcs
<1>3. NoOvershoot /\ WaiterInv /\ NoLostPressureChange
      BY DEF NoOvershoot, WaiterInv, Counted, Stuck, NoLostPressureChange
<1> QED
    BY <1>2, <1>3, Zenon DEF FdInv

\* Returning resets the four locals within their types.
LEMMA ReturnType ==
  ASSUME FdTypeOK, NEW t \in Task, Return(t)
  PROVE  /\ pc' \in [Task -> Pcs]
         /\ mode' \in [Task -> {"try", "first", "recheck"}]
         /\ want' \in [Task -> Nat]
         /\ seen' \in [Task -> Nat]
<1>1. pc' \in [Task -> Pcs]
      BY Zenon DEF FdTypeOK, Return, Goto, Pcs
<1>2. mode' \in [Task -> {"try", "first", "recheck"}]
      BY Zenon DEF FdTypeOK, Return
<1>3. want' \in [Task -> Nat]
      BY Zenon DEF FdTypeOK, Return
<1>4. seen' \in [Task -> Nat]
      BY Zenon DEF FdTypeOK, Return
<1> QED
    BY <1>1, <1>2, <1>3, <1>4, Zenon

\* Every step of a task or of the watcher keeps the types.
LEMMA FdStepType == FdTypeOK /\ [FdNext]_fdVars => FdTypeOK'
<1> SUFFICES ASSUME FdTypeOK, [FdNext]_fdVars
             PROVE  FdTypeOK'
    BY Zenon
<1> USE BudgetConstants DEF BudgetConstants, FdTypeOK, Pcs
<1>1. ASSUME NEW t \in Task, NEW u \in Units, NEW m \in {"try", "first"}, Begin(t, u, m)
      PROVE  FdTypeOK'
      BY <1>1, ZenonT(60) DEF Begin, Goto
<1>2. ASSUME NEW t \in Task, NEW i \in 1 .. MaxPermits, Release(t, i)
      PROVE  FdTypeOK'
  <2>1. Without(held[t], i) \in Seq(Nat)
        BY <1>2, WithoutType, Zenon DEF Release
  <2>2. held[t][i] \in Nat
        BY <1>2 DEF Release
  <2>3. CASE held[t][i] <= used
    <3>0. /\ used' = used - held[t][i]
          /\ seen' = [seen EXCEPT ![t] = used - held[t][i]]
          /\ pc' = [pc EXCEPT ![t] = "lower"]
          BY <1>2, <2>3, Zenon DEF Release, Goto, Saw
    <3>1. used' \in Nat /\ seen' \in [Task -> Nat]
          BY <2>2, <2>3, <3>0
    <3>2. pc' \in [Task -> Pcs]
          BY <3>0, Zenon
    <3>3. held' \in [Task -> Seq(Nat)]
          BY <1>2, <2>1, Zenon DEF Release
    <3> QED
        BY <1>2, <2>3, <3>1, <3>2, <3>3, ZenonT(60) DEF Release
  <2>4. CASE ~(held[t][i] <= used)
        BY <1>2, <2>1, <2>4, Zenon DEF Release
  <2> QED
      BY <2>3, <2>4, Zenon
<1>3. ASSUME NEW t \in Task, Merge(t)
      PROVE  FdTypeOK'
  <2>1. held[t] \in Seq(Nat) /\ Len(held[t]) = 2
        BY <1>3, Zenon DEF Merge
  <2>2. held[t][1] \in Nat /\ held[t][2] \in Nat
        BY ONLY <2>1, ElementOfSeq, SMTT(20)
  <2>3. <<held[t][1] + held[t][2]>> \in Seq(Nat)
        BY <2>2
  <2> QED
      BY <1>3, <2>3, Zenon DEF Merge
<1>4. ASSUME NEW t \in Task, Granted(t)
      PROVE  held' \in [Task -> Seq(Nat)]
      BY <1>4 DEF Granted
<1>5. ASSUME NEW t \in Task, Load(t) PROVE FdTypeOK'
      BY <1>5, Zenon DEF Load, Goto, Saw
<1>6. ASSUME NEW t \in Task, Deny(t) PROVE FdTypeOK'
  <2>1. CASE mode[t] = "try"
        BY <1>6, <2>1, ReturnType, ZenonT(60) DEF Deny
  <2>2. CASE mode[t] = "first"
        BY <1>6, <2>2, ZenonT(60) DEF Deny, Goto
  <2>3. CASE mode[t] = "recheck"
        BY <1>6, <2>3, ZenonT(60) DEF Deny, Goto
  <2> QED
      BY <1>6, <2>1, <2>2, <2>3, Zenon DEF Deny
<1>7. ASSUME NEW t \in Task, CompareExchange(t) PROVE FdTypeOK'
  <2>1. CASE used = seen[t]
    <3>0. used' = seen[t] + want[t] /\ seen' = [seen EXCEPT ![t] = seen[t] + want[t]]
          BY <1>7, <2>1, Zenon DEF CompareExchange, Saw
    <3>3. seen[t] + want[t] \in Nat /\ seen \in [Task -> Nat]
          OBVIOUS
    <3>1. used' \in Nat /\ seen' \in [Task -> Nat]
          BY ONLY <3>0, <3>3, Zenon
    <3>5. pc' = [pc EXCEPT ![t] = "observe"] /\ pc \in [Task -> Pcs]
          BY <1>7, <2>1, Zenon DEF CompareExchange, Goto
    <3>6. "observe" \in Pcs
          BY Zenon DEF Pcs
    <3>2. pc' \in [Task -> Pcs]
          BY ONLY <3>5, <3>6, Zenon
    <3>4. UNCHANGED <<pressure, waiters, registered, mode, want, held, underflow, watch>>
          BY <1>7, <2>1, Zenon DEF CompareExchange
    <3> QED
        BY <3>1, <3>2, <3>4, Zenon
  <2>2. CASE ~(used = seen[t])
        BY <1>7, <2>2 DEF CompareExchange, Goto, Saw
  <2> QED
      BY <2>1, <2>2, Zenon
<1>8. ASSUME NEW t \in Task, ObserveAcquired(t) PROVE FdTypeOK'
  <2>1. CASE seen[t] >= HighWatermark /\ ~pressure
        BY <1>8, <2>1, ZenonT(60) DEF ObserveAcquired, Goto
  <2>2. CASE ~(seen[t] >= HighWatermark /\ ~pressure)
        BY <1>8, <2>2, <1>4, ReturnType, ZenonT(60) DEF ObserveAcquired, Granted
  <2> QED
      BY <2>1, <2>2, Zenon
<1>9. ASSUME NEW t \in Task, RaisedNotify(t) PROVE FdTypeOK'
      BY <1>9, <1>4, ReturnType, Zenon DEF RaisedNotify, Granted
<1>10. ASSUME NEW t \in Task, CountWaiter(t) PROVE FdTypeOK'
      BY <1>10, ZenonT(60) DEF CountWaiter, Goto
<1>11. ASSUME NEW t \in Task, Enable(t) PROVE FdTypeOK'
      BY <1>11, ZenonT(60) DEF Enable, Goto
<1>12. ASSUME NEW t \in Task, Woken(t) PROVE FdTypeOK'
      BY <1>12, Zenon DEF Woken, Goto
<1>13. ASSUME NEW t \in Task, Cancel(t) PROVE FdTypeOK'
      BY <1>13, ReturnType, ZenonT(60) DEF Cancel
<1>14. ASSUME NEW t \in Task, Lower(t) PROVE FdTypeOK'
      BY <1>14, ZenonT(60) DEF Lower, Goto
<1>15. ASSUME NEW t \in Task, LoweredNotify(t) PROVE FdTypeOK'
      BY <1>15, Zenon DEF LoweredNotify, Goto
<1>16. ASSUME NEW t \in Task, LookForWaiters(t) PROVE FdTypeOK'
  <2>1. CASE waiters = {}
        BY <1>16, <2>1, ReturnType, ZenonT(60) DEF LookForWaiters
  <2>2. CASE ~(waiters = {})
        BY <1>16, <2>2, ZenonT(60) DEF LookForWaiters, Goto
  <2> QED
      BY <2>1, <2>2, Zenon
<1>17. ASSUME NEW t \in Task, NotifyReleased(t) PROVE FdTypeOK'
      BY <1>17, ReturnType, ZenonT(60) DEF NotifyReleased
<1>18. CASE WatchEnable
      BY <1>18, Zenon DEF WatchEnable, callers
<1>19. CASE WatchCheck
      BY <1>19, Zenon DEF WatchCheck, callers
<1>20. CASE WatchWoken
      BY <1>20, Zenon DEF WatchWoken, callers
<1>21. CASE UNCHANGED fdVars
      BY <1>21, Zenon DEF fdVars, callers
<1> HIDE DEF FdTypeOK, Pcs, BudgetConstants
<1> QED
    BY <1>1, <1>2, <1>3, <1>5, <1>6, <1>7, <1>8, <1>9, <1>10, <1>11, <1>12, <1>13, <1>14, <1>15, <1>16, <1>17, <1>18, <1>19, <1>20, <1>21, Zenon
       DEF FdNext, TaskStep, Proceed, Watch

\* Only a successful exchange raises the count, and only to a checked value.
LEMMA OvershootStep ==
  FdTypeOK /\ NoOvershoot /\ [FdNext]_fdVars => NoOvershoot'
<1> SUFFICES ASSUME FdTypeOK, NoOvershoot, [FdNext]_fdVars
             PROVE  NoOvershoot'
    BY Zenon
<1>1. ASSUME NEW t \in Task, CompareExchange(t)
      PROVE  NoOvershoot'
      BY <1>1, Zenon DEF CompareExchange, NoOvershoot
<1>2. ASSUME NEW t \in Task, NEW i \in 1 .. MaxPermits, Release(t, i)
      PROVE  NoOvershoot'
  <2>1. held[t][i] \in Nat
        BY <1>2 DEF Release, FdTypeOK
  <2>2. used' = used \/ used' = used - held[t][i]
        BY <1>2, Zenon DEF Release
  <2> QED
      BY <2>1, <2>2, BudgetConstants DEF NoOvershoot, FdTypeOK, BudgetConstants
<1>3. CASE UNCHANGED used
      BY <1>3, Zenon DEF NoOvershoot
<1>4. UNCHANGED used \/ (\E t \in Task : CompareExchange(t))
        \/ (\E t \in Task, i \in 1 .. MaxPermits : Release(t, i))
      BY ZenonT(60) DEF FdNext, TaskStep, Proceed, Watch, WatchEnable, WatchCheck, WatchWoken, fdVars,
             Load, Deny, ObserveAcquired, RaisedNotify, CountWaiter, Enable, Woken, Cancel,
             Lower, LoweredNotify, LookForWaiters, NotifyReleased, Merge, Begin
<1> QED
    BY <1>1, <1>2, <1>3, <1>4, Zenon

\* A flag swap leaves its task on the way to the notify, and only that notify
\* takes the task away; the watcher parks only on the current value.
LEMMA PressureStep ==
  FdTypeOK /\ NoLostPressureChange /\ [FdNext]_fdVars => NoLostPressureChange'
<1> SUFFICES ASSUME FdTypeOK, NoLostPressureChange, [FdNext]_fdVars
             PROVE  NoLostPressureChange'
    BY Zenon
<1> USE DEF FdTypeOK, NoLostPressureChange
<1>1. ASSUME NEW t \in Task, Load(t) PROVE NoLostPressureChange'
      BY <1>1, ZenonT(60) DEF Load, Goto, Saw
<1>2. ASSUME NEW t \in Task, Deny(t) PROVE NoLostPressureChange'
      BY <1>2, ZenonT(60) DEF Deny, Goto, Return
<1>3. ASSUME NEW t \in Task, CompareExchange(t) PROVE NoLostPressureChange'
      BY <1>3, ZenonT(60) DEF CompareExchange, Goto, Saw
<1>4. ASSUME NEW t \in Task, ObserveAcquired(t) PROVE NoLostPressureChange'
      BY <1>4 DEF ObserveAcquired, Granted, Goto, Return
<1>5. ASSUME NEW t \in Task, RaisedNotify(t) PROVE NoLostPressureChange'
      BY <1>5, Zenon DEF RaisedNotify, Granted, Goto, Return
<1>6. ASSUME NEW t \in Task, CountWaiter(t) PROVE NoLostPressureChange'
      BY <1>6, Zenon DEF CountWaiter, Goto
<1>7. ASSUME NEW t \in Task, Enable(t) PROVE NoLostPressureChange'
      BY <1>7, Zenon DEF Enable, Goto
<1>8. ASSUME NEW t \in Task, Woken(t) PROVE NoLostPressureChange'
      BY <1>8, Zenon DEF Woken, Goto
<1>9. ASSUME NEW t \in Task, Cancel(t) PROVE NoLostPressureChange'
      BY <1>9, Zenon DEF Cancel, Goto, Return
<1>10. ASSUME NEW t \in Task, Lower(t) PROVE NoLostPressureChange'
      BY <1>10, ZenonT(60) DEF Lower, Goto
<1>11. ASSUME NEW t \in Task, LoweredNotify(t) PROVE NoLostPressureChange'
      BY <1>11, Zenon DEF LoweredNotify, Goto
<1>12. ASSUME NEW t \in Task, LookForWaiters(t) PROVE NoLostPressureChange'
      BY <1>12, ZenonT(60) DEF LookForWaiters, Goto, Return
<1>13. ASSUME NEW t \in Task, NotifyReleased(t) PROVE NoLostPressureChange'
      BY <1>13, Zenon DEF NotifyReleased, Goto, Return
<1>14. ASSUME NEW t \in Task, Merge(t) PROVE NoLostPressureChange'
      BY <1>14, Zenon DEF Merge
<1>15. ASSUME NEW t \in Task, NEW u \in Units, NEW m \in {"try", "first"}, Begin(t, u, m)
      PROVE  NoLostPressureChange'
      BY <1>15, Zenon DEF Begin, Goto
<1>16. ASSUME NEW t \in Task, NEW i \in 1 .. MaxPermits, Release(t, i)
      PROVE  NoLostPressureChange'
      BY <1>16, ZenonT(60) DEF Release, Goto
<1>17. CASE Watch
  <2>1. CASE WatchEnable
        BY <2>1, Zenon DEF WatchEnable
  <2>2. CASE WatchCheck
    <3>1. CASE pressure # watch.observed
          BY <2>2, <3>1, Zenon DEF WatchCheck
    <3>2. CASE pressure = watch.observed
      <4>1. watch'.observed = pressure'
            BY <2>2, <3>2, Zenon DEF WatchCheck
      <4> QED
          BY <4>1, Zenon
    <3> QED
        BY <3>1, <3>2, Zenon
  <2>3. CASE WatchWoken
        BY <2>3, Zenon DEF WatchWoken
  <2> QED
      BY <1>17, <2>1, <2>2, <2>3, Zenon DEF Watch
<1>18. CASE UNCHANGED fdVars
      BY <1>18, Zenon DEF fdVars, callers
<1> HIDE DEF FdTypeOK, NoLostPressureChange
<1> QED
    BY <1>1, <1>2, <1>3, <1>4, <1>5, <1>6, <1>7, <1>8, <1>9, <1>10, <1>11, <1>12, <1>13, <1>14, <1>15, <1>16, <1>17, <1>18, Zenon
       DEF FdNext, TaskStep, Proceed

\* Counting precedes registration, and whoever leaves undoes both.
LEMMA CountedStep ==
  FdTypeOK /\ (\A t \in Task : Counted(t)) /\ [FdNext]_fdVars => \A t \in Task : Counted(t)'
<1> SUFFICES ASSUME FdTypeOK, (\A t \in Task : Counted(t)), [FdNext]_fdVars, NEW w \in Task
             PROVE  Counted(w)'
    BY Zenon
<1> USE BudgetConstants DEF BudgetConstants, FdTypeOK, Counted
<1>1. ASSUME NEW t \in Task, Load(t)
      PROVE  Counted(w)'
      BY <1>1, Zenon DEF Load, Goto, Saw
<1>2. ASSUME NEW t \in Task, Deny(t)
      PROVE  Counted(w)'
      BY <1>2, ZenonT(60) DEF Deny, Goto, Return
<1>3. ASSUME NEW t \in Task, CompareExchange(t)
      PROVE  Counted(w)'
      BY <1>3, ZenonT(60) DEF CompareExchange, Goto, Saw
<1>4. ASSUME NEW t \in Task, ObserveAcquired(t)
      PROVE  Counted(w)'
      BY <1>4 DEF ObserveAcquired, Granted, Goto, Return
<1>5. ASSUME NEW t \in Task, RaisedNotify(t)
      PROVE  Counted(w)'
      BY <1>5, Zenon DEF RaisedNotify, Granted, Goto, Return
<1>6. ASSUME NEW t \in Task, CountWaiter(t)
      PROVE  Counted(w)'
      BY <1>6, Zenon DEF CountWaiter, Goto
<1>7. ASSUME NEW t \in Task, Enable(t)
      PROVE  Counted(w)'
      BY <1>7, ZenonT(60) DEF Enable, Goto
<1>8. ASSUME NEW t \in Task, Woken(t)
      PROVE  Counted(w)'
      BY <1>8, ZenonT(60) DEF Woken, Goto
<1>9. ASSUME NEW t \in Task, Cancel(t)
      PROVE  Counted(w)'
      BY <1>9, ZenonT(60) DEF Cancel, Goto, Return
<1>10. ASSUME NEW t \in Task, Lower(t)
      PROVE  Counted(w)'
      BY <1>10, ZenonT(60) DEF Lower, Goto
<1>11. ASSUME NEW t \in Task, LoweredNotify(t)
      PROVE  Counted(w)'
      BY <1>11, Zenon DEF LoweredNotify, Goto
<1>12. ASSUME NEW t \in Task, LookForWaiters(t)
      PROVE  Counted(w)'
      BY <1>12, ZenonT(60) DEF LookForWaiters, Goto, Return
<1>13. ASSUME NEW t \in Task, NotifyReleased(t)
      PROVE  Counted(w)'
      BY <1>13, Zenon DEF NotifyReleased, Goto, Return
<1>14. ASSUME NEW t \in Task, Merge(t)
      PROVE  Counted(w)'
      BY <1>14, Zenon DEF Merge
<1>15. ASSUME NEW t \in Task, NEW u \in Units, NEW m \in {"try", "first"}, Begin(t, u, m)
      PROVE  Counted(w)'
      BY <1>15, ZenonT(60) DEF Begin, Goto
<1>16. ASSUME NEW t \in Task, NEW i \in 1 .. MaxPermits, Release(t, i)
      PROVE  Counted(w)'
      BY <1>16, ZenonT(60) DEF Release, Goto, Saw
<1>17. CASE Watch
      BY <1>17, Zenon DEF Watch, WatchEnable, WatchCheck, WatchWoken, callers
<1>18. CASE UNCHANGED fdVars
      BY <1>18, Zenon DEF fdVars, callers
<1> HIDE DEF BudgetConstants, FdTypeOK, Counted
<1> QED
    BY <1>1, <1>2, <1>3, <1>4, <1>5, <1>6, <1>7, <1>8, <1>9, <1>10, <1>11, <1>12, <1>13, <1>14, <1>15, <1>16, <1>17, <1>18, Zenon
       DEF FdNext, TaskStep, Proceed

\* A releaser other than the stepping task is still releasing after the step.
LEMMA ReleaserStays ==
  ASSUME FdTypeOK, NEW t \in Task, NEW x, ~Releasing(t), pc' = [pc EXCEPT ![t] = x]
  PROVE  SomeReleasing => SomeReleasing'
<1> SUFFICES ASSUME NEW r \in Task, Releasing(r)
             PROVE  SomeReleasing'
    BY Zenon DEF SomeReleasing
<1>1. r # t /\ pc'[r] = pc[r]
      BY Zenon DEF FdTypeOK
<1> QED
    BY <1>1, Zenon DEF Releasing, SomeReleasing

\* Units come back only through a releaser, who notifies before it leaves.
LEMMA StuckStep ==
  FdTypeOK /\ WaiterInv /\ [FdNext]_fdVars => \A t \in Task : Stuck(t)' => SomeReleasing'
<1> SUFFICES ASSUME FdTypeOK, WaiterInv, [FdNext]_fdVars, NEW w \in Task
             PROVE  Stuck(w)' => SomeReleasing'
    BY Zenon
<1>1. ASSUME NEW t \in Task, Load(t)
      PROVE  Stuck(w)' => SomeReleasing'
  <2>1. SomeReleasing => SomeReleasing'
        BY <1>1, ReleaserStays, Zenon DEF Releasing, Load, Goto, Saw
  <2>2. Stuck(w)' => Stuck(w)
        BY <1>1, BudgetConstants DEF BudgetConstants, FdTypeOK, Stuck, WaiterInv, Counted, Load, Goto, Saw
  <2> QED
      BY <2>1, <2>2, Zenon DEF WaiterInv
<1>2. ASSUME NEW t \in Task, Deny(t)
      PROVE  Stuck(w)' => SomeReleasing'
  <2>1. SomeReleasing => SomeReleasing'
        BY <1>2, ReleaserStays, Zenon DEF Releasing, Deny, Goto, Return
  <2>2. Stuck(w)' => Stuck(w)
        BY <1>2, BudgetConstants DEF BudgetConstants, FdTypeOK, Stuck, WaiterInv, Counted, Deny, Goto, Return
  <2> QED
      BY <2>1, <2>2, Zenon DEF WaiterInv
<1>3. ASSUME NEW t \in Task, CompareExchange(t)
      PROVE  Stuck(w)' => SomeReleasing'
  <2>1. SomeReleasing => SomeReleasing'
    <3>1. CASE used = seen[t]
          BY <1>3, <3>1, ReleaserStays, Zenon DEF Releasing, CompareExchange, Goto
    <3>2. CASE used # seen[t]
          BY <1>3, <3>2, Zenon DEF SomeReleasing, Releasing, CompareExchange
    <3> QED
        BY <3>1, <3>2, Zenon
  <2>2. Stuck(w)' => Stuck(w)
    <3> USE BudgetConstants DEF BudgetConstants, FdTypeOK, Stuck
    <3>1. CASE used = seen[t]
      <4>1. /\ used' = used + want[t] /\ pc' = [pc EXCEPT ![t] = "observe"]
            /\ seen' = [seen EXCEPT ![t] = used + want[t]] /\ UNCHANGED <<registered, want>>
            BY <1>3, <3>1, Zenon DEF CompareExchange, Goto, Saw
      <4>2. CASE w = t
            BY <4>1, <4>2, Zenon
      <4>3. CASE w # t
            BY <4>1, <4>3
      <4> QED
          BY <4>2, <4>3, Zenon
    <3>2. CASE used # seen[t]
      <4>1. seen' = [seen EXCEPT ![t] = used] /\ UNCHANGED <<used, pc, registered, want>>
            BY <1>3, <3>2, Zenon DEF CompareExchange, Saw
      <4>2. CASE w = t
            BY <4>1, <4>2
      <4>3. CASE w # t
            BY <4>1, <4>3, Zenon
      <4> QED
          BY <4>2, <4>3, Zenon
    <3> QED
        BY <3>1, <3>2, Zenon
  <2> QED
      BY <2>1, <2>2, Zenon DEF WaiterInv
<1>4. ASSUME NEW t \in Task, ObserveAcquired(t)
      PROVE  Stuck(w)' => SomeReleasing'
  <2>1. SomeReleasing => SomeReleasing'
        BY <1>4, ReleaserStays, Zenon DEF Releasing, ObserveAcquired, Granted, Goto, Return
  <2>2. Stuck(w)' => Stuck(w)
        BY <1>4, BudgetConstants DEF BudgetConstants, FdTypeOK, Stuck, WaiterInv, Counted, ObserveAcquired, Granted, Goto, Return
  <2> QED
      BY <2>1, <2>2, Zenon DEF WaiterInv
<1>5. ASSUME NEW t \in Task, RaisedNotify(t)
      PROVE  Stuck(w)' => SomeReleasing'
  <2>1. SomeReleasing => SomeReleasing'
        BY <1>5, ReleaserStays, Zenon DEF Releasing, RaisedNotify, Granted, Goto, Return
  <2>2. Stuck(w)' => Stuck(w)
        BY <1>5, BudgetConstants, ZenonT(60) DEF BudgetConstants, FdTypeOK, Stuck, WaiterInv, Counted, RaisedNotify, Granted, Goto, Return
  <2> QED
      BY <2>1, <2>2, Zenon DEF WaiterInv
<1>6. ASSUME NEW t \in Task, CountWaiter(t)
      PROVE  Stuck(w)' => SomeReleasing'
  <2>1. SomeReleasing => SomeReleasing'
        BY <1>6, ReleaserStays, Zenon DEF Releasing, CountWaiter, Goto
  <2>2. Stuck(w)' => Stuck(w)
        BY <1>6, BudgetConstants, Zenon DEF BudgetConstants, FdTypeOK, Stuck, WaiterInv, Counted, CountWaiter, Goto
  <2> QED
      BY <2>1, <2>2, Zenon DEF WaiterInv
<1>7. ASSUME NEW t \in Task, Enable(t)
      PROVE  Stuck(w)' => SomeReleasing'
  <2>1. SomeReleasing => SomeReleasing'
        BY <1>7, ReleaserStays, Zenon DEF Releasing, Enable, Goto
  <2>2. Stuck(w)' => Stuck(w)
        BY <1>7, BudgetConstants, Zenon DEF BudgetConstants, FdTypeOK, Stuck, WaiterInv, Counted, Enable, Goto
  <2> QED
      BY <2>1, <2>2, Zenon DEF WaiterInv
<1>8. ASSUME NEW t \in Task, Woken(t)
      PROVE  Stuck(w)' => SomeReleasing'
  <2>1. SomeReleasing => SomeReleasing'
        BY <1>8, ReleaserStays, Zenon DEF Releasing, Woken, Goto
  <2>2. Stuck(w)' => Stuck(w)
        BY <1>8, BudgetConstants, Zenon DEF BudgetConstants, FdTypeOK, Stuck, WaiterInv, Counted, Woken, Goto
  <2> QED
      BY <2>1, <2>2, Zenon DEF WaiterInv
<1>9. ASSUME NEW t \in Task, Cancel(t)
      PROVE  Stuck(w)' => SomeReleasing'
  <2>1. SomeReleasing => SomeReleasing'
        BY <1>9, ReleaserStays, Zenon DEF Releasing, Cancel, Goto, Return
  <2>2. Stuck(w)' => Stuck(w)
        BY <1>9, BudgetConstants, ZenonT(60) DEF BudgetConstants, FdTypeOK, Stuck, WaiterInv, Counted, Cancel, Goto, Return
  <2> QED
      BY <2>1, <2>2, Zenon DEF WaiterInv
<1>10. ASSUME NEW t \in Task, Lower(t)
      PROVE  Stuck(w)' => SomeReleasing'
      BY <1>10, Zenon DEF SomeReleasing, Releasing, FdTypeOK, Lower, Goto
<1>11. ASSUME NEW t \in Task, LoweredNotify(t)
      PROVE  Stuck(w)' => SomeReleasing'
      BY <1>11, Zenon DEF SomeReleasing, Releasing, FdTypeOK, LoweredNotify, Goto
<1>12. ASSUME NEW t \in Task, LookForWaiters(t)
      PROVE  Stuck(w)' => SomeReleasing'
  <2>1. CASE waiters = {}
        BY <1>12, <2>1, Zenon DEF WaiterInv, Counted, Stuck, LookForWaiters
  <2>2. CASE waiters # {}
        BY <1>12, <2>2, Zenon DEF SomeReleasing, Releasing, FdTypeOK, LookForWaiters, Goto
  <2> QED
      BY <2>1, <2>2, Zenon
<1>13. ASSUME NEW t \in Task, NotifyReleased(t)
      PROVE  Stuck(w)' => SomeReleasing'
      BY <1>13, Zenon DEF Stuck, NotifyReleased
<1>14. ASSUME NEW t \in Task, Merge(t)
      PROVE  Stuck(w)' => SomeReleasing'
      BY <1>14, Zenon DEF Merge, WaiterInv, Stuck, SomeReleasing, Releasing
<1>15. ASSUME NEW t \in Task, NEW u \in Units, NEW m \in {"try", "first"}, Begin(t, u, m)
      PROVE  Stuck(w)' => SomeReleasing'
  <2>1. SomeReleasing => SomeReleasing'
        BY <1>15, ReleaserStays, Zenon DEF Releasing, Begin, Goto
  <2>2. Stuck(w)' => Stuck(w)
        BY <1>15, BudgetConstants, Zenon DEF BudgetConstants, FdTypeOK, Stuck, WaiterInv, Counted, Begin, Goto
  <2> QED
      BY <2>1, <2>2, Zenon DEF WaiterInv
<1>16. ASSUME NEW t \in Task, NEW i \in 1 .. MaxPermits, Release(t, i)
      PROVE  Stuck(w)' => SomeReleasing'
  <2>1. CASE held[t][i] <= used
        BY <1>16, <2>1, Zenon DEF SomeReleasing, Releasing, FdTypeOK, Release, Goto
  <2>2. CASE ~(held[t][i] <= used)
        BY <1>16, <2>2, Zenon DEF Release, WaiterInv, Stuck, SomeReleasing, Releasing
  <2> QED
      BY <2>1, <2>2, Zenon
<1>17. CASE Watch
      BY <1>17, Zenon
           DEF WaiterInv, Stuck, SomeReleasing, Releasing, Watch, WatchEnable, WatchCheck, WatchWoken, callers
<1>18. CASE UNCHANGED fdVars
      BY <1>18, Zenon DEF WaiterInv, Stuck, SomeReleasing, Releasing, fdVars, callers
<1> QED
    BY <1>1, <1>2, <1>3, <1>4, <1>5, <1>6, <1>7, <1>8, <1>9, <1>10, <1>11, <1>12, <1>13, <1>14, <1>15, <1>16, <1>17, <1>18, Zenon
       DEF FdNext, TaskStep, Proceed

\* Every step of a task or of the watcher keeps the invariant.
LEMMA FdStepInv == FdInv /\ [FdNext]_fdVars => FdInv'
<1> SUFFICES ASSUME FdInv, [FdNext]_fdVars
             PROVE  FdInv'
    BY Zenon
<1>1. FdTypeOK'
      BY FdStepType, Zenon DEF FdInv
<1>2. NoOvershoot'
      BY OvershootStep, Zenon DEF FdInv
<1>3. NoLostPressureChange'
      BY PressureStep, Zenon DEF FdInv
<1>4. WaiterInv'
      BY CountedStep, StuckStep, Zenon DEF FdInv, WaiterInv
<1> QED
    BY <1>1, <1>2, <1>3, <1>4, Zenon DEF FdInv

\* FdInv is an invariant of the budget.
THEOREM FdInvariant == FdSpec => []FdInv
BY FdInitInv, FdStepInv, PTL DEF FdSpec

\* No reservation ever takes the in-use count past the capacity.
THEOREM BudgetIsStrict == FdSpec => []NoOvershoot
<1>1. FdInv => NoOvershoot
      BY Zenon DEF FdInv
<1> QED
    BY <1>1, FdInvariant, PTL

\* No parked acquire is forgotten while its units fit.
THEOREM WakeupsAreKept == FdSpec => []NoLostWakeup
<1>1. FdInv => NoLostWakeup
      BY Zenon DEF FdInv, WaiterInv, Stuck, SomeReleasing, NoLostWakeup
<1> QED
    BY <1>1, FdInvariant, PTL

\* No watcher of the pressure flag sleeps through a change.
THEOREM PressureChangesAreKept == FdSpec => []NoLostPressureChange
<1>1. FdInv => NoLostPressureChange
      BY Zenon DEF FdInv
<1> QED
    BY <1>1, FdInvariant, PTL

-----------------------------------------------------------------------------
(* The units behind the permits *)

\* Two sets that map onto each other by inverse functions have the same size.
LEMMA SameSize ==
  ASSUME NEW S, NEW T, IsFiniteSet(S), NEW f \in [S -> T], NEW g \in [T -> S],
         \A x \in S : g[f[x]] = x, \A y \in T : f[g[y]] = y
  PROVE  IsFiniteSet(T) /\ Cardinality(T) = Cardinality(S)
<1>1. f \in Injection(S, T)
  BY DEF Injection, IsInjective
<1>2. f \in Surjection(S, T)
  BY Zenon DEF Surjection
<1>3. ExistsBijection(S, T)
  BY <1>1, <1>2, Zenon DEF ExistsBijection, Bijection
<1> QED
    BY <1>3, FS_Bijection, Zenon

PermitUnits(t, i, n) == {<<t, i, k>> : k \in 1 .. n}

\* A permit of n units has n units.
LEMMA UnitsOfPermit ==
  ASSUME NEW t, NEW i, NEW n \in Nat
  PROVE  IsFiniteSet(PermitUnits(t, i, n)) /\ Cardinality(PermitUnits(t, i, n)) = n
<1> DEFINE I == 1 .. n
           U == {<<t, i, k>> : k \in I}
           f == [k \in I |-> <<t, i, k>>]
           g == [x \in U |-> x[3]]
<1>1. IsFiniteSet(I) /\ Cardinality(I) = n
  BY FS_Interval
<1>2. f \in [I -> U] /\ g \in [U -> I]
  OBVIOUS
<1>3. (\A k \in I : g[f[k]] = k) /\ (\A x \in U : f[g[x]] = x)
  OBVIOUS
<1> HIDE DEF I, U, f, g
<1>4. IsFiniteSet(U) /\ Cardinality(U) = n
  BY <1>1, <1>2, <1>3, SameSize
<1> QED
    BY <1>4, Zenon DEF U, I, PermitUnits

\* Adding units no permit has yet.
LEMMA Apart ==
  ASSUME NEW S, NEW T, IsFiniteSet(S), IsFiniteSet(T), S \cap T = {}
  PROVE  /\ IsFiniteSet(S \cup T) /\ Cardinality(S) \in Nat /\ Cardinality(T) \in Nat
         /\ Cardinality(S \cup T) = Cardinality(S) + Cardinality(T)
<1>1. Cardinality(S) \in Nat /\ Cardinality(T) \in Nat
  BY FS_CardinalityType, Zenon
<1>2. IsFiniteSet(S \cup T) /\ Cardinality(S \cup T) = Cardinality(S) + Cardinality(T) - Cardinality(S \cap T)
  BY FS_Union, Zenon
<1>3. Cardinality(S \cap T) = 0
  BY FS_EmptySet, Zenon
<1> QED
    BY <1>1, <1>2, <1>3

\* What removing one permit does to the others.
LEMMA WithoutAt ==
  ASSUME NEW s \in Seq(Nat), NEW i \in 1 .. Len(s)
  PROVE  /\ Without(s, i) \in Seq(Nat) /\ Len(Without(s, i)) = Len(s) - 1
         /\ \A j \in 1 .. i - 1 : Without(s, i)[j] = s[j]
         /\ \A j \in i .. Len(s) - 1 : Without(s, i)[j] = s[j + 1]
<1>1. Len(s) \in Nat
  OBVIOUS
<1>2. /\ SubSeq(s, 1, i - 1) \in Seq(Nat) /\ Len(SubSeq(s, 1, i - 1)) = i - 1
      /\ \A j \in 1 .. i - 1 : SubSeq(s, 1, i - 1)[j] = s[j]
  BY <1>1, SubSeqProperties
<1>3. /\ SubSeq(s, i + 1, Len(s)) \in Seq(Nat) /\ Len(SubSeq(s, i + 1, Len(s))) = Len(s) - i
      /\ \A j \in 1 .. Len(s) - i : SubSeq(s, i + 1, Len(s))[j] = s[i + j]
  BY <1>1, SubSeqProperties
<1> DEFINE a == SubSeq(s, 1, i - 1)
           b == SubSeq(s, i + 1, Len(s))
<1>4. /\ a \o b \in Seq(Nat) /\ Len(a \o b) = Len(a) + Len(b)
      /\ \A j \in 1 .. Len(a) + Len(b) : (a \o b)[j] = IF j <= Len(a) THEN a[j] ELSE b[j - Len(a)]
  <2>1. a \in Seq(Nat) /\ b \in Seq(Nat)
    BY <1>2, <1>3, Zenon
  <2> HIDE DEF a, b
  <2> QED
      BY <2>1
<1>5. Without(s, i) = a \o b
  BY Zenon DEF Without
<1>6. Len(a) = i - 1 /\ Len(b) = Len(s) - i
  BY <1>2, <1>3, Zenon
<1> DEFINE w == Without(s, i)
<1>7. /\ w \in Seq(Nat) /\ Len(w) = (i - 1) + (Len(s) - i)
      /\ \A j \in 1 .. (i - 1) + (Len(s) - i) : w[j] = IF j <= i - 1 THEN a[j] ELSE b[j - (i - 1)]
  BY <1>4, <1>5, <1>6, Zenon
<1>8. /\ \A j \in 1 .. i - 1 : a[j] = s[j]
      /\ \A j \in 1 .. Len(s) - i : b[j] = s[i + j]
  BY <1>2, <1>3, Zenon
<1> HIDE DEF w, a, b
<1>9. Len(w) = Len(s) - 1
  BY <1>1, <1>7
<1>10. ASSUME NEW j \in 1 .. i - 1 PROVE w[j] = s[j]
  <2>1. j \in 1 .. (i - 1) + (Len(s) - i) /\ j <= i - 1
    BY <1>1
  <2> QED
      BY <1>7, <1>8, <2>1, Zenon
<1>11. ASSUME NEW j \in i .. Len(s) - 1 PROVE w[j] = s[j + 1]
  <2>1. /\ j \in 1 .. (i - 1) + (Len(s) - i) /\ ~(j <= i - 1) /\ j - (i - 1) \in 1 .. Len(s) - i
        /\ i + (j - (i - 1)) = j + 1
    BY <1>1
  <2> QED
      BY <1>7, <1>8, <2>1, ZenonT(60)
<1> QED
    BY <1>7, <1>9, <1>10, <1>11, Zenon DEF w

Owns(t, i, k) == t \in Task /\ i \in 0 .. Len(held[t]) /\ k \in 1 .. Size(t, i)

\* The members of Reserved.
Membership ==
  /\ \A t, i, k : <<t, i, k>> \in Reserved <=> Owns(t, i, k)
  /\ \A x \in Reserved : \E t \in Task : \E i \in 0 .. Len(held[t]) : \E k \in 1 .. Size(t, i) : x = <<t, i, k>>

\* Membership says what Reserved is made of.
LEMMA Members == Membership
<1>1. ASSUME NEW x \in Reserved
      PROVE  \E t \in Task : \E i \in 0 .. Len(held[t]) : \E k \in 1 .. Size(t, i) : x = <<t, i, k>>
  <2>1. PICK t \in Task : x \in UNION {{<<t, i, k>> : k \in 1 .. Size(t, i)} : i \in 0 .. Len(held[t])}
    BY Zenon DEF Reserved
  <2>2. PICK i \in 0 .. Len(held[t]) : x \in {<<t, i, k>> : k \in 1 .. Size(t, i)}
    BY <2>1, Zenon
  <2> QED
      BY <2>2, Zenon
<1>2. ASSUME NEW t, NEW i, NEW k, Owns(t, i, k) PROVE <<t, i, k>> \in Reserved
  <2>1. <<t, i, k>> \in UNION {{<<t, j, h>> : h \in 1 .. Size(t, j)} : j \in 0 .. Len(held[t])}
    BY <1>2 DEF Owns
  <2> QED
      BY <1>2, <2>1 DEF Reserved, Owns
<1>3. ASSUME NEW t, NEW i, NEW k, <<t, i, k>> \in Reserved PROVE Owns(t, i, k)
  <2>1. PICK a \in Task : \E j \in 0 .. Len(held[a]) : \E h \in 1 .. Size(a, j) : <<t, i, k>> = <<a, j, h>>
    BY <1>1, <1>3, Zenon
  <2> QED
      BY <2>1, Zenon DEF Owns
<1> QED
    BY <1>1, <1>2, <1>3, Zenon DEF Membership

\* It holds of the next state as well.
LEMMA NextMembers == Membership'
BY Members, PTL

-----------------------------------------------------------------------------
\* The inductive invariant of the units.
UnitInv ==
  /\ IsFiniteSet(Reserved)
  /\ used = Cardinality(Reserved)
  /\ ~underflow

\* A step that leaves every permit's size alone leaves the units alone.
LEMMA SameUnits ==
  ASSUME held' = held, \A t \in Task : Size(t, 0)' = Size(t, 0)
  PROVE  Reserved' = Reserved
<1>1. ASSUME NEW t \in Task, NEW i \in 0 .. Len(held[t]) PROVE Size(t, i)' = Size(t, i)
  BY Zenon DEF Size
<1> QED
    BY <1>1 DEF Reserved

\* The exchange reserves the units of a permit nobody else has.
LEMMA ExchangeUnits ==
  ASSUME FdTypeOK, UnitInv, NEW t \in Task, CompareExchange(t)
  PROVE  UnitInv'
<1>0. want[t] \in Nat /\ pc[t] = "cas" /\ held' = held /\ want' = want /\ underflow' = underflow /\ used \in Nat
  BY Zenon DEF FdTypeOK, CompareExchange
<1>1. CASE used = seen[t]
  <2> DEFINE U == PermitUnits(t, 0, want[t])
  <2>1. IsFiniteSet(U) /\ Cardinality(U) = want[t]
    BY <1>0, UnitsOfPermit, Zenon
  <2>2. pc' = [pc EXCEPT ![t] = "observe"] /\ used' = used + want[t]
    BY <1>1, Zenon DEF CompareExchange, Goto
  <2>3. Size(t, 0)' = want[t] /\ Size(t, 0) = 0
    BY <1>0, <2>2, Zenon DEF Size, FdTypeOK
  <2>4. \A x \in Task, i \in Nat : (x # t \/ i # 0) => Size(x, i)' = Size(x, i)
    BY <1>0, <2>2, Zenon DEF Size, FdTypeOK
  <2> USE DEF PermitUnits
  <2>5. Reserved \cap U = {}
    BY <2>3, Members DEF Membership, Owns
  <2>6. ASSUME NEW x PROVE x \in Reserved' <=> x \in Reserved \/ x \in U
    <3>1. ASSUME x \in Reserved' PROVE x \in Reserved \/ x \in U
      <4>1. PICK a \in Task : \E i \in 0 .. Len(held[a]) : \E k \in 1 .. Size(a, i)' : x = <<a, i, k>>
        BY <1>0, <3>1, NextMembers, Zenon DEF Membership
      <4>2. PICK i \in 0 .. Len(held[a]) : \E k \in 1 .. Size(a, i)' : x = <<a, i, k>>
        BY <4>1, Zenon
      <4>3. PICK k \in 1 .. Size(a, i)' : x = <<a, i, k>>
        BY <4>2, Zenon
      <4>4. CASE a = t /\ i = 0
        BY <2>3, <4>3, <4>4, Zenon
      <4>5. CASE a # t \/ i # 0
        BY <2>4, <4>3, <4>5, Members DEF Membership, Owns
      <4> QED
          BY <4>4, <4>5, Zenon
    <3>2. ASSUME x \in Reserved PROVE x \in Reserved'
      <4>1. PICK a \in Task : \E i \in 0 .. Len(held[a]) : \E k \in 1 .. Size(a, i) : x = <<a, i, k>>
        BY <3>2, Members, Zenon DEF Membership
      <4>2. PICK i \in 0 .. Len(held[a]) : \E k \in 1 .. Size(a, i) : x = <<a, i, k>>
        BY <4>1, Zenon
      <4>3. PICK k \in 1 .. Size(a, i) : x = <<a, i, k>>
        BY <4>2, Zenon
      <4>4. a # t \/ i # 0
        BY <2>3
      <4>5. k \in 1 .. Size(a, i)'
        BY <2>4, <4>4
      <4>6. Owns(a, i, k)'
        BY <1>0, <4>5, Zenon DEF Owns
      <4> QED
          BY <4>3, <4>6, NextMembers, Zenon DEF Membership
    <3>3. ASSUME x \in U PROVE x \in Reserved'
      <4>1. PICK k \in 1 .. want[t] : x = <<t, 0, k>>
        BY <3>3, Zenon
      <4>2. Owns(t, 0, k)'
        BY <1>0, <2>3, <4>1 DEF Owns, FdTypeOK
      <4> QED
          BY <4>1, <4>2, NextMembers, Zenon DEF Membership
    <3> QED
        BY <3>1, <3>2, <3>3, Zenon
  <2>7. Reserved' = Reserved \cup U
    BY <2>6, Zenon
  <2> HIDE DEF U
  <2> QED
      BY <1>0, <2>1, <2>2, <2>5, <2>7, Apart, Zenon DEF UnitInv
<1>2. CASE used # seen[t]
  <2>1. pc' = pc /\ used' = used
    BY <1>2, Zenon DEF CompareExchange
  <2>2. Reserved' = Reserved
    BY <1>0, <2>1, SameUnits, Zenon DEF Size
  <2> QED
      BY <1>0, <2>1, <2>2, Zenon DEF UnitInv
<1> QED
    BY <1>1, <1>2, Zenon

\* The reserved units become those of the returned permit.
LEMMA GrantedUnits ==
  ASSUME FdTypeOK, UnitInv, NEW t \in Task, pc[t] \in {"observe", "raised"}, Granted(t),
         used' = used, underflow' = underflow
  PROVE  UnitInv'
<1>0. PICK n \in Nat : n = Len(held[t]) + 1
  BY DEF FdTypeOK
<1> DEFINE f == [x \in Reserved |-> IF x[1] = t /\ x[2] = 0 THEN <<t, n, x[3]>> ELSE x]
           g == [x \in Reserved' |-> IF x[1] = t /\ x[2] = n THEN <<t, 0, x[3]>> ELSE x]
<1>1. /\ held[t] \in Seq(Nat) /\ want[t] \in Nat /\ Len(held[t]) \in Nat
      /\ pc' = [pc EXCEPT ![t] = "idle"] /\ held' = [held EXCEPT ![t] = Append(@, want[t])]
  BY DEF FdTypeOK, Granted, Return, Goto
<1>2. /\ \A x \in Task : x # t => held'[x] = held[x] /\ pc'[x] = pc[x] /\ want'[x] = want[x]
      /\ held'[t] = Append(held[t], want[t]) /\ pc'[t] = "idle"
  BY <1>1, Zenon DEF FdTypeOK, Granted, Return
<1>3. /\ Len(held'[t]) = n /\ held'[t][n] = want[t] /\ \A i \in 1 .. Len(held[t]) : held'[t][i] = held[t][i]
  BY <1>0, <1>1, <1>2
<1>4. /\ Size(t, 0) = want[t] /\ Size(t, 0)' = 0 /\ Size(t, n)' = want[t]
      /\ \A i \in 1 .. Len(held[t]) : Size(t, i)' = Size(t, i)
  BY <1>0, <1>1, <1>2, <1>3 DEF Size
<1>5. \A x \in Task : x # t => \A i \in 0 .. Len(held[x]) : Size(x, i)' = Size(x, i)
  BY <1>2, Zenon DEF Size
<1>6. ASSUME NEW a \in Task, NEW i \in 0 .. Len(held[a]), NEW k \in 1 .. Size(a, i)
      PROVE  IF a = t /\ i = 0 THEN Owns(t, n, k)' ELSE Owns(a, i, k)'
  <2>1. CASE a = t /\ i = 0
    BY <1>0, <1>1, <1>3, <1>4, <2>1, SMTT(20) DEF Owns
  <2>2. CASE a = t /\ i # 0
    <3>1. i \in 1 .. Len(held[t]) /\ i \in 0 .. n
      BY <1>0, <1>1, <2>2, SMTT(20)
    <3> QED
        BY <1>3, <1>4, <2>2, <3>1, Zenon DEF Owns
  <2>3. CASE a # t
    BY <1>2, <1>5, <2>3, Zenon DEF Owns
  <2> QED
      BY <2>1, <2>2, <2>3, Zenon
<1>7. ASSUME NEW a \in Task, NEW i \in 0 .. Len(held'[a]), NEW k \in 1 .. Size(a, i)'
      PROVE  /\ IF a = t /\ i = n THEN Owns(t, 0, k) ELSE Owns(a, i, k)
             /\ ~(a = t /\ i = 0)
  <2>1. CASE a = t /\ i = n
    BY <1>0, <1>1, <1>4, <2>1 DEF Owns
  <2>2. CASE a = t /\ i # n
    <3>1. i # 0
      BY <1>4, <2>2
    <3>2. i \in 1 .. Len(held[t])
      BY <1>0, <1>1, <1>3, <2>2, <3>1, SMTT(20)
    <3> QED
        BY <1>1, <1>4, <2>2, <3>1, <3>2 DEF Owns
  <2>3. CASE a # t
    BY <1>2, <1>5, <2>3, Zenon DEF Owns
  <2> QED
      BY <2>1, <2>2, <2>3, Zenon
<1>8. n # 0 /\ \A k : <<t, n, k>> \notin Reserved
  BY <1>0, <1>1, Members DEF Membership, Owns
<1>9. f \in [Reserved -> Reserved'] /\ \A x \in Reserved : g[f[x]] = x
  <2> SUFFICES ASSUME NEW x \in Reserved PROVE f[x] \in Reserved' /\ g[f[x]] = x
    BY Zenon
  <2>1. PICK a \in Task : \E i \in 0 .. Len(held[a]) : \E k \in 1 .. Size(a, i) : x = <<a, i, k>>
    BY Members, Zenon DEF Membership
  <2>2. PICK i \in 0 .. Len(held[a]) : \E k \in 1 .. Size(a, i) : x = <<a, i, k>>
    BY <2>1, Zenon
  <2>3. PICK k \in 1 .. Size(a, i) : x = <<a, i, k>>
    BY <2>2, Zenon
  <2>4. f[x] = IF a = t /\ i = 0 THEN <<t, n, k>> ELSE x
    BY <2>3, Zenon
  <2>5. f[x] \in Reserved'
    BY <1>6, <2>3, <2>4, NextMembers, Zenon DEF Membership
  <2>6. g[f[x]] = x
    BY <1>8, <2>3, <2>4, <2>5, Zenon
  <2> QED
      BY <2>5, <2>6, Zenon
<1>10. g \in [Reserved' -> Reserved] /\ \A x \in Reserved' : f[g[x]] = x
  <2> SUFFICES ASSUME NEW x \in Reserved' PROVE g[x] \in Reserved /\ f[g[x]] = x
    BY Zenon
  <2>1. PICK a \in Task : \E i \in 0 .. Len(held'[a]) : \E k \in 1 .. Size(a, i)' : x = <<a, i, k>>
    BY NextMembers, Zenon DEF Membership
  <2>2. PICK i \in 0 .. Len(held'[a]) : \E k \in 1 .. Size(a, i)' : x = <<a, i, k>>
    BY <2>1, Zenon
  <2>3. PICK k \in 1 .. Size(a, i)' : x = <<a, i, k>>
    BY <2>2, Zenon
  <2>4. g[x] = IF a = t /\ i = n THEN <<t, 0, k>> ELSE x
    BY <2>3, Zenon
  <2>5. g[x] \in Reserved /\ ~(a = t /\ i = 0)
    BY <1>7, <2>3, <2>4, Members, Zenon DEF Membership
  <2>6. f[g[x]] = x
    BY <2>3, <2>4, <2>5, Zenon
  <2> QED
      BY <2>5, <2>6, Zenon
<1> DEFINE R == Reserved'
<1>11. IsFiniteSet(R) /\ Cardinality(R) = Cardinality(Reserved)
  <2> HIDE DEF f, g, R
  <2>1. f \in [Reserved -> R] /\ g \in [R -> Reserved]
    BY <1>9, <1>10, Zenon DEF R
  <2>2. (\A x \in Reserved : g[f[x]] = x) /\ (\A x \in R : f[g[x]] = x)
    BY <1>9, <1>10, Zenon DEF R
  <2> QED
      BY <2>1, <2>2, SameSize DEF UnitInv
<1> QED
    BY <1>11, Zenon DEF UnitInv

\* A release gives back the units of its permit, and those were reserved.
LEMMA ReleaseUnits ==
  ASSUME FdTypeOK, UnitInv, NEW t \in Task, NEW p, Release(t, p)
  PROVE  UnitInv'
<1>0. PICK s \in Seq(Nat), w \in Seq(Nat) : s = held[t] /\ w = Without(s, p)
  BY WithoutType, Zenon DEF FdTypeOK, Release
<1>1. p \in 1 .. Len(s) /\ Len(s) \in Nat /\ pc[t] = "idle" /\ held' = [held EXCEPT ![t] = w] /\ p \in Nat
  BY <1>0 DEF Release
<1>2. /\ Len(w) = Len(s) - 1
      /\ \A j \in 1 .. p - 1 : w[j] = s[j]
      /\ \A j \in p .. Len(s) - 1 : w[j] = s[j + 1]
  BY <1>0, <1>1, WithoutAt, ZenonT(60)
<1>3. PICK h \in Nat : h = s[p]
  BY <1>1
<1>4. /\ held'[t] = w /\ pc'[t] \in {"idle", "lower"} /\ used \in Nat
      /\ \A x \in Task : x # t => held'[x] = held[x] /\ pc'[x] = pc[x] /\ want'[x] = want[x]
  BY <1>1, ZenonT(60) DEF FdTypeOK, Release, Goto
<1>5. Size(t, 0) = 0 /\ Size(t, 0)' = 0
  BY <1>1, <1>4, Zenon DEF Size
<1>6. /\ \A i \in 1 .. Len(s) : Size(t, i) = s[i]
      /\ \A i \in 1 .. Len(s) - 1 : Size(t, i)' = w[i]
  BY <1>0, <1>1, <1>4 DEF Size
<1>7. \A x \in Task : x # t => \A i \in 0 .. Len(held[x]) : Size(x, i)' = Size(x, i)
  BY <1>4, Zenon DEF Size
<1> DEFINE U == PermitUnits(t, 0, h)
           R == Reserved'
           down(i) == IF i = p THEN 0 ELSE IF i > p THEN i - 1 ELSE i
           up(i) == IF i = 0 THEN p ELSE IF i >= p THEN i + 1 ELSE i
           f == [x \in Reserved |-> IF x[1] = t THEN <<t, down(x[2]), x[3]>> ELSE x]
           g == [x \in R \cup U |-> IF x[1] = t THEN <<t, up(x[2]), x[3]>> ELSE x]
<1>8. \A i \in 1 .. Len(s) : up(down(i)) = i /\ down(i) \in 0 .. Len(s) - 1
  BY <1>1
<1>9. \A i \in 0 .. Len(s) - 1 : down(up(i)) = i /\ up(i) \in 1 .. Len(s)
  BY <1>1
<1>10. \A i \in 1 .. Len(s) : i # p => down(i) \in 1 .. Len(s) - 1 /\ w[down(i)] = s[i]
  <2> SUFFICES ASSUME NEW i \in 1 .. Len(s), i # p
               PROVE  down(i) \in 1 .. Len(s) - 1 /\ w[down(i)] = s[i]
    BY Zenon
  <2>1. CASE i < p
    <3>1. down(i) = i /\ i \in 1 .. p - 1 /\ i \in 1 .. Len(s) - 1
      BY <1>1, <2>1
    <3> QED
        BY <1>2, <3>1, Zenon
  <2>2. CASE i > p
    <3>1. down(i) = i - 1 /\ i - 1 \in p .. Len(s) - 1 /\ i - 1 \in 1 .. Len(s) - 1 /\ (i - 1) + 1 = i
      BY <1>1, <2>2
    <3> QED
        BY <1>2, <3>1, Zenon
  <2> QED
      BY <1>1, <2>1, <2>2
<1>11. \A i \in 1 .. Len(s) - 1 : up(i) # p /\ s[up(i)] = w[i]
  <2> SUFFICES ASSUME NEW i \in 1 .. Len(s) - 1 PROVE up(i) # p /\ s[up(i)] = w[i]
    BY Zenon
  <2>1. up(i) # p
    BY <1>1
  <2>2. up(i) \in 1 .. Len(s) /\ down(up(i)) = i
    BY <1>1, <1>9, SMTT(20)
  <2> QED
      BY <1>10, <2>1, <2>2, Zenon
<1> HIDE DEF down, up
<1>12. ASSUME NEW x \in Reserved
       PROVE  f[x] \in R \cup U /\ g[f[x]] = x
  <2>1. PICK a \in Task : \E i \in 0 .. Len(held[a]) : \E k \in 1 .. Size(a, i) : x = <<a, i, k>>
    BY Members, Zenon DEF Membership
  <2>2. PICK i \in 0 .. Len(held[a]) : \E k \in 1 .. Size(a, i) : x = <<a, i, k>>
    BY <2>1, Zenon
  <2>3. PICK k \in 1 .. Size(a, i) : x = <<a, i, k>>
    BY <2>2, Zenon
  <2>4. CASE a # t
    <3>1. Owns(a, i, k)'
      BY <1>4, <1>7, <2>4, Zenon DEF Owns
    <3>2. x \in R
      BY <2>3, <3>1, NextMembers, Zenon DEF Membership
    <3>3. f[x] = x
      BY <2>3, <2>4, Zenon
    <3> QED
        BY <2>3, <2>4, <3>2, <3>3, Zenon
  <2>5. CASE a = t
    <3>1. i \in 1 .. Len(s)
      BY <1>0, <1>1, <1>5, <2>5
    <3>2. PICK d \in 0 .. Len(s) - 1 : d = down(i) /\ up(d) = i
      BY <1>8, <3>1, Zenon
    <3>3. f[x] = <<t, d, k>>
      BY <2>3, <2>5, <3>2, Zenon
    <3>4. k \in 1 .. s[i]
      BY <1>6, <2>5, <3>1, Zenon
    <3>5. CASE i = p
      <4>1. d = 0
        BY <3>2, <3>5, Zenon DEF down
      <4> QED
          BY <1>3, <3>2, <3>3, <3>4, <3>5, <4>1, <2>3, <2>5, Zenon DEF PermitUnits
    <3>6. CASE i # p
      <4>1. d \in 1 .. Len(s) - 1 /\ w[d] = s[i]
        BY <1>10, <3>1, <3>2, <3>6, Zenon
      <4>2. Owns(t, d, k)'
        BY <1>1, <1>2, <1>4, <1>6, <3>4, <4>1, Zenon DEF Owns
      <4>3. f[x] \in R
        BY <3>3, <4>2, NextMembers, SMTT(20) DEF Membership
      <4> QED
          BY <2>3, <2>5, <3>2, <3>3, <4>3, Zenon
    <3> QED
        BY <3>5, <3>6, Zenon
  <2> QED
      BY <2>4, <2>5, Zenon
<1>13. ASSUME NEW x \in R \cup U
       PROVE  g[x] \in Reserved /\ f[g[x]] = x
  <2>1. CASE x \in R
    <3>1. PICK a \in Task : \E i \in 0 .. Len(held'[a]) : \E k \in 1 .. Size(a, i)' : x = <<a, i, k>>
      BY <2>1, NextMembers, Zenon DEF Membership
    <3>2. PICK i \in 0 .. Len(held'[a]) : \E k \in 1 .. Size(a, i)' : x = <<a, i, k>>
      BY <3>1, Zenon
    <3>3. PICK k \in 1 .. Size(a, i)' : x = <<a, i, k>>
      BY <3>2, Zenon
    <3>4. CASE a # t
      <4>1. Owns(a, i, k)
        BY <1>4, <1>7, <3>4, Zenon DEF Owns
      <4>2. x \in Reserved
        BY <3>3, <4>1, Members, Zenon DEF Membership
      <4>3. g[x] = x
        BY <3>3, <3>4, Zenon
      <4> QED
          BY <3>3, <3>4, <4>2, <4>3, Zenon
    <3>5. CASE a = t
      <4>1. i \in 1 .. Len(s) - 1
        BY <1>1, <1>2, <1>4, <1>5, <3>5
      <4>2. PICK u \in 1 .. Len(s) : u = up(i) /\ down(u) = i /\ s[u] = w[i]
        <5>1. i \in 0 .. Len(s) - 1
          BY <1>1, <4>1
        <5> QED
            BY <1>9, <1>11, <4>1, <5>1, Zenon
      <4>3. g[x] = <<t, u, k>>
        BY <3>3, <3>5, <4>2, Zenon
      <4>4. k \in 1 .. s[u]
        BY <1>6, <3>5, <4>1, <4>2, Zenon
      <4>5. Owns(t, u, k)
        BY <1>0, <1>6, <4>2, <4>4 DEF Owns
      <4>6. g[x] \in Reserved
        BY <4>3, <4>5, Members DEF Membership
      <4> QED
          BY <3>3, <3>5, <4>2, <4>3, <4>6, Zenon
    <3> QED
        BY <3>4, <3>5, Zenon
  <2>2. CASE x \in U
    <3>1. PICK k \in 1 .. h : x = <<t, 0, k>>
      BY <2>2, Zenon DEF PermitUnits
    <3>2. up(0) = p /\ down(p) = 0
      BY Zenon DEF up, down
    <3>3. g[x] = <<t, p, k>>
      BY <3>1, <3>2, Zenon
    <3>4. Owns(t, p, k)
      BY <1>0, <1>1, <1>3, <1>6, <3>1 DEF Owns
    <3>5. g[x] \in Reserved
      BY <3>3, <3>4, Members DEF Membership
    <3> QED
        BY <3>1, <3>2, <3>3, <3>5, Zenon
  <2> QED
      BY <2>1, <2>2, Zenon
<1>14. IsFiniteSet(R \cup U) /\ Cardinality(R \cup U) = Cardinality(Reserved)
  <2>1. f \in [Reserved -> R \cup U] /\ g \in [R \cup U -> Reserved]
    BY <1>12, <1>13, Zenon
  <2>2. (\A x \in Reserved : g[f[x]] = x) /\ (\A x \in R \cup U : f[g[x]] = x)
    BY <1>12, <1>13, Zenon
  <2> DEFINE W == R \cup U
  <2>3. f \in [Reserved -> W] /\ g \in [W -> Reserved] /\ (\A x \in W : f[g[x]] = x)
        /\ (\A x \in Reserved : g[f[x]] = x) /\ IsFiniteSet(Reserved)
    BY <2>1, <2>2, Zenon DEF UnitInv
  <2> HIDE DEF f, g, W, R, U
  <2>4. f \in Injection(Reserved, W)
    BY <2>3 DEF Injection, IsInjective
  <2>5. f \in Surjection(Reserved, W)
    BY <2>3, Zenon DEF Surjection
  <2>6. ExistsBijection(Reserved, W)
    BY <2>4, <2>5, Zenon DEF ExistsBijection, Bijection
  <2>7. IsFiniteSet(W) /\ Cardinality(W) = Cardinality(Reserved)
    BY <2>3, <2>6, FS_Bijection, Zenon
  <2> QED
      BY <2>7, Zenon DEF W
<1>15. R \cap U = {}
  BY <1>5, NextMembers DEF Membership, Owns, PermitUnits
<1>16. IsFiniteSet(R) /\ IsFiniteSet(U) /\ Cardinality(U) = h
  <2>1. IsFiniteSet(U) /\ Cardinality(U) = h
    BY UnitsOfPermit, Zenon
  <2> HIDE DEF R, U
  <2> QED
      BY <1>14, <2>1, FS_Subset, Zenon
<1> HIDE DEF R, U
<1>17. Cardinality(R) \in Nat /\ Cardinality(R) + h = used
  BY <1>14, <1>15, <1>16, Apart, Zenon DEF UnitInv
<1>18. h <= used /\ used - h = Cardinality(R)
  BY <1>4, <1>17
<1>19. used' = used - h /\ underflow' = underflow
  BY <1>0, <1>3, <1>18, Zenon DEF Release
<1> QED
    BY <1>16, <1>18, <1>19, Zenon DEF UnitInv, R

\* The merged permit has the units of both.
LEMMA MergeUnits ==
  ASSUME FdTypeOK, UnitInv, NEW t \in Task, Merge(t)
  PROVE  UnitInv'
<1>0. PICK a \in Nat, b \in Nat : a = held[t][1] /\ b = held[t][2]
  <2>1. held[t] \in Seq(Nat) /\ Len(held[t]) = 2
    BY Zenon DEF FdTypeOK, Merge
  <2>2. held[t][1] \in Nat /\ held[t][2] \in Nat
    BY <2>1
  <2> QED
      BY <2>2, Zenon
<1>1. /\ Len(held[t]) = 2 /\ held'[t] = <<a + b>> /\ pc[t] = "idle" /\ pc' = pc /\ want' = want
      /\ \A x \in Task : x # t => held'[x] = held[x]
  BY <1>0, Zenon DEF FdTypeOK, Merge
<1>2. /\ Size(t, 0) = 0 /\ Size(t, 1) = a /\ Size(t, 2) = b /\ Size(t, 0)' = 0 /\ Size(t, 1)' = a + b
      /\ Len(held'[t]) = 1
  BY <1>0, <1>1 DEF Size
<1>3. \A x \in Task : x # t => \A i \in 0 .. Len(held[x]) : Size(x, i)' = Size(x, i)
  BY <1>1, Zenon DEF Size
<1> DEFINE R == Reserved'
           f == [x \in Reserved |-> IF x[1] = t /\ x[2] = 2 THEN <<t, 1, a + x[3]>> ELSE x]
           g == [x \in R |-> IF x[1] = t /\ x[3] > a THEN <<t, 2, x[3] - a>> ELSE x]
<1>4. ASSUME NEW x \in Reserved
      PROVE  f[x] \in R /\ g[f[x]] = x
  <2>1. PICK c \in Task : \E i \in 0 .. Len(held[c]) : \E k \in 1 .. Size(c, i) : x = <<c, i, k>>
    BY Members, Zenon DEF Membership
  <2>2. PICK i \in 0 .. Len(held[c]) : \E k \in 1 .. Size(c, i) : x = <<c, i, k>>
    BY <2>1, Zenon
  <2>3. PICK k \in 1 .. Size(c, i) : x = <<c, i, k>>
    BY <2>2, Zenon
  <2>4. CASE c # t
    <3>1. Owns(c, i, k)'
      BY <1>1, <1>3, <2>4, Zenon DEF Owns
    <3>2. x \in R /\ f[x] = x
      BY <2>3, <2>4, <3>1, NextMembers, Zenon DEF Membership
    <3> QED
        BY <2>3, <2>4, <3>2, Zenon
  <2>5. CASE c = t /\ i = 1
    <3>1. k \in 1 .. a
      BY <1>2, <2>5, Zenon
    <3>2. Owns(t, 1, k)'
      BY <1>2, <3>1 DEF Owns
    <3>3. x \in R /\ f[x] = x
      BY <2>3, <2>5, <3>2, NextMembers, SMTT(20) DEF Membership
    <3> QED
        BY <2>3, <2>5, <3>1, <3>3
  <2>6. CASE c = t /\ i = 2
    <3>1. k \in 1 .. b /\ a + k \in 1 .. a + b /\ a + k > a /\ (a + k) - a = k
      BY <1>2, <2>6
    <3>2. PICK m \in 1 .. a + b : m = a + k /\ m > a /\ m - a = k
      BY <3>1, Zenon
    <3>3. Owns(t, 1, m)'
      BY <1>2, <3>2 DEF Owns
    <3>4. f[x] = <<t, 1, m>>
      BY <2>3, <2>6, <3>2, Zenon
    <3>5. f[x] \in R
      BY <3>3, <3>4, NextMembers, SMTT(20) DEF Membership
    <3> QED
        BY <2>3, <2>6, <3>2, <3>4, <3>5, Zenon
  <2>7. CASE c = t
    <3>0. i # 0
      <4>1. Size(t, 0) = 0 /\ k \in 1 .. Size(t, i)
        BY <1>2, <2>7, Zenon
      <4> QED
          BY <4>1
    <3>1. i \in 0 .. 2 /\ i # 0
      BY <1>1, <2>7, <3>0, Zenon
    <3>2. i = 1 \/ i = 2
      BY <3>1, SMTT(20)
    <3> QED
        BY <2>5, <2>6, <2>7, <3>2, Zenon
  <2> QED
      BY <2>4, <2>7, Zenon
<1>5. ASSUME NEW x \in R
      PROVE  g[x] \in Reserved /\ f[g[x]] = x
  <2>1. PICK c \in Task : \E i \in 0 .. Len(held'[c]) : \E k \in 1 .. Size(c, i)' : x = <<c, i, k>>
    BY NextMembers, Zenon DEF Membership
  <2>2. PICK i \in 0 .. Len(held'[c]) : \E k \in 1 .. Size(c, i)' : x = <<c, i, k>>
    BY <2>1, Zenon
  <2>3. PICK k \in 1 .. Size(c, i)' : x = <<c, i, k>>
    BY <2>2, Zenon
  <2>4. CASE c # t
    <3>1. Owns(c, i, k)
      BY <1>1, <1>3, <2>4, Zenon DEF Owns
    <3>2. x \in Reserved /\ g[x] = x
      BY <2>3, <2>4, <3>1, Members, Zenon DEF Membership
    <3> QED
        BY <2>3, <2>4, <3>2, Zenon
  <2>5. CASE c = t
    <3>0. i \in 0 .. 1 /\ i # 0
      <4>1. Size(t, 0)' = 0 /\ k \in 1 .. Size(t, i)' /\ Len(held'[t]) = 1 /\ i \in 0 .. Len(held'[t])
        BY <1>2, <2>5, Zenon
      <4> QED
          BY <4>1
    <3>1. i = 1 /\ k \in 1 .. a + b
      BY <1>2, <2>5, <3>0
    <3>2. CASE k > a
      <4>1. PICK m \in 1 .. b : m = k - a /\ a + m = k
        BY <3>1, <3>2
      <4>2. Owns(t, 2, m)
        BY <1>1, <1>2, <4>1 DEF Owns
      <4>3. g[x] = <<t, 2, m>>
        BY <2>3, <2>5, <3>2, <4>1, Zenon
      <4>4. g[x] \in Reserved
        BY <4>2, <4>3, Members DEF Membership
      <4> QED
          BY <2>3, <2>5, <3>1, <4>1, <4>3, <4>4, Zenon
    <3>3. CASE ~(k > a)
      <4>1. k \in 1 .. a
        BY <3>1, <3>3
      <4>2. Owns(t, 1, k)
        BY <1>1, <1>2, <4>1 DEF Owns
      <4>3. x \in Reserved /\ g[x] = x
        BY <2>3, <2>5, <3>1, <3>3, <4>2, Members, Zenon DEF Membership
      <4> QED
          BY <2>3, <3>1, <4>3
    <3> QED
        BY <3>2, <3>3, Zenon
  <2> QED
      BY <2>4, <2>5, Zenon
<1>6. IsFiniteSet(R) /\ Cardinality(R) = Cardinality(Reserved)
  <2>1. /\ f \in [Reserved -> R] /\ g \in [R -> Reserved] /\ IsFiniteSet(Reserved)
        /\ (\A x \in Reserved : g[f[x]] = x) /\ (\A x \in R : f[g[x]] = x)
    BY <1>4, <1>5, Zenon DEF UnitInv
  <2> HIDE DEF f, g, R
  <2> QED
      BY <2>1, SameSize, SMTT(20)
<1>7. used' = used /\ underflow' = underflow
  BY Zenon DEF Merge
<1> QED
    BY <1>6, <1>7, Zenon DEF UnitInv, R

\* Every other step leaves the permits alone.
LEMMA UnitStep == FdTypeOK /\ UnitInv /\ [FdNext]_fdVars => UnitInv'
<1> SUFFICES ASSUME FdTypeOK, UnitInv, [FdNext]_fdVars PROVE UnitInv'
    BY Zenon
<1> DEFINE Quiet == used' = used /\ underflow' = underflow /\ held' = held
                    /\ \A t \in Task : Size(t, 0)' = Size(t, 0)
<1>1. ASSUME Quiet PROVE UnitInv'
  BY <1>1, SameUnits, Zenon DEF UnitInv
<1>2. ASSUME NEW t \in Task, Load(t) \/ Deny(t) \/ CountWaiter(t) \/ Enable(t) \/ Woken(t) \/ Cancel(t)
                             \/ Lower(t) \/ LoweredNotify(t) \/ LookForWaiters(t) \/ NotifyReleased(t)
      PROVE  Quiet
  <2>1. used' = used /\ underflow' = underflow /\ held' = held
    BY <1>2, Zenon DEF Load, Deny, CountWaiter, Enable, Woken, Cancel, Lower, LoweredNotify, LookForWaiters,
                NotifyReleased
  <2>2. /\ pc[t] \notin {"observe", "raised"} /\ pc'[t] \notin {"observe", "raised"}
        /\ \A x \in Task : x # t => pc'[x] = pc[x] /\ want'[x] = want[x]
    BY <1>2 DEF Load, Deny, CountWaiter, Enable, Woken, Cancel, Lower, LoweredNotify, LookForWaiters,
                NotifyReleased, Return, Goto, FdTypeOK
  <2> QED
      BY <2>1, <2>2, Zenon DEF Size
<1>3. ASSUME NEW t \in Task, NEW u \in Units, NEW m \in {"try", "first"}, Begin(t, u, m) PROVE Quiet
  BY <1>3, Zenon DEF Begin, Goto, FdTypeOK, Size
<1>4. ASSUME NEW t \in Task, ObserveAcquired(t) PROVE UnitInv'
  <2>1. CASE Granted(t)
    BY <1>4, <2>1, GrantedUnits, Zenon DEF ObserveAcquired
  <2>2. CASE ~Granted(t)
    BY <1>1, <1>4, <2>2, Zenon DEF ObserveAcquired, Goto, FdTypeOK, Size
  <2> QED
      BY <2>1, <2>2, Zenon
<1>5. ASSUME NEW t \in Task, RaisedNotify(t) PROVE UnitInv'
  BY <1>5, GrantedUnits, Zenon DEF RaisedNotify
<1>6. CASE Watch \/ UNCHANGED fdVars
  BY <1>1, <1>6, Zenon DEF Watch, WatchEnable, WatchCheck, WatchWoken, fdVars, callers, Size
<1> QED
    BY <1>1, <1>2, <1>3, <1>4, <1>5, <1>6, ExchangeUnits, ReleaseUnits, MergeUnits, Zenon
       DEF FdNext, TaskStep, Proceed

\* The in-use count is the number of units behind live permits, and it never
\* underflows, in every interleaving.
THEOREM UnitsAreConserved == FdSpec => []UnitsConserved
<1>1. FdInit => UnitInv
  <2> SUFFICES ASSUME FdInit PROVE UnitInv
      BY Zenon
  <2>1. \A t \in Task : Len(held[t]) = 0 /\ Size(t, 0) = 0
    BY Zenon DEF FdInit, Size
  <2>2. Reserved = {}
    BY <2>1, Members DEF Membership
  <2> QED
      BY <2>2, FS_EmptySet, Zenon DEF UnitInv, FdInit
<1>2. FdInv => FdTypeOK
  BY Zenon DEF FdInv
<1>3. UnitInv => UnitsConserved
  BY Zenon DEF UnitInv, UnitsConserved
<1> QED
    BY <1>1, <1>2, <1>3, UnitStep, FdInvariant, PTL DEF FdSpec

-----------------------------------------------------------------------------
(* The adaptive controller *)

\* The counters the controller keeps agree with what the pools enforce: the
\* ticks since the knob's last change are the ticks the ceiling was quiet.
DwellInv ==
    /\ value \in [Knob -> Int] /\ enforced = value
    /\ since \in [Knob -> 0 .. DWELL_TICKS] /\ quiet = since

\* Knobs have whole positive bounds.
LEMMA BoundsAreWhole ==
    ASSUME NEW k \in Knob
    PROVE  Startup[k] \in Nat \ {0} /\ Floor(k) \in Nat \ {0} /\ Step(k) \in Nat
<1>1. Startup[k] \in Nat \ {0} /\ Default[k] \in Nat \ {0} /\ Quantum[k] \in Nat \ {0}
  BY AdaptiveConstants, Zenon
<1>2. Floor(k) \in Nat \ {0} BY <1>1 DEF Floor, Most, Least
<1>3. (Startup[k] \div 4) \in Nat BY <1>1
<1>4. ((Startup[k] \div 4) \div Quantum[k]) \in Nat BY <1>1, <1>3
<1>5. ((Startup[k] \div 4) \div Quantum[k]) * Quantum[k] \in Nat BY <1>1, <1>4
<1> QED BY <1>1, <1>2, <1>5, Zenon DEF Step, Most

\* What one tick of the controller does to a knob.
Next1(k) == IF published = "Critical" THEN Clamp(k) ELSE TickKnob(k)

\* A tick that moves a ceiling restarts its count, and outside critical pressure
\* the dwell was over.
LEMMA KnobTick ==
    ASSUME DwellInv, NEW k \in Knob
    PROVE  /\ Next1(k).value \in Int
           /\ Next1(k).since = IF Next1(k).value # value[k] THEN 0 ELSE Least(since[k] + 1, DWELL_TICKS)
           /\ Next1(k).value # value[k] /\ published # "Critical" => since[k] + 1 >= DWELL_TICKS
<1>1. value[k] \in Int /\ since[k] \in 0 .. DWELL_TICKS BY Zenon DEF DwellInv
<1>2. Startup[k] \in Nat /\ Floor(k) \in Nat /\ Step(k) \in Nat BY BoundsAreWhole, Zenon
<1>3. Target(k) \in Int BY <1>1, <1>2, SMTT(20) DEF Target, Most, Least
<1>4. CASE published = "Critical"
  BY <1>1, <1>2, <1>4 DEF Next1, Clamp
<1>5. CASE published # "Critical"
  BY <1>1, <1>3, <1>5, Zenon DEF Next1, TickKnob, DwellElapsed
<1> QED BY <1>4, <1>5, Zenon

\* The controller's tick keeps the counters together.
LEMMA TickKeepsDwell ==
    ASSUME DwellInv, ControllerTick
    PROVE  /\ DwellInv'
           /\ \A k \in Knob : enforced'[k] # enforced[k] /\ published # "Critical" => quiet[k] + 1 >= DWELL_TICKS
<1>1. /\ value' = [k \in Knob |-> Next1(k).value]
      /\ since' = [k \in Knob |-> Next1(k).since]
      /\ enforced' = [k \in Knob |-> IF Next1(k).value # value[k] THEN Next1(k).value ELSE enforced[k]]
      /\ quiet' = [k \in Knob |-> IF Next1(k).value # value[k] THEN 0 ELSE Least(quiet[k] + 1, DWELL_TICKS)]
  BY Zenon DEF ControllerTick, Next1
<1>2. \A k \in Knob : enforced'[k] = value'[k] /\ quiet'[k] = since'[k]
  BY <1>1, KnobTick, Zenon DEF DwellInv
<1>3. value' \in [Knob -> Int] BY <1>1, KnobTick, Zenon
<1>4. since' \in [Knob -> 0 .. DWELL_TICKS]
  <2> SUFFICES ASSUME NEW k \in Knob PROVE Next1(k).since \in 0 .. DWELL_TICKS BY <1>1, Zenon
  <2>1. since[k] \in 0 .. DWELL_TICKS BY Zenon DEF DwellInv
  <2>2. Least(since[k] + 1, DWELL_TICKS) \in 0 .. DWELL_TICKS BY <2>1 DEF Least, DWELL_TICKS
  <2> QED BY <2>2, KnobTick DEF DWELL_TICKS
<1>5. enforced' = value' /\ quiet' = since' BY <1>1, <1>2, Zenon
<1>6. ASSUME NEW k \in Knob, enforced'[k] # enforced[k], published # "Critical"
      PROVE  quiet[k] + 1 >= DWELL_TICKS
  <2>1. Next1(k).value # value[k] BY <1>1, <1>6, Zenon
  <2> QED BY <1>6, <2>1, KnobTick, Zenon DEF DwellInv
<1> QED BY <1>3, <1>4, <1>5, <1>6, Zenon DEF DwellInv

\* Outside critical pressure a ceiling that moved stays for the whole dwell,
\* whatever moved it.
THEOREM DwellIsKept == AdaptiveSpec => DwellKept
<1>1. AdaptiveInit => DwellInv
  BY AdaptiveConstants, SMTT(20) DEF AdaptiveInit, DwellInv, DWELL_TICKS
<1>2. ASSUME DwellInv, [AdaptiveNext]_adaptiveVars
      PROVE  /\ DwellInv'
             /\ [\A k \in Knob : enforced'[k] # enforced[k] /\ published # "Critical" =>
                   quiet[k] + 1 >= DWELL_TICKS]_adaptiveVars
  <2>1. CASE ControllerTick BY <1>2, <2>1, TickKeepsDwell, Zenon
  <2>2. CASE UNCHANGED knobs
    <3>1. value' = value /\ enforced' = enforced /\ since' = since /\ quiet' = quiet BY <2>2, Zenon
         DEF knobs
    <3> QED BY <1>2, <3>1, Zenon DEF DwellInv
  <2> QED BY <1>2, <2>1, <2>2, Zenon DEF AdaptiveNext, Demand, FdPressure, MemoryUse, Sample, SampleUnreadable,
                                  Publish, adaptiveVars
<1>3. DwellInv /\ [AdaptiveNext]_adaptiveVars =>
        DwellInv' /\ [\A k \in Knob : enforced'[k] # enforced[k] /\ published # "Critical" =>
                        quiet[k] + 1 >= DWELL_TICKS]_adaptiveVars
  BY <1>2, Zenon
<1> QED BY <1>1, <1>3, PTL DEF AdaptiveSpec, DwellKept

\* A knob's floor is within its bounds, and a tick stays within them.
LEMMA TickStaysInBounds ==
    ASSUME AdaptiveTypeOK, NEW k \in Knob
    PROVE  /\ Next1(k).value \in Floor(k) .. Startup[k]
           /\ Next1(k).above \in Nat /\ Next1(k).below \in Nat /\ Next1(k).since \in 0 .. DWELL_TICKS
<1>1. /\ value[k] \in Floor(k) .. Startup[k] /\ above[k] \in Nat /\ below[k] \in Nat
      /\ since[k] \in 0 .. DWELL_TICKS
  BY Zenon DEF AdaptiveTypeOK
<1>2. Startup[k] \in Nat /\ Floor(k) \in Nat /\ Step(k) \in Nat BY BoundsAreWhole, Zenon
<1>3. Floor(k) \in Floor(k) .. Startup[k] BY <1>1, <1>2
<1>4. Target(k) \in Floor(k) .. Startup[k] BY <1>1, <1>2 DEF Target, Most, Least
<1>5. Least(since[k] + 1, DWELL_TICKS) \in 0 .. DWELL_TICKS BY <1>1 DEF Least, DWELL_TICKS
<1>6. Above(k) \in Nat /\ Below(k) \in Nat BY <1>1, SMTT(20) DEF Above, Below
<1>7. CASE published = "Critical" BY <1>3, <1>5, <1>7 DEF Next1, Clamp, DWELL_TICKS
<1>8. CASE published # "Critical"
  <2>1. Next1(k) = TickKnob(k) BY <1>8, Zenon DEF Next1
  <2>2. /\ TickKnob(k).value \in {Target(k), value[k]} /\ TickKnob(k).above \in {0, Above(k)}
        /\ TickKnob(k).below \in {0, Below(k)} /\ TickKnob(k).since \in {0, Least(since[k] + 1, DWELL_TICKS)}
    BY Zenon DEF TickKnob
  <2> QED BY <1>1, <1>4, <1>5, <1>6, <2>1, <2>2 DEF DWELL_TICKS
<1> QED BY <1>7, <1>8, Zenon

\* In every state each ceiling lies between its floor and the startup value, and
\* is what the pool enforces; the other variables keep their types.
THEOREM CeilingsStayInBounds == AdaptiveSpec => []AdaptiveTypeOK
<1>1. ASSUME AdaptiveInit PROVE AdaptiveTypeOK
  <2>1. ASSUME NEW k \in Knob PROVE Startup[k] \in Floor(k) .. Startup[k]
    <3>1. Startup[k] \in Nat \ {0} /\ Default[k] \in Nat \ {0} BY AdaptiveConstants, Zenon
    <3> QED BY <3>1 DEF Floor, Most, Least
  <2> QED BY <1>1, <2>1 DEF AdaptiveInit, AdaptiveTypeOK, DWELL_TICKS
<1>2. ASSUME AdaptiveTypeOK, [AdaptiveNext]_adaptiveVars PROVE AdaptiveTypeOK'
  <2>1. CASE ControllerTick
    <3>1. /\ value' = [k \in Knob |-> Next1(k).value]
          /\ above' = [k \in Knob |-> Next1(k).above] /\ below' = [k \in Knob |-> Next1(k).below]
          /\ since' = [k \in Knob |-> Next1(k).since]
          /\ enforced' = [k \in Knob |-> IF Next1(k).value # value[k] THEN Next1(k).value ELSE enforced[k]]
          /\ busy' = busy /\ fd' = fd /\ memory' = memory /\ published' = published
      BY <2>1, Zenon DEF ControllerTick, Next1, monitor
    <3>2. \A k \in Knob : value'[k] \in Floor(k) .. Startup[k] /\ enforced'[k] = value'[k]
      BY <1>2, <3>1, TickStaysInBounds, Zenon DEF AdaptiveTypeOK
    <3>3. above' \in [Knob -> Nat] /\ below' \in [Knob -> Nat] /\ since' \in [Knob -> 0 .. DWELL_TICKS]
      BY <1>2, <3>1, TickStaysInBounds, Zenon
    <3> QED BY <1>2, <3>1, <3>2, <3>3, Zenon DEF AdaptiveTypeOK
  <2>2. CASE UNCHANGED knobs
    <3>1. value' = value /\ enforced' = enforced /\ since' = since /\ above' = above /\ below' = below
      BY <2>2, Zenon DEF knobs
    <3>2. busy' \in Nat \/ ControllerTick
      <4>1. ASSUME NEW n \in LoadLevel PROVE Least(n, Most(enforced[Gate], busy)) \in Nat
        <5>1. n \in Nat /\ busy \in Nat /\ Gate \in Knob BY <1>2, AdaptiveConstants, Zenon
             DEF AdaptiveTypeOK
        <5>2. enforced[Gate] \in Floor(Gate) .. Startup[Gate] BY <1>2, <5>1, Zenon DEF AdaptiveTypeOK
        <5>3. Floor(Gate) \in Nat /\ Startup[Gate] \in Nat BY <5>1, BoundsAreWhole, Zenon
        <5> QED BY <5>1, <5>2, <5>3 DEF Least, Most
      <4> QED BY <1>2, <4>1, Zenon DEF AdaptiveNext, Demand, FdPressure, MemoryUse, Sample, SampleUnreadable,
                                Publish, adaptiveVars, AdaptiveTypeOK
    <3>3. fd' \in {"Normal", "Pressure"} \/ ControllerTick
      BY <1>2, Zenon
           DEF AdaptiveNext, Demand, FdPressure, MemoryUse, Sample, SampleUnreadable, Publish,
                  adaptiveVars, monitor, AdaptiveTypeOK
    <3>4. (memory' \in {"Normal", "Pressure", "Critical"} /\ published' \in {"Normal", "Pressure", "Critical"})
          \/ ControllerTick
      <4>1. ASSUME NEW a \in {"Normal", "Pressure", "Critical"}, NEW b \in {"Normal", "Pressure", "Critical"}
            PROVE  Worse(a, b) \in {"Normal", "Pressure", "Critical"}
        BY Zenon DEF Worse
      <4>2. Classify(memory, memoryUsed) \in {"Normal", "Pressure", "Critical"}
        BY <1>2, Zenon DEF Classify, AdaptiveTypeOK
      <4> QED BY <1>2, <4>1, <4>2 DEF AdaptiveNext, Demand, FdPressure, MemoryUse, Sample, SampleUnreadable,
                                Publish, adaptiveVars, monitor, AdaptiveTypeOK
    <3> QED BY <1>2, <2>1, <3>1, <3>2, <3>3, <3>4, Zenon DEF AdaptiveTypeOK
  <2> QED BY <1>2, <2>1, <2>2, Zenon
       DEF AdaptiveNext, Demand, FdPressure, MemoryUse, Sample, SampleUnreadable,
                                  Publish, adaptiveVars
<1>3. AdaptiveTypeOK /\ [AdaptiveNext]_adaptiveVars => AdaptiveTypeOK' BY <1>2, Zenon
<1> QED BY <1>1, <1>3, PTL DEF AdaptiveSpec
=============================================================================
