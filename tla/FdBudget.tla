------------------------------ MODULE FdBudget ------------------------------
(***************************************************************************)
(* The process-wide descriptor budget, src/transport/fd_budget.rs: a        *)
(* compare-exchange reservation loop, RAII release, a hysteresis pressure   *)
(* flag and two Notify objects (released, pressure_changed).                *)
(*                                                                          *)
(* Tasks call try_acquire (never waits) or acquire (parks on `released`);   *)
(* one watcher runs wait_for_pressure_change in a loop, as the warm pool's  *)
(* maintainer does.  One action per atomic access or Notify call, under     *)
(* sequentially consistent interleaving.                                    *)
(***************************************************************************)
EXTENDS Integers, Sequences, FiniteSets

CONSTANTS
  Task,        \* callers of try_acquire / acquire
  Units,       \* unit counts they ask for (1, 2 and 4 in the code)
  Capacity,    \* FdBudgetInner::capacity
  MaxPermits   \* bound: permits one task holds at a time

ASSUME BudgetConstants ==
  /\ Capacity \in Nat \ {0}
  /\ Units \subseteq Nat \ {0}
  /\ MaxPermits \in Nat

VARIABLES
  used,         \* AtomicU64
  pressure,     \* under_pressure
  waiters,      \* the tasks counted in `waiters`; the code only tests it for 0
  registered,   \* the tasks enabled on `released` and not yet notified
  pc,           \* where each task stands
  mode,         \* which attempt is running: "try", "first" or "recheck"
  want,         \* units of the running operation
  seen,         \* the task's last observation of used (current, next, remaining)
  held,         \* the task's permits, as a sequence of unit counts
  underflow,    \* underflows > 0
  watch         \* the watcher: [pc, observed, registered]

callers == <<pc, mode, want, seen, held>>
fdVars == <<used, pressure, waiters, registered, callers, underflow, watch>>

\* FdBudget::new: 15/16 and 13/16 of capacity, clamped.
HighWatermark == LET h == (Capacity * 15) \div 16 IN IF h < 1 THEN 1 ELSE h
LowWatermark ==
  LET l == (Capacity * 13) \div 16 IN IF l < HighWatermark THEN l ELSE HighWatermark

Pcs ==
  {"idle", "load", "cas", "observe", "raised",     \* try_acquire
   "count", "enable", "parked",                    \* acquire
   "lower", "lowered", "look", "notify"}           \* release

FdInit ==
  /\ used = 0
  /\ pressure = FALSE
  /\ waiters = {}
  /\ registered = {}
  /\ pc = [t \in Task |-> "idle"]
  /\ mode = [t \in Task |-> "try"]
  /\ want = [t \in Task |-> 0]
  /\ seen = [t \in Task |-> 0]
  /\ held = [t \in Task |-> <<>>]
  /\ underflow = FALSE
  /\ watch = [pc |-> "enable", observed |-> FALSE, registered |-> FALSE]

Goto(t, where) == pc' = [pc EXCEPT ![t] = where]
Saw(t, value) == seen' = [seen EXCEPT ![t] = value]

\* The call returns and its locals are gone.
Return(t) ==
  /\ Goto(t, "idle")
  /\ mode' = [mode EXCEPT ![t] = "try"]
  /\ want' = [want EXCEPT ![t] = 0]
  /\ seen' = [seen EXCEPT ![t] = 0]

\* A call of try_acquire ("try") or acquire ("first").
Begin(t, u, m) ==
  /\ pc[t] = "idle"
  /\ Len(held[t]) < MaxPermits
  /\ Goto(t, "load")
  /\ mode' = [mode EXCEPT ![t] = m]
  /\ want' = [want EXCEPT ![t] = u]
  /\ UNCHANGED <<used, pressure, waiters, registered, seen, held, underflow, watch>>

\* try_acquire: used.load.
Load(t) ==
  /\ pc[t] = "load"
  /\ Goto(t, "cas")
  /\ Saw(t, used)
  /\ UNCHANGED <<used, pressure, waiters, registered, mode, want, held, underflow, watch>>

\* A refused attempt: try_acquire returns None, acquire goes on waiting.
Deny(t) ==
  /\ pc[t] = "cas"
  /\ seen[t] + want[t] > Capacity
  /\ \/ mode[t] = "try" /\ Return(t)
     \/ mode[t] = "first" /\ Goto(t, "count") /\ UNCHANGED <<mode, want, seen>>
     \/ mode[t] = "recheck" /\ Goto(t, "parked") /\ UNCHANGED <<mode, want, seen>>
  /\ UNCHANGED <<used, pressure, waiters, registered, held, underflow, watch>>

\* compare_exchange_weak; a failure retries the checks with the value it saw.
CompareExchange(t) ==
  /\ pc[t] = "cas"
  /\ seen[t] + want[t] <= Capacity
  /\ IF used = seen[t]
     THEN /\ used' = seen[t] + want[t]
          /\ Saw(t, seen[t] + want[t])
          /\ Goto(t, "observe")
     ELSE /\ Saw(t, used)
          /\ UNCHANGED <<used, pc>>
  /\ UNCHANGED <<pressure, waiters, registered, mode, want, held, underflow, watch>>

\* The permit is returned; a waiting acquire drops its WaiterCount and Notified.
Granted(t) ==
  /\ Return(t)
  /\ held' = [held EXCEPT ![t] = Append(@, want[t])]
  /\ waiters' = waiters \ {t}
  /\ registered' = registered \ {t}

\* observe_acquired: swap the flag on at or above the high watermark.
ObserveAcquired(t) ==
  /\ pc[t] = "observe"
  /\ IF seen[t] >= HighWatermark /\ ~pressure
     THEN /\ Goto(t, "raised")
          /\ pressure' = TRUE
          /\ UNCHANGED <<held, waiters, registered, mode, want, seen>>
     ELSE Granted(t) /\ UNCHANGED pressure
  /\ UNCHANGED <<used, underflow, watch>>

\* pressure_changed.notify_waiters after the swap in observe_acquired.
RaisedNotify(t) ==
  /\ pc[t] = "raised"
  /\ Granted(t)
  /\ watch' = [watch EXCEPT !.registered = FALSE]
  /\ UNCHANGED <<used, pressure, underflow>>

\* acquire: waiters.fetch_add after a failed first attempt.
CountWaiter(t) ==
  /\ pc[t] = "count"
  /\ Goto(t, "enable")
  /\ waiters' = waiters \cup {t}
  /\ UNCHANGED <<used, pressure, registered, mode, want, seen, held, underflow, watch>>

\* Mutant: park straight after registering, without the second attempt.
EnableAndPark(t) ==
  /\ pc[t] = "enable"
  /\ Goto(t, "parked")
  /\ registered' = registered \cup {t}
  /\ UNCHANGED <<used, pressure, waiters, mode, want, seen, held, underflow, watch>>

\* acquire: notified.enable(), then the second attempt.
Enable(t) ==
  /\ pc[t] = "enable"
  /\ Goto(t, "load")
  /\ mode' = [mode EXCEPT ![t] = "recheck"]
  /\ registered' = registered \cup {t}
  /\ UNCHANGED <<used, pressure, waiters, want, seen, held, underflow, watch>>

\* notified.await returned: the WaiterCount drops and the loop starts over.
Woken(t) ==
  /\ pc[t] = "parked"
  /\ t \notin registered
  /\ Goto(t, "load")
  /\ mode' = [mode EXCEPT ![t] = "first"]
  /\ waiters' = waiters \ {t}
  /\ UNCHANGED <<used, pressure, registered, want, seen, held, underflow, watch>>

\* The acquire future is dropped while parked.
Cancel(t) ==
  /\ pc[t] = "parked"
  /\ Return(t)
  /\ waiters' = waiters \ {t}
  /\ registered' = registered \ {t}
  /\ UNCHANGED <<used, pressure, held, underflow, watch>>

Without(s, i) == SubSeq(s, 1, i - 1) \o SubSeq(s, i + 1, Len(s))

\* release: the checked subtraction; an underflow is recorded and nothing else.
Release(t, i) ==
  /\ pc[t] = "idle"
  /\ i \in 1 .. Len(held[t])
  /\ held' = [held EXCEPT ![t] = Without(@, i)]
  /\ IF held[t][i] <= used
     THEN /\ used' = used - held[t][i]
          /\ Saw(t, used - held[t][i])
          /\ Goto(t, "lower")
          /\ UNCHANGED underflow
     ELSE /\ underflow' = TRUE
          /\ UNCHANGED <<used, seen, pc>>
  /\ UNCHANGED <<pressure, waiters, registered, mode, want, watch>>

\* release: swap the flag off at or below the low watermark.
Lower(t) ==
  /\ pc[t] = "lower"
  /\ IF seen[t] <= LowWatermark /\ pressure
     THEN pressure' = FALSE /\ Goto(t, "lowered")
     ELSE Goto(t, "look") /\ UNCHANGED pressure
  /\ UNCHANGED <<used, waiters, registered, mode, want, seen, held, underflow, watch>>

\* Mutant: the watchers of the flag are not told that it went down.
LoweredSilently(t) ==
  /\ pc[t] = "lowered"
  /\ Goto(t, "look")
  /\ UNCHANGED <<used, pressure, waiters, registered, mode, want, seen, held, underflow, watch>>

\* pressure_changed.notify_waiters after the swap in release.
LoweredNotify(t) ==
  /\ pc[t] = "lowered"
  /\ Goto(t, "look")
  /\ watch' = [watch EXCEPT !.registered = FALSE]
  /\ UNCHANGED <<used, pressure, waiters, registered, mode, want, seen, held, underflow>>

\* Mutant: the releaser spins until the waiters have gone instead of waking them.
SpinOnWaiters(t) ==
  /\ pc[t] = "look"
  /\ waiters = {}
  /\ Return(t)
  /\ UNCHANGED <<used, pressure, waiters, registered, held, underflow, watch>>

\* release: waiters.load, skipping the Notify when nobody waits.
LookForWaiters(t) ==
  /\ pc[t] = "look"
  /\ IF waiters = {}
     THEN Return(t)
     ELSE Goto(t, "notify") /\ UNCHANGED <<mode, want, seen>>
  /\ UNCHANGED <<used, pressure, waiters, registered, held, underflow, watch>>

\* released.notify_waiters: wakes everyone registered at this moment.
NotifyReleased(t) ==
  /\ pc[t] = "notify"
  /\ Return(t)
  /\ registered' = {}
  /\ UNCHANGED <<used, pressure, waiters, held, underflow, watch>>

\* Mutant: the absorbed permit keeps its units and releases them in its Drop.
MergeReleasing(t) ==
  /\ pc[t] = "idle"
  /\ Len(held[t]) = 2
  /\ held' = [held EXCEPT ![t] = <<held[t][1] + held[t][2]>>]
  /\ used' = used - held[t][2]
  /\ UNCHANGED <<pressure, waiters, registered, pc, mode, want, seen, underflow, watch>>

\* FdPermit::merge: the other permit is emptied before it is dropped.
Merge(t) ==
  /\ pc[t] = "idle"
  /\ Len(held[t]) = 2
  /\ held' = [held EXCEPT ![t] = <<held[t][1] + held[t][2]>>]
  /\ UNCHANGED <<used, pressure, waiters, registered, pc, mode, want, seen, underflow, watch>>

\* wait_for_pressure_change: enable, check, then await or return.
WatchEnable ==
  /\ watch.pc = "enable"
  /\ watch' = [watch EXCEPT !.pc = "check", !.registered = TRUE]
  /\ UNCHANGED <<used, pressure, waiters, registered, callers, underflow>>

WatchCheck ==
  /\ watch.pc = "check"
  /\ watch' = IF pressure # watch.observed
              THEN [pc |-> "enable", observed |-> pressure, registered |-> FALSE]
              ELSE [watch EXCEPT !.pc = "parked"]
  /\ UNCHANGED <<used, pressure, waiters, registered, callers, underflow>>

WatchWoken ==
  /\ watch.pc = "parked"
  /\ ~watch.registered
  /\ watch' = [watch EXCEPT !.pc = "enable"]
  /\ UNCHANGED <<used, pressure, waiters, registered, callers, underflow>>

\* The steps a running operation takes without any further decision.
Proceed(t) ==
  \/ Load(t) \/ Deny(t) \/ CompareExchange(t) \/ ObserveAcquired(t) \/ RaisedNotify(t)
  \/ CountWaiter(t) \/ Enable(t) \/ Woken(t)
  \/ Lower(t) \/ LoweredNotify(t) \/ LookForWaiters(t) \/ NotifyReleased(t)

Watch == WatchEnable \/ WatchCheck \/ WatchWoken

TaskStep(t) ==
  \/ Proceed(t)
  \/ Cancel(t)
  \/ Merge(t)
  \/ \E u \in Units, m \in {"try", "first"} : Begin(t, u, m)
  \/ \E i \in 1 .. MaxPermits : Release(t, i)

FdNext == Watch \/ \E t \in Task : TaskStep(t)

\* Threads keep running and notified futures are polled.
FdFairness == WF_fdVars(Watch) /\ \A t \in Task : WF_fdVars(Proceed(t))

FdSpec == FdInit /\ [][FdNext]_fdVars /\ FdFairness
-----------------------------------------------------------------------------
FdTypeOK ==
  /\ used \in Nat
  /\ pressure \in BOOLEAN
  /\ waiters \subseteq Task
  /\ registered \subseteq Task
  /\ pc \in [Task -> Pcs]
  /\ mode \in [Task -> {"try", "first", "recheck"}]
  /\ want \in [Task -> Nat]
  /\ seen \in [Task -> Nat]
  /\ held \in [Task -> Seq(Nat)]
  /\ underflow \in BOOLEAN
  /\ watch \in [pc : {"enable", "check", "parked"}, observed : BOOLEAN, registered : BOOLEAN]

\* No interleaving of reservations pushes the in-use count past the capacity
\* (fd_budget.rs, "No overshoot ... even transiently, even under arbitrary
\* concurrency").
NoOvershoot == used <= Capacity

\* The units behind permit i of task t; permit 0 is the one try_acquire has
\* reserved and not yet returned.
Size(t, i) ==
  IF i # 0 THEN held[t][i]
  ELSE IF pc[t] \in {"observe", "raised"} THEN want[t] ELSE 0

Reserved ==
  UNION {UNION {{<<t, i, k>> : k \in 1 .. Size(t, i)} : i \in 0 .. Len(held[t])} : t \in Task}

\* Every reserved unit is owned by exactly one permit, and a release never
\* returns units twice (fd_budget.rs, FdPermit::merge and Drop): the in-use
\* count is the number of units of the live permits at every step, and never
\* underflows.
UnitsConserved ==
  /\ used = Cardinality(Reserved)
  /\ ~underflow

Releasing(t) == pc[t] \in {"lower", "lowered", "look", "notify"}

\* A parked acquire whose units fit is about to be woken: it was notified
\* already, or a releaser has not yet reached its notify_waiters.
NoLostWakeup ==
  \A t \in Task :
    pc[t] = "parked" /\ t \in registered /\ used + want[t] <= Capacity
      => \E r \in Task : Releasing(r)

\* The same for the pressure flag: a watcher parked on a value that is no
\* longer current will be notified by the task that swapped the flag.
NoLostPressureChange ==
  watch.pc = "parked" /\ watch.registered /\ watch.observed # pressure
    => \E t \in Task : pc[t] \in {"raised", "lowered"}

\* Liveness: an acquire parked while its units fit does not stay parked unless
\* the units are taken again.
ParkedIsServed ==
  \A t \in Task :
    (pc[t] = "parked" /\ used + want[t] <= Capacity)
      ~> (pc[t] # "parked" \/ used + want[t] > Capacity)
=============================================================================
