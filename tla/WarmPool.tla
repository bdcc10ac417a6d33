------------------------------ MODULE WarmPool ------------------------------
(***************************************************************************)
(* The warm TCP pools of server/warm_pool.rs: one controller task for each *)
(* pool dials ahead of demand, callers check sockets out, a reload retires *)
(* a pool, and descriptor or memory pressure makes it shed.  The pools     *)
(* share one authority with process-wide counters.                         *)
(*                                                                         *)
(* A ready socket is a count: whether it has gone stale is found out when  *)
(* it is examined.  Instants are kept as whether a deadline is still ahead *)
(* and the rate estimator's wish is any value in its range.                *)
(***************************************************************************)
EXTENDS Integers, FiniteSetsExt

CONSTANTS Pool, Caller,
          MinReady, MaxReady, MaxConnecting, RefillBatch,   \* PoolPolicy
          ReadyCapacity, ConnectingCapacity,                \* WarmPoolAuthority
          MaxStaleChecks      \* MAX_STALE_CHECKS_PER_CHECKOUT

ASSUME WarmConstants ==
    /\ {MinReady, MaxReady, MaxConnecting, RefillBatch} \subseteq Nat
    /\ {ReadyCapacity, ConnectingCapacity, MaxStaleChecks} \subseteq Nat
    /\ MinReady <= MaxReady

VARIABLES lifecycle,                  \* PoolInner.lifecycle
          ready, connecting, target, misses,   \* PoolState
          backoff, cooldown,          \* backoff_until, pressure_resume_at are ahead
          holder,                     \* pools whose controller holds the state lock
          permit, waiter,             \* Notify: stored permit, the controller's Notified
          pc, dials, seenFd, seenMem, \* the controller and its locals
          retire,                     \* the call of deactivate
          cpc, cpool, tries, low,     \* each caller's checkout
          readyUsed, connectingUsed,  \* the authority's counters
          fd, mem,                    \* descriptor and memory pressure
          shed                        \* pools that shed under pressure a cooldown ago

state == <<ready, connecting, target, misses, backoff, cooldown>>
notify == <<permit, waiter>>
controller == <<pc, dials, seenFd, seenMem>>
callers == <<cpc, cpool, tries, low>>
authority == <<readyUsed, connectingUsed>>
pressure == <<fd, mem>>
vars == <<lifecycle, state, holder, notify, controller, retire, callers, authority, pressure, shed>>

WarmInit ==
    /\ lifecycle = [p \in Pool |-> "created"]
    /\ ready = [p \in Pool |-> 0] /\ connecting = [p \in Pool |-> 0]
    /\ target = [p \in Pool |-> MinReady] /\ misses = [p \in Pool |-> 0]
    /\ backoff = [p \in Pool |-> FALSE] /\ cooldown = [p \in Pool |-> FALSE]
    /\ holder = {}
    /\ permit = [p \in Pool |-> FALSE] /\ waiter = [p \in Pool |-> "none"]
    /\ pc = [p \in Pool |-> "unborn"] /\ dials = [p \in Pool |-> 0]
    /\ seenFd = [p \in Pool |-> FALSE] /\ seenMem = [p \in Pool |-> FALSE]
    /\ retire = [p \in Pool |-> "no"]
    /\ cpc = [c \in Caller |-> "idle"] /\ cpool \in [Caller -> Pool]
    /\ tries = [c \in Caller |-> 0] /\ low = [c \in Caller |-> FALSE]
    /\ readyUsed = 0 /\ connectingUsed = 0
    /\ fd = FALSE /\ mem = FALSE
    /\ shed = {}

Active(p) == lifecycle[p] = "active"

Goto(p, l) == pc' = [pc EXCEPT ![p] = l]

\* Notify::notify_one: the registered future, or a stored permit.
NotifyOne(p) ==
    IF waiter[p] = "waiting"
    THEN waiter' = [waiter EXCEPT ![p] = "one"] /\ UNCHANGED permit
    ELSE permit' = [permit EXCEPT ![p] = TRUE] /\ UNCHANGED waiter

\* Notify::notify_waiters: whoever is registered now; nothing is stored.
NotifyWaiters(p) ==
    /\ waiter' = [waiter EXCEPT ![p] = IF @ = "waiting" THEN "all" ELSE @]
    /\ UNCHANGED permit

\* The Notified future is dropped: a notify_one it was given is passed on.
DropNotified(p) ==
    /\ waiter' = [waiter EXCEPT ![p] = "none"]
    /\ permit' = [permit EXCEPT ![p] = @ \/ waiter[p] = "one"]

-----------------------------------------------------------------------------
(* activate and deactivate *)

\* The controller samples both pressures before its first adjustment.
Activate(p) ==
    /\ lifecycle[p] = "created"
    /\ lifecycle' = [lifecycle EXCEPT ![p] = "active"]
    /\ Goto(p, "start")
    /\ NotifyOne(p)
    /\ UNCHANGED <<state, holder, dials, seenFd, seenMem, retire, callers, authority, pressure, shed>>

DeactivateSwap(p) ==
    /\ retire[p] = "no"
    /\ lifecycle' = [lifecycle EXCEPT ![p] = "stopped"]
    /\ retire' = [retire EXCEPT ![p] = "swapped"]
    /\ UNCHANGED <<state, holder, notify, controller, callers, authority, pressure, shed>>

DeactivateClear(p) ==
    /\ retire[p] = "swapped" /\ p \notin holder
    /\ ready' = [ready EXCEPT ![p] = 0]
    /\ readyUsed' = readyUsed - ready[p]
    /\ retire' = [retire EXCEPT ![p] = "cleared"]
    /\ UNCHANGED <<lifecycle, connecting, target, misses, backoff, cooldown, holder, notify,
                   controller, callers, connectingUsed, pressure, shed>>

DeactivateNotify(p) ==
    /\ retire[p] = "cleared"
    /\ NotifyWaiters(p)
    /\ retire' = [retire EXCEPT ![p] = "returned"]
    /\ UNCHANGED <<lifecycle, state, holder, controller, callers, authority, pressure, shed>>

-----------------------------------------------------------------------------
(* checkout *)

CheckoutStart(c) ==
    /\ cpc[c] = "idle"
    /\ \E p \in Pool :
         /\ cpool' = [cpool EXCEPT ![c] = p]
         /\ cpc' = [cpc EXCEPT ![c] = IF Active(p) THEN "pop" ELSE "miss"]
    /\ UNCHANGED <<lifecycle, state, holder, notify, controller, retire, tries, low, authority,
                   pressure, shed>>

LowWatermark(n) == Max({0, n - Max({n \div 4, 1})})

CheckoutPop(c) ==
    LET p == cpool[c]
    IN  /\ cpc[c] = "pop" /\ p \notin holder
        /\ IF ready[p] = 0
           THEN cpc' = [cpc EXCEPT ![c] = "miss"] /\ UNCHANGED <<ready, low>>
           ELSE /\ cpc' = [cpc EXCEPT ![c] = "examine"]
                /\ ready' = [ready EXCEPT ![p] = @ - 1]
                /\ low' = [low EXCEPT ![c] = ready[p] - 1 <= LowWatermark(target[p])]
        /\ UNCHANGED <<lifecycle, connecting, target, misses, backoff, cooldown, holder, notify,
                       controller, retire, cpool, tries, authority, pressure, shed>>

\* Expired or closed by the peer: dropped with its permit, and the next tried.
CheckoutStale(c) ==
    /\ cpc[c] = "examine"
    /\ cpc' = [cpc EXCEPT ![c] = IF tries[c] + 1 < MaxStaleChecks THEN "pop" ELSE "miss"]
    /\ tries' = [tries EXCEPT ![c] = @ + 1] /\ low' = [low EXCEPT ![c] = FALSE]
    /\ readyUsed' = readyUsed - 1
    /\ UNCHANGED <<lifecycle, state, holder, notify, controller, retire, cpool, connectingUsed,
                   pressure, shed>>

CheckoutHit(c) ==
    /\ cpc[c] = "examine"
    /\ cpc' = [cpc EXCEPT ![c] = "using"]
    /\ readyUsed' = readyUsed - 1
    /\ IF low[c] THEN NotifyOne(cpool[c]) ELSE UNCHANGED notify
    /\ low' = [low EXCEPT ![c] = FALSE] /\ tries' = [tries EXCEPT ![c] = 0]
    /\ UNCHANGED <<lifecycle, state, holder, controller, retire, cpool, connectingUsed, pressure, shed>>

\* record_miss; the window saturates where prune_and_adjust stops telling counts apart.
CheckoutMiss(c) ==
    LET p == cpool[c]
    IN  /\ cpc[c] = "miss" /\ p \notin holder
        /\ cpc' = [cpc EXCEPT ![c] = "idle"]
        /\ misses' = [misses EXCEPT ![p] = Min({@ + 1, Max({RefillBatch, 1})})]
        /\ NotifyOne(p)
        /\ tries' = [tries EXCEPT ![c] = 0]
        /\ UNCHANGED <<lifecycle, ready, connecting, target, backoff, cooldown, holder, controller,
                       retire, cpool, low, authority, pressure, shed>>

\* The first use succeeds, or fails: record_stale_checkout.
UseDone(c) ==
    /\ cpc[c] = "using"
    /\ cpc' = [cpc EXCEPT ![c] = "idle"]
    /\ (NotifyOne(cpool[c]) \/ UNCHANGED notify)
    /\ UNCHANGED <<lifecycle, state, holder, controller, retire, cpool, tries, low, authority,
                   pressure, shed>>

-----------------------------------------------------------------------------
(* The controller's helpers, each under the state lock *)

\* defer_pressure_refill: later than any cooldown that runs already.
DeferPressureRefill(p) ==
    /\ cooldown' = [cooldown EXCEPT ![p] = TRUE]
    /\ shed' = shed \cup {p}

\* The targets prune_and_adjust may settle on: the estimate is any number, a
\* miss forces a step up, and a quiet pool shrinks by one batch at most.
NextTargets(p) ==
    LET step == Max({Min({misses[p], RefillBatch}), Max({target[p] \div 2, 1})})
        floor == IF misses[p] > 0 THEN Max({MinReady, target[p] + step}) ELSE MinReady
        shrunk(d) == Max({target[p] - RefillBatch, d, MinReady})
    IN  UNION {IF d > target[p] THEN {d}
               ELSE IF d < target[p] THEN {target[p], shrunk(d)}
               ELSE {target[p]} : d \in Min({floor, MaxReady})..MaxReady}

\* prune_and_adjust: all but the unexpired sockets go, under pressure every
\* one; the rest is popped down to the new target.
PruneAndAdjust(p) ==
    /\ p \notin holder
    /\ \E t \in NextTargets(p) : target' = [target EXCEPT ![p] = t]
    /\ misses' = [misses EXCEPT ![p] = 0]
    /\ IF fd \/ mem
       THEN /\ DeferPressureRefill(p)
            /\ ready' = [ready EXCEPT ![p] = 0]
       ELSE /\ \E n \in 0..ready[p] : n <= target'[p] /\ ready' = [ready EXCEPT ![p] = n]
            /\ UNCHANGED <<cooldown, shed>>
    /\ readyUsed' = readyUsed - (ready[p] - ready'[p])
    /\ UNCHANGED <<connecting, backoff, connectingUsed>>

\* The dials reconcile starts: the deficit, bounded by every limit.
Refill(p) ==
    LET deficit == Max({0, target[p] - (ready[p] + connecting[p])})
        slots == Max({0, MaxConnecting - connecting[p]})
    IN  IF backoff[p] \/ cooldown[p] \/ mem THEN 0
        ELSE Min({deficit, slots, RefillBatch, ConnectingCapacity - connectingUsed})

-----------------------------------------------------------------------------
(* run_controller *)

ControllerStart(p) ==
    /\ pc[p] = "start"
    /\ seenFd' = [seenFd EXCEPT ![p] = fd] /\ seenMem' = [seenMem EXCEPT ![p] = mem]
    /\ Goto(p, "adjust")
    /\ UNCHANGED <<lifecycle, state, holder, notify, dials, retire, callers, authority, pressure, shed>>

Adjust(p) ==
    /\ pc[p] = "adjust"
    /\ PruneAndAdjust(p)
    /\ Goto(p, "head")
    /\ UNCHANGED <<lifecycle, holder, notify, dials, seenFd, seenMem, retire, callers, pressure>>

\* adjust_if_due: the adaptation interval has passed, or has not.
AdjustIfDue(p) ==
    /\ pc[p] = "due"
    /\ Goto(p, "head")
    /\ (PruneAndAdjust(p) \/ UNCHANGED <<state, authority, shed>>)
    /\ UNCHANGED <<lifecycle, holder, notify, dials, seenFd, seenMem, retire, callers, pressure>>

\* The loop's lifecycle test, then reconcile's tests before it takes the lock.
Head(p) ==
    /\ pc[p] = "head"
    /\ Goto(p, IF ~Active(p) THEN "exit"
               ELSE IF fd \/ mem \/ readyUsed >= ReadyCapacity THEN "register"
               ELSE "reconcile")
    /\ UNCHANGED <<lifecycle, state, holder, notify, dials, seenFd, seenMem, retire, callers,
                   authority, pressure, shed>>

Reconcile(p) ==
    /\ pc[p] = "reconcile" /\ p \notin holder
    /\ \E n \in 0..RefillBatch :
         /\ n = Refill(p)
         /\ connecting' = [connecting EXCEPT ![p] = @ + n]
         /\ dials' = [dials EXCEPT ![p] = @ + n]
         /\ connectingUsed' = connectingUsed + n
    /\ Goto(p, "register")
    /\ UNCHANGED <<lifecycle, ready, target, misses, backoff, cooldown, holder, notify, seenFd,
                   seenMem, retire, callers, readyUsed, pressure, shed>>

\* notified() and enable(): a stored permit makes the future ready at once.
Register(p) ==
    /\ pc[p] = "register"
    /\ waiter' = [waiter EXCEPT ![p] = IF permit[p] THEN "one" ELSE "waiting"]
    /\ permit' = [permit EXCEPT ![p] = FALSE]
    /\ Goto(p, "recheck")
    /\ UNCHANGED <<lifecycle, state, holder, dials, seenFd, seenMem, retire, callers, authority,
                   pressure, shed>>

\* A mutant: the lifecycle is not read again.
RecheckSkipped(p) ==
    /\ pc[p] = "recheck"
    /\ Goto(p, "select")
    /\ UNCHANGED <<lifecycle, state, holder, notify, dials, seenFd, seenMem, retire, callers, authority,
                   pressure, shed>>

Recheck(p) ==
    /\ pc[p] = "recheck"
    /\ IF Active(p) THEN Goto(p, "select") /\ UNCHANGED notify
                    ELSE Goto(p, "exit") /\ DropNotified(p)
    /\ UNCHANGED <<lifecycle, state, holder, dials, seenFd, seenMem, retire, callers, authority,
                   pressure, shed>>

\* The select's branches.  One other than the first may run with the future
\* marked: the mark came after it was polled.
OnNotified(p) ==
    /\ pc[p] = "select" /\ waiter[p] \in {"one", "all"}
    /\ waiter' = [waiter EXCEPT ![p] = "none"]
    /\ Goto(p, "due")
    /\ UNCHANGED <<lifecycle, state, holder, permit, dials, seenFd, seenMem, retire, callers,
                   authority, pressure, shed>>

\* A dial future completes, which drops its connecting permit.
OnDial(p) ==
    /\ pc[p] = "select" /\ dials[p] > 0
    /\ dials' = [dials EXCEPT ![p] = @ - 1]
    /\ connectingUsed' = connectingUsed - 1
    /\ DropNotified(p)
    /\ (Goto(p, "landed") \/ Goto(p, "failed"))
    /\ UNCHANGED <<lifecycle, state, holder, seenFd, seenMem, retire, callers, readyUsed, pressure, shed>>

\* wait_for_change of either pressure; a rise runs cancel_speculative_dials.
OnPressure(p) ==
    /\ pc[p] = "select" /\ <<fd, mem>> # <<seenFd[p], seenMem[p]>>
    /\ p \notin holder
    /\ \E changed \in {"fd", "mem"} :
         LET now == IF changed = "fd" THEN fd ELSE mem
         IN  /\ now # (IF changed = "fd" THEN seenFd[p] ELSE seenMem[p])
             /\ seenFd' = [seenFd EXCEPT ![p] = IF changed = "fd" THEN now ELSE @]
             /\ seenMem' = [seenMem EXCEPT ![p] = IF changed = "mem" THEN now ELSE @]
             /\ IF now
                THEN /\ dials' = [dials EXCEPT ![p] = 0]
                     /\ connectingUsed' = connectingUsed - dials[p]
                     /\ connecting' = [connecting EXCEPT ![p] = 0]
                     /\ DeferPressureRefill(p)
                ELSE UNCHANGED <<dials, connectingUsed, connecting, cooldown, shed>>
    /\ DropNotified(p)
    /\ Goto(p, "adjust")
    /\ UNCHANGED <<lifecycle, ready, target, misses, backoff, holder, retire, callers, readyUsed, pressure>>

OnMaintenance(p) ==
    /\ pc[p] = "select"
    /\ DropNotified(p)
    /\ Goto(p, "adjust")
    /\ UNCHANGED <<lifecycle, state, holder, dials, seenFd, seenMem, retire, callers, authority,
                   pressure, shed>>

-----------------------------------------------------------------------------
(* handle_dial_completion *)

Admissible(p) == Active(p) /\ ~fd /\ ready[p] < target[p] /\ ready[p] < MaxReady

\* A mutant: the tests are made before the lock is taken.
LandedUnlocked(p) ==
    /\ pc[p] = "landed" /\ p \notin holder
    /\ connecting' = [connecting EXCEPT ![p] = Max({0, @ - 1})]
    /\ Goto(p, IF Admissible(p) THEN "push" ELSE "drop")
    /\ UNCHANGED <<lifecycle, ready, target, misses, backoff, cooldown, holder, notify, dials, seenFd,
                   seenMem, retire, callers, authority, pressure, shed>>

\* The lock is taken and the socket's admission decided.
Landed(p) ==
    /\ pc[p] = "landed" /\ p \notin holder
    /\ holder' = holder \cup {p}
    /\ connecting' = [connecting EXCEPT ![p] = Max({0, @ - 1})]
    /\ Goto(p, IF Admissible(p) THEN "push" ELSE "drop")
    /\ UNCHANGED <<lifecycle, ready, target, misses, backoff, cooldown, notify, dials, seenFd, seenMem,
                   retire, callers, authority, pressure, shed>>

\* try_ready, the push and the unlock; a success clears the failure backoff only.
Push(p) ==
    /\ pc[p] = "push"
    /\ holder' = holder \ {p}
    /\ IF mem \/ readyUsed >= ReadyCapacity
       THEN UNCHANGED <<ready, backoff, readyUsed>>
       ELSE /\ readyUsed' = readyUsed + 1
            /\ ready' = [ready EXCEPT ![p] = @ + 1]
            /\ backoff' = [backoff EXCEPT ![p] = FALSE]
    /\ Goto(p, "due")
    /\ UNCHANGED <<lifecycle, connecting, target, misses, cooldown, notify, dials, seenFd, seenMem,
                   retire, callers, connectingUsed, pressure, shed>>

\* Pressure is read again while the unwanted socket still holds its descriptor.
Drop(p) ==
    /\ pc[p] = "drop"
    /\ holder' = holder \ {p}
    /\ IF fd THEN DeferPressureRefill(p) ELSE UNCHANGED <<cooldown, shed>>
    /\ Goto(p, "due")
    /\ UNCHANGED <<lifecycle, ready, connecting, target, misses, backoff, notify, dials, seenFd,
                   seenMem, retire, callers, authority, pressure>>

\* record_dial_failure
Failed(p) ==
    /\ pc[p] = "failed" /\ p \notin holder
    /\ connecting' = [connecting EXCEPT ![p] = Max({0, @ - 1})]
    /\ backoff' = [backoff EXCEPT ![p] = TRUE]
    /\ Goto(p, "due")
    /\ UNCHANGED <<lifecycle, ready, target, misses, cooldown, holder, notify, dials, seenFd, seenMem,
                   retire, callers, authority, pressure, shed>>

\* The controller ends: the dials are dropped, then the state is cleared.
Exit(p) ==
    /\ pc[p] = "exit"
    /\ dials' = [dials EXCEPT ![p] = 0]
    /\ seenFd' = [seenFd EXCEPT ![p] = FALSE] /\ seenMem' = [seenMem EXCEPT ![p] = FALSE]
    /\ connectingUsed' = connectingUsed - dials[p]
    /\ Goto(p, "clear")
    /\ UNCHANGED <<lifecycle, state, holder, notify, retire, callers, readyUsed, pressure, shed>>

ExitClear(p) ==
    /\ pc[p] = "clear" /\ p \notin holder
    /\ connecting' = [connecting EXCEPT ![p] = 0]
    /\ ready' = [ready EXCEPT ![p] = 0]
    /\ readyUsed' = readyUsed - ready[p]
    /\ Goto(p, "done")
    /\ UNCHANGED <<lifecycle, target, misses, backoff, cooldown, holder, notify, dials, seenFd,
                   seenMem, retire, callers, connectingUsed, pressure, shed>>

-----------------------------------------------------------------------------
(* The environment: either pressure comes and goes, deadlines pass.  Bound: *)
(* the two pressures are not up together.                                   *)

PressureMoves ==
    /\ \/ fd' = ~fd /\ ~mem /\ UNCHANGED mem
       \/ mem' = ~mem /\ ~fd /\ UNCHANGED fd
    /\ UNCHANGED <<lifecycle, state, holder, notify, controller, retire, callers, authority, shed>>

BackoffEnds(p) ==
    /\ backoff[p]
    /\ backoff' = [backoff EXCEPT ![p] = FALSE]
    /\ UNCHANGED <<lifecycle, ready, connecting, target, misses, cooldown, holder, notify, controller,
                   retire, callers, authority, pressure, shed>>

CooldownEnds(p) ==
    /\ p \in shed
    /\ cooldown' = [cooldown EXCEPT ![p] = FALSE]
    /\ shed' = shed \ {p}
    /\ UNCHANGED <<lifecycle, ready, connecting, target, misses, backoff, holder, notify, controller,
                   retire, callers, authority, pressure>>

Deactivate(p) == DeactivateSwap(p) \/ DeactivateClear(p) \/ DeactivateNotify(p)

Checkout(c) == \/ CheckoutStart(c) \/ CheckoutPop(c) \/ CheckoutStale(c)
               \/ CheckoutHit(c) \/ CheckoutMiss(c) \/ UseDone(c)

\* The controller's steps that wait for nothing but the lock, and the wake-up.
Runs(p) == \/ ControllerStart(p) \/ Adjust(p) \/ AdjustIfDue(p) \/ Head(p) \/ Reconcile(p)
           \/ Register(p) \/ Recheck(p) \/ OnNotified(p)
           \/ Landed(p) \/ Push(p) \/ Drop(p) \/ Failed(p) \/ Exit(p) \/ ExitClear(p)

WarmNext ==
    \/ \E p \in Pool : \/ Activate(p) \/ Deactivate(p) \/ Runs(p)
                       \/ OnDial(p) \/ OnPressure(p) \/ OnMaintenance(p)
                       \/ BackoffEnds(p) \/ CooldownEnds(p)
    \/ \E c \in Caller : Checkout(c)
    \/ PressureMoves

WarmSafety == WarmInit /\ [][WarmNext]_vars

\* The executor polls a controller that is not waiting, and deactivate, a
\* plain call, returns.  No dial, deadline or pressure change is assumed.
WarmSpec == /\ WarmSafety
            /\ \A p \in Pool : WF_vars(Runs(p)) /\ WF_vars(Deactivate(p) /\ retire[p] # "no")

-----------------------------------------------------------------------------

WarmTypeOK ==
    /\ lifecycle \in [Pool -> {"created", "active", "stopped"}]
    /\ ready \in [Pool -> Nat] /\ connecting \in [Pool -> Nat]
    /\ target \in [Pool -> MinReady..MaxReady] /\ misses \in [Pool -> Nat]
    /\ backoff \in [Pool -> BOOLEAN] /\ cooldown \in [Pool -> BOOLEAN]
    /\ holder \subseteq Pool /\ shed \subseteq Pool
    /\ retire \in [Pool -> {"no", "swapped", "cleared", "returned"}]
    /\ readyUsed \in 0..ReadyCapacity /\ connectingUsed \in 0..ConnectingCapacity

\* Once deactivate has returned, the pool holds no ready socket again, though
\* a dial may land while it runs (warm_pool.rs, "Stops refill and
\* synchronously drops every unused socket").
StoppedPoolIsEmpty == \A p \in Pool : retire[p] \in {"cleared", "returned"} => ready[p] = 0

\* The ready sockets never outnumber the adaptive target, through landings,
\* checkouts and shrinks of the target (prune_and_adjust, handle_dial_completion).
ReadyWithinTarget == \A p \in Pool : ready[p] <= target[p]

\* No dial starts while the cooldown of the pool's last pressure shed runs,
\* whatever lands in between (defer_pressure_refill, "must not erase a pressure
\* cooldown caused by another dial's released permit").
CooldownHolds == [][\A p \in Pool : p \in shed => dials'[p] <= dials[p]]_vars

\* A retired pool's controller ends, and no dial, socket deadline or pressure
\* change is needed for it (run_controller, "so shutdown never depends on a
\* later dial or maintenance deadline").
ControllerEnds ==
    \A p \in Pool : lifecycle[p] = "stopped" ~> pc[p] \in {"unborn", "done"}
=============================================================================
