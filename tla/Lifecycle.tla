------------------------------ MODULE Lifecycle ------------------------------
(* The life of the server process: the accept loops, the connection tasks    *)
(* they own, reload and publication of immutable generations, and shutdown.  *)
(*                                                                           *)
(* One action is one poll of a task up to its next await, or one shared      *)
(* access of the reload thread.  The descriptor budget is a counter here;    *)
(* FdBudget shows that the real one behaves like it.                         *)
EXTENDS Naturals, Sequences, FiniteSets

CONSTANTS
    Listener,        \* the bound addresses, a task each
    Conn,            \* the connections that may arrive
    Units,           \* capacity of the descriptor budget, in inbound sockets
    MaxGeneration,   \* bound: the value at which generations are exhausted
    MaxEdits,        \* bound: how often the operator changes the file and sends SIGHUP
    MaxErrors        \* bound: how many accept calls fail

ASSUME LifecycleConstants ==
    /\ Units \in Nat /\ MaxEdits \in Nat /\ MaxErrors \in Nat
    /\ MaxGeneration \in Nat \ {0}
    /\ IsFiniteSet(Listener) /\ IsFiniteSet(Conn)

VARIABLES
    file,      \* version of the configuration file on disk
    asked,     \* the reload channel, of capacity one, holds a request
    update,    \* the update task: its kind, how far it is, what it compiles
    answered,  \* the last version of the file whose update was reported
    config,    \* generation -> the version it was compiled from
    pool,      \* generation -> lifecycle of its warm pools and pre-auth idlers
    phase,     \* the supervisor: running, draining, returned
    clean,     \* the supervision loop ended by the shutdown signal
    at,        \* listener -> where its loop is
    reserve,   \* the listeners whose emergency descriptor is held
    conn,      \* connection -> its state
    on,        \* connection -> its listener
    used,      \* units reserved in the descriptor budget
    critical,  \* the pressure gauge reads Critical
    errors     \* failed accepts so far

publication == <<file, asked, update, answered, config, pool>>
supervisor == <<phase, clean>>
accepting == <<at, reserve, conn, on, used>>
lifecycle == <<publication, supervisor, accepting, critical, errors>>

NoUpdate == [kind |-> "none", step |-> "none", version |-> 0]
current == Len(config)
Stopping == phase # "running"

Of(l, states) == {c \in Conn : on[c] = l /\ conn[c] \in states}

LifecycleInit ==
    /\ file = 0 /\ asked = FALSE /\ update = NoUpdate /\ answered = 0
    /\ config = <<0>> /\ pool = <<"active">>
    /\ phase = "running" /\ clean = FALSE
    /\ at = [l \in Listener |-> "gate"]
    /\ reserve \in SUBSET Listener
    /\ conn = [c \in Conn |-> "away"] /\ on \in [Conn -> Listener]
    /\ used = 0 /\ critical = FALSE /\ errors = 0

-----------------------------------------------------------------------------
(* The operator, the peers and the resource monitor. *)

\* The file is replaced and SIGHUP sent; a full channel swallows the signal.
OperatorReloads ==
    /\ file < MaxEdits /\ phase = "running"
    /\ file' = file + 1 /\ asked' = TRUE
    /\ UNCHANGED <<update, answered, config, pool, supervisor, accepting, critical, errors>>

Arrive(c) ==
    /\ conn[c] = "away" /\ at[on[c]] \notin {"done", "failed", "joined", "dropped"}
    /\ conn' = [conn EXCEPT ![c] = "backlog"]
    /\ UNCHANGED <<publication, supervisor, at, reserve, on, used, critical, errors>>

\* run_connection returns; the task's permits go with its future.
Finish(c) ==
    /\ conn[c] = "live"
    /\ conn' = [conn EXCEPT ![c] = "finished"]
    /\ used' = used - 1
    /\ UNCHANGED <<publication, supervisor, at, reserve, on, critical, errors>>

\* The executor drops the future of an aborted task.
DropAborted(c) ==
    /\ conn[c] = "aborted"
    /\ conn' = [conn EXCEPT ![c] = IF at[on[c]] = "drain" THEN "finished" ELSE "closed"]
    /\ used' = used - 1
    /\ UNCHANGED <<publication, supervisor, at, reserve, on, critical, errors>>

\* The monitor is aborted when the supervisor leaves its loop.
MonitorSets ==
    /\ ~Stopping /\ critical' = ~critical
    /\ UNCHANGED <<publication, supervisor, accepting, errors>>

-----------------------------------------------------------------------------
(* The update task, on a blocking thread. *)

\* reload_path and refresh: what is compiled is read before the lock is taken.
ReadConfig ==
    /\ update.step = "queued"
    /\ update' = [update EXCEPT !.step = "read",
                                !.version = IF update.kind = "configuration" THEN file ELSE config[current]]
    /\ UNCHANGED <<file, asked, answered, config, pool, supervisor, accepting, critical, errors>>

\* A file that does not load, an incompatible change, an exhausted generation
\* counter or a failed compilation: nothing is published.
RejectConfig ==
    /\ update.step = "read"
    /\ update' = [update EXCEPT !.step = "rejected"]
    /\ UNCHANGED <<file, asked, answered, config, pool, supervisor, accepting, critical, errors>>

\* publish: the candidate becomes the current generation.
StoreCandidate ==
    /\ update.step = "read" /\ current < MaxGeneration
    /\ config' = Append(config, update.version)
    /\ pool' = Append(pool, "created")
    /\ update' = [update EXCEPT !.step = "stored"]
    /\ UNCHANGED <<file, asked, answered, supervisor, accepting, critical, errors>>

\* Mutant: no generation is retired.
RetireNone ==
    /\ update.step = "stored"
    /\ update' = [update EXCEPT !.step = "published"]
    /\ UNCHANGED <<file, asked, answered, config, pool, supervisor, accepting, critical, errors>>

\* publish: the old generation's pools and idle sockets are reclaimed.
RetireOld ==
    /\ update.step = "stored"
    /\ pool' = [pool EXCEPT ![current - 1] = "stopped"]
    /\ update' = [update EXCEPT !.step = "published"]
    /\ UNCHANGED <<file, asked, answered, config, supervisor, accepting, critical, errors>>

-----------------------------------------------------------------------------
(* The supervisor. *)

\* A request that meets an update in flight is received and dropped.
ReceiveReload ==
    /\ phase = "running" /\ asked
    /\ asked' = FALSE
    /\ update' = IF update = NoUpdate THEN [kind |-> "configuration", step |-> "queued", version |-> 0]
                                      ELSE update
    /\ UNCHANGED <<file, answered, config, pool, supervisor, accepting, critical, errors>>

RefreshAssets ==
    /\ phase = "running" /\ update = NoUpdate
    /\ update' = [kind |-> "assets", step |-> "queued", version |-> 0]
    /\ UNCHANGED <<file, asked, answered, config, pool, supervisor, accepting, critical, errors>>

\* Only a published generation is activated, and only from "created".
JoinUpdate ==
    /\ phase = "running" /\ update.step \in {"published", "rejected"}
    /\ pool' = IF update.step = "published" /\ pool[current] = "created"
                 THEN [pool EXCEPT ![current] = "active"] ELSE pool
    /\ answered' = IF update.kind = "configuration" THEN update.version ELSE answered
    /\ update' = NoUpdate
    /\ UNCHANGED <<file, asked, config, supervisor, accepting, critical, errors>>

\* What follows the loop: pools down, a queued update aborted (a running one
\* cannot be), monitors aborted, shutdown broadcast.
LeaveLoop(signalled) ==
    /\ phase' = "draining" /\ clean' = signalled
    /\ pool' = [pool EXCEPT ![current] = "stopped"]
    /\ update' = IF update.step = "queued" THEN NoUpdate ELSE update
    /\ UNCHANGED <<file, asked, answered, config, critical, errors>>

ShutdownSignal ==
    /\ phase = "running"
    /\ LeaveLoop(TRUE)
    /\ UNCHANGED accepting

\* A listener task ended on its own: the server stops with an error.
ListenerEnded(l) ==
    /\ phase = "running" /\ at[l] \in {"done", "failed"}
    /\ LeaveLoop(FALSE)
    /\ at' = [at EXCEPT ![l] = "joined"]
    /\ UNCHANGED <<reserve, conn, on, used>>

\* drain_listener_tasks: one more task joined.
JoinListener(l) ==
    /\ phase = "draining"
    /\ at[l] = "done" \/ (at[l] = "failed" /\ ~clean)
    /\ at' = [at EXCEPT ![l] = "joined"]
    /\ UNCHANGED <<publication, supervisor, reserve, conn, on, used, critical, errors>>

\* A failure after a clean stop is returned at once; the remaining listener
\* tasks are dropped with the set and their connections aborted.
ReturnFailure(l) ==
    LET dropped == {k \in Listener : at[k] \notin {"joined", "done", "failed"}}
        holding == {k \in dropped : at[k] = "accept"}
    IN  /\ phase = "draining" /\ clean /\ at[l] = "failed"
        /\ phase' = "returned" /\ clean' = FALSE
        /\ at' = [k \in Listener |-> IF k \in dropped THEN "dropped" ELSE at[k]]
        /\ used' = used - Cardinality(holding)
        /\ conn' = [c \in Conn |-> IF on[c] \notin dropped THEN conn[c]
                                   ELSE IF conn[c] = "live" THEN "aborted"
                                   ELSE IF conn[c] \in {"backlog", "finished"} THEN "closed" ELSE conn[c]]
        /\ UNCHANGED <<publication, reserve, on, critical, errors>>

ReturnDrained ==
    /\ phase = "draining" /\ \A l \in Listener : at[l] = "joined"
    /\ phase' = "returned"
    /\ UNCHANGED <<publication, clean, accepting, critical, errors>>

-----------------------------------------------------------------------------
(* The loop of one listener. *)

Goto(l, place) == at' = [at EXCEPT ![l] = place]
Environment == <<publication, supervisor, critical>>

\* join_next: the output of one ended connection task is consumed.
Reap(l) ==
    \E c \in Of(l, {"finished"}) : conn' = [conn EXCEPT ![c] = "closed"]

\* wait_for_accept_readiness: shutdown, then ended tasks, then the gauge.
Gate(l) ==
    /\ at[l] = "gate"
    /\ \/ Stopping /\ Goto(l, "drain") /\ UNCHANGED conn
       \/ ~Stopping /\ Reap(l) /\ UNCHANGED at
       \/ ~Stopping /\ Of(l, {"finished"}) = {} /\ ~critical /\ Goto(l, "acquire") /\ UNCHANGED conn
    /\ UNCHANGED <<Environment, reserve, on, used, errors>>

\* The unit is reserved before the listener is touched.
Acquire(l) ==
    /\ at[l] = "acquire"
    /\ \/ Stopping /\ Goto(l, "drain") /\ UNCHANGED <<conn, used>>
       \/ ~Stopping /\ used < Units /\ used' = used + 1 /\ Goto(l, "accept") /\ UNCHANGED conn
       \/ ~Stopping /\ used >= Units /\ Reap(l) /\ Goto(l, "gate") /\ UNCHANGED used
    /\ UNCHANGED <<Environment, reserve, on, errors>>

\* With debug logging a tick interrupts accept and the unit goes back.
OwnershipTick(l) ==
    /\ at[l] = "accept"
    /\ used' = used - 1 /\ Goto(l, "gate")
    /\ UNCHANGED <<Environment, reserve, conn, on, errors>>

\* Shutdown or an ended task interrupt accept and the unit goes back.
LeaveAccept(l) ==
    /\ at[l] = "accept"
    /\ used' = used - 1
    /\ \/ Stopping /\ Goto(l, "drain") /\ UNCHANGED conn
       \/ Reap(l) /\ Goto(l, "gate")
    /\ UNCHANGED <<Environment, reserve, on, errors>>

\* The stream is admitted with the unit, or closed and the unit returned: at
\* critical pressure always, else when it cannot be configured or the governor
\* refuses it.
AcceptStream(l) ==
    /\ at[l] = "accept"
    /\ \E c \in Of(l, {"backlog"}) :
         \/ ~critical /\ conn' = [conn EXCEPT ![c] = "live"] /\ UNCHANGED used
         \/ conn' = [conn EXCEPT ![c] = "closed"] /\ used' = used - 1
    /\ Goto(l, "gate")
    /\ UNCHANGED <<Environment, reserve, on, errors>>

\* recover_from_descriptor_pressure: a held reserve is released for one accept,
\* whose stream is closed, and may not come back.
Recover(l) ==
    /\ l \in reserve /\ reserve' \in {reserve, reserve \ {l}}
    /\ \/ \E c \in Of(l, {"backlog"}) : conn' = [conn EXCEPT ![c] = "closed"]
       \/ UNCHANGED conn

\* Mutant: the unit of a failed accept is kept.
AcceptFailsHolding(l) ==
    /\ at[l] = "accept" /\ errors < MaxErrors
    /\ errors' = errors + 1
    /\ Goto(l, "backoff")
    /\ UNCHANGED <<Environment, reserve, conn, on, used>>

\* handle_accept_error, recoverable: the unit goes back first.
AcceptFails(l) ==
    /\ at[l] = "accept" /\ errors < MaxErrors
    /\ errors' = errors + 1 /\ used' = used - 1
    /\ \/ Recover(l) /\ Goto(l, "backoff")
       \/ Goto(l, "backoff") /\ UNCHANGED <<reserve, conn>>
       \/ Goto(l, "gate") /\ UNCHANGED <<reserve, conn>>
    /\ UNCHANGED <<Environment, on>>

\* A fatal error leaves the loop without the drain: the task set is dropped.
AcceptFatal(l) ==
    /\ at[l] = "accept" /\ errors < MaxErrors
    /\ errors' = errors + 1 /\ used' = used - 1
    /\ Goto(l, "failed")
    /\ conn' = [c \in Conn |-> IF c \in Of(l, {"live"}) THEN "aborted"
                               ELSE IF c \in Of(l, {"backlog", "finished"}) THEN "closed" ELSE conn[c]]
    /\ UNCHANGED <<Environment, reserve, on>>

Backoff(l) ==
    /\ at[l] = "backoff"
    /\ Goto(l, IF Stopping THEN "drain" ELSE "gate")
    /\ UNCHANGED <<Environment, reserve, conn, on, used, errors>>

\* Mutant: live connections are waited for without a limit.
DrainPatiently(l) ==
    /\ at[l] = "drain"
    /\ \/ Reap(l) /\ UNCHANGED at
       \/ Of(l, {"live", "aborted", "finished"}) = {} /\ Goto(l, "done")
          /\ conn' = [c \in Conn |-> IF c \in Of(l, {"backlog"}) THEN "closed" ELSE conn[c]]
    /\ UNCHANGED <<Environment, reserve, on, used, errors>>

\* drain_connections: ended tasks are joined; after the graceful timeout the
\* live ones are aborted; with the last one the listening socket is closed.
Drain(l) ==
    /\ at[l] = "drain"
    /\ \/ Reap(l) /\ UNCHANGED at
       \/ /\ Of(l, {"live"}) # {} /\ UNCHANGED at
          /\ conn' = [c \in Conn |-> IF c \in Of(l, {"live"}) THEN "aborted" ELSE conn[c]]
       \/ Of(l, {"live", "aborted", "finished"}) = {} /\ Goto(l, "done")
          /\ conn' = [c \in Conn |-> IF c \in Of(l, {"backlog"}) THEN "closed" ELSE conn[c]]
    /\ UNCHANGED <<Environment, reserve, on, used, errors>>

-----------------------------------------------------------------------------

UpdateThread == ReadConfig \/ RejectConfig \/ StoreCandidate \/ RetireOld

Supervise ==
    \/ ReceiveReload \/ JoinUpdate \/ ReturnDrained
    \/ \E l \in Listener : ListenerEnded(l) \/ JoinListener(l) \/ ReturnFailure(l)

RunListener(l) == Gate(l) \/ Acquire(l) \/ LeaveAccept(l) \/ AcceptStream(l) \/ Backoff(l) \/ Drain(l)

LifecycleNext ==
    \/ OperatorReloads \/ MonitorSets \/ ShutdownSignal \/ RefreshAssets
    \/ \E c \in Conn : Arrive(c) \/ Finish(c) \/ DropAborted(c)
    \/ UpdateThread \/ Supervise
    \/ \E l \in Listener : RunListener(l) \/ OwnershipTick(l) \/ AcceptFails(l) \/ AcceptFatal(l)

\* The executor polls every task that can run, timers fire, and the blocking
\* thread runs its closure to the end.  select! is not biased around accept, so
\* a backlog that is ready again and again is taken in the end.  Peers, the
\* operator, the monitor and the kernel's errors owe nothing.
LifecycleSpec ==
    /\ LifecycleInit /\ [][LifecycleNext]_lifecycle
    /\ WF_lifecycle(UpdateThread) /\ WF_lifecycle(Supervise)
    /\ \A c \in Conn : WF_lifecycle(DropAborted(c))
    /\ \A l \in Listener : WF_lifecycle(RunListener(l)) /\ SF_lifecycle(AcceptStream(l))

-----------------------------------------------------------------------------

\* Types of what the supervisor and the update thread share.
PublicationTypeOK ==
    /\ file \in Nat /\ config \in Seq(Nat) /\ config # <<>>
    /\ pool \in Seq({"created", "active", "stopped"}) /\ Len(pool) = Len(config)
    /\ update \in [kind : {"none", "configuration", "assets"},
                   step : {"none", "queued", "read", "stored", "published", "rejected"},
                   version : Nat]
    /\ phase \in {"running", "draining", "returned"}

\* What admit_accepted_connection loads while the server runs is never a
\* retired handler: publish stores the new generation before it retires the
\* old one, and only ever retires the one it replaced.
HandlerIsLive == ~Stopping => pool[current] # "stopped"

\* Speculative sockets belong to one generation at a time, whatever updates
\* race what shutdown, and to none once the supervisor has left its loop and no
\* publication is about to retire its predecessor.
OneWarmGeneration ==
    /\ \A g, h \in 1..current : pool[g] = "active" /\ pool[h] = "active" => g = h
    /\ Stopping /\ update.step # "stored" => \A g \in 1..current : pool[g] # "active"

\* After shutdown began, the server returns and every unit comes back, however
\* long the peers stay.
ShutdownCompletes == Stopping ~> (phase = "returned" /\ used = 0)

\* While every listener could hold a unit and pressure is not critical, a
\* waiting connection is accepted or declined: failed accepts cost no capacity.
Room == Cardinality({c \in Conn : conn[c] \in {"live", "aborted"}}) + Cardinality(Listener) <= Units
AcceptResumes ==
    <>[](Room /\ ~critical) => \A c \in Conn : conn[c] = "backlog" ~> conn[c] # "backlog"

\* supervisor.rs: dropping a request that meets an update in flight is harmless,
\* "because the newest configuration is the one the operator meant either way":
\* the version on disk is taken up or refused, unless it is replaced again.
NewestConfigurationApplies ==
    \A v \in 1..MaxEdits : file = v ~> (answered = v \/ file # v \/ Stopping)

\* drain_listener_tasks "waits for every listener task after shutdown was
\* signalled": none is dropped in the middle of its loop or drain.
EveryListenerIsAwaited == \A l \in Listener : at[l] # "dropped"
=============================================================================
