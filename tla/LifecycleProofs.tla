-------------------------- MODULE LifecycleProofs ---------------------------
(***************************************************************************)
(* Proofs about the process for any number of listeners, connections,      *)
(* reloads, refreshes and failed accepts: its generations, its connection  *)
(* tasks and the descriptor units they hold.                               *)
(***************************************************************************)
EXTENDS Lifecycle, FiniteSetTheorems, TLAPS

-----------------------------------------------------------------------------
(* Generations and their warm pools *)

\* Only the newest generation can be warm, save the one whose successor is
\* stored and which the update thread is about to retire.
GenerationInv ==
    /\ PublicationTypeOK
    /\ \A g \in 1..current : g < current - 1 => pool[g] = "stopped"
    /\ current > 1 /\ update.step # "stored" => pool[current - 1] = "stopped"
    /\ update.step = "stored" => current > 1 /\ pool[current] # "active"
    /\ ~Stopping => pool[current] # "stopped"
    /\ Stopping => pool[current] # "active"

\* The process begins with one generation.
LEMMA GenerationInit == LifecycleInit => GenerationInv
BY DEF LifecycleInit, GenerationInv, PublicationTypeOK, NoUpdate, current, Stopping

\* Steps that touch neither the generations nor what the invariant reads of
\* the update and the phase.
LEMMA GenerationFrame ==
    ASSUME GenerationInv, UNCHANGED <<config, pool, update, phase>>, file' \in Nat
    PROVE  GenerationInv'
BY ZenonT(60) DEF GenerationInv, PublicationTypeOK, current, Stopping

\* Steps of the update task that leave the generations alone.
LEMMA UpdateMoves ==
    ASSUME GenerationInv, UNCHANGED <<config, pool, phase, file>>, update.step # "stored",
           update' \in [kind : {"none", "configuration", "assets"},
                        step : {"none", "queued", "read", "published", "rejected"},
                        version : Nat]
    PROVE  GenerationInv'
BY Zenon DEF GenerationInv, PublicationTypeOK, current, Stopping

\* Every step of the process keeps GenerationInv.
LEMMA GenerationStep == GenerationInv /\ [LifecycleNext]_lifecycle => GenerationInv'
<1> SUFFICES ASSUME GenerationInv, [LifecycleNext]_lifecycle PROVE GenerationInv'
    BY Zenon
<1> USE DEF lifecycle, publication, supervisor, accepting
<1>t. file \in Nat
  BY Zenon DEF GenerationInv, PublicationTypeOK
<1>1. CASE OperatorReloads
  BY <1>1, <1>t, GenerationFrame DEF OperatorReloads
<1>2. CASE MonitorSets
  BY <1>2, <1>t, GenerationFrame, Zenon DEF MonitorSets
<1>3. ASSUME NEW c \in Conn, Arrive(c) \/ Finish(c) \/ DropAborted(c) PROVE GenerationInv'
  BY <1>3, <1>t, GenerationFrame, Zenon DEF Arrive, Finish, DropAborted
<1>4. ASSUME NEW l \in Listener,
             RunListener(l) \/ OwnershipTick(l) \/ AcceptFails(l) \/ AcceptFatal(l)
      PROVE  GenerationInv'
  <2>1. UNCHANGED <<config, pool, update, phase, file>>
    BY <1>4, Zenon DEF RunListener, Gate, Acquire, LeaveAccept, AcceptStream, Backoff, Drain,
                OwnershipTick, AcceptFails, AcceptFatal, Environment
  <2> QED BY <2>1, <1>t, GenerationFrame, Zenon
<1>5. ASSUME NEW l \in Listener, JoinListener(l) PROVE GenerationInv'
  BY <1>5, <1>t, GenerationFrame, Zenon DEF JoinListener
<1>6. CASE ReadConfig
  <2>1. config[current] \in Nat
    BY DEF GenerationInv, PublicationTypeOK, current
  <2> QED BY <1>6, <1>t, <2>1, UpdateMoves, Zenon DEF ReadConfig, GenerationInv, PublicationTypeOK
<1>7. CASE RejectConfig
  BY <1>7, UpdateMoves, Zenon DEF RejectConfig, GenerationInv, PublicationTypeOK
<1>y. /\ update.kind \in {"none", "configuration", "assets"} /\ update.version \in Nat
      /\ config \in Seq(Nat) /\ config # <<>> /\ current \in Nat \ {0}
      /\ pool \in Seq({"created", "active", "stopped"}) /\ Len(pool) = current
  BY DEF GenerationInv, PublicationTypeOK, current
<1>8. CASE StoreCandidate
  <2>1. /\ update'.step = "stored"
        /\ update' \in [kind : {"none", "configuration", "assets"},
                        step : {"none", "queued", "read", "stored", "published", "rejected"},
                        version : Nat]
    BY <1>8, Zenon DEF StoreCandidate, GenerationInv, PublicationTypeOK
  <2>2. config' \in Seq(Nat) /\ config' # <<>> /\ current' = current + 1
    BY <1>8, <1>y DEF StoreCandidate, current
  <2>3. /\ pool' \in Seq({"created", "active", "stopped"}) /\ Len(pool') = current + 1
        /\ \A g \in 1..current : pool'[g] = pool[g]
        /\ pool'[current + 1] = "created"
    BY <1>8, <1>y DEF StoreCandidate
  <2>4. \A g \in 1..current : g < current => pool[g] = "stopped"
    BY <1>8, <1>y DEF StoreCandidate, GenerationInv
  <2>5. PublicationTypeOK'
    BY <1>8, <2>1, <2>2, <2>3, Zenon DEF StoreCandidate, GenerationInv, PublicationTypeOK, current
  <2> QED BY <2>1, <2>2, <2>3, <2>4, <2>5, <1>y DEF GenerationInv
<1>9. CASE RetireOld
  <2>1. /\ update'.step = "published"
        /\ update' \in [kind : {"none", "configuration", "assets"},
                        step : {"none", "queued", "read", "stored", "published", "rejected"},
                        version : Nat]
    BY <1>9, Zenon DEF RetireOld, GenerationInv, PublicationTypeOK
  <2>2. current > 1 /\ current' = current /\ Stopping' = Stopping
    BY <1>9, Zenon DEF RetireOld, GenerationInv, current, Stopping
  <2>3. /\ pool' \in Seq({"created", "active", "stopped"}) /\ Len(pool') = current
        /\ \A g \in 1..current : pool'[g] = IF g = current - 1 THEN "stopped" ELSE pool[g]
    BY <1>9, <1>y, <2>2 DEF RetireOld
  <2>4. PublicationTypeOK'
    BY <1>9, <2>1, <2>2, <2>3, Zenon DEF RetireOld, GenerationInv, PublicationTypeOK, current
  <2> QED BY <2>1, <2>2, <2>3, <2>4, <1>y DEF GenerationInv
<1>10. CASE ReceiveReload
  <2>1. CASE update = NoUpdate
    BY <1>10, <2>1, UpdateMoves, Zenon DEF ReceiveReload, NoUpdate
  <2>2. CASE update # NoUpdate
    BY <1>10, <2>2, <1>t, GenerationFrame, Zenon DEF ReceiveReload
  <2> QED BY <2>1, <2>2, Zenon
<1>11. CASE RefreshAssets
  BY <1>11, UpdateMoves, Zenon DEF RefreshAssets, NoUpdate
<1>12. CASE JoinUpdate
  <2>1. /\ update'.step = "none" /\ ~Stopping' /\ ~Stopping /\ update.step # "stored"
        /\ current' = current
    BY <1>12, Zenon DEF JoinUpdate, NoUpdate, current, Stopping
  <2>2. /\ pool' \in Seq({"created", "active", "stopped"}) /\ Len(pool') = current
        /\ \A g \in 1..current : g # current => pool'[g] = pool[g]
        /\ pool'[current] = pool[current] \/ pool'[current] = "active"
    <3>1. CASE pool' = pool
      BY <3>1, <1>y, Zenon
    <3>2. CASE pool' = [pool EXCEPT ![current] = "active"]
      BY <3>2, <1>y
    <3> QED BY <1>12, <3>1, <3>2, Zenon DEF JoinUpdate
  <2>3. PublicationTypeOK'
    BY <1>12, <2>1, <2>2, Zenon DEF JoinUpdate, NoUpdate, GenerationInv, PublicationTypeOK, current
  <2> QED BY <2>1, <2>2, <2>3, <1>y DEF GenerationInv
<1>13. ASSUME NEW s \in BOOLEAN, LeaveLoop(s) PROVE GenerationInv'
  BY <1>13 DEF LeaveLoop, GenerationInv, PublicationTypeOK, NoUpdate, current, Stopping
<1>14. CASE ShutdownSignal
  BY <1>14, <1>13, Zenon DEF ShutdownSignal
<1>15. ASSUME NEW l \in Listener, ListenerEnded(l) PROVE GenerationInv'
  BY <1>15, <1>13, Zenon DEF ListenerEnded
<1>16. ASSUME NEW l \in Listener, ReturnFailure(l) PROVE GenerationInv'
  BY <1>16, Zenon DEF ReturnFailure, GenerationInv, PublicationTypeOK, current, Stopping
<1>17. CASE ReturnDrained
  BY <1>17, Zenon DEF ReturnDrained, GenerationInv, PublicationTypeOK, current, Stopping
<1>18. CASE UNCHANGED lifecycle
  BY <1>18, <1>t, GenerationFrame, Zenon
<1> QED
  BY <1>1, <1>2, <1>3, <1>4, <1>5, <1>6, <1>7, <1>8, <1>9, <1>10, <1>11, <1>12, <1>14, <1>15,
     <1>16, <1>17, <1>18, Zenon DEF LifecycleNext, UpdateThread, Supervise

\* GenerationInv is an invariant of the process.
LEMMA GenerationInvariant == LifecycleSpec => []GenerationInv
BY GenerationInit, GenerationStep, PTL DEF LifecycleSpec

\* What an accept loads while the server runs is never a retired handler,
\* whatever publications race it (RuntimeStore::publish).
THEOREM HandlersAreLive == LifecycleSpec => []HandlerIsLive
<1>1. GenerationInv => HandlerIsLive
  BY Zenon DEF GenerationInv, HandlerIsLive
<1> QED BY <1>1, GenerationInvariant, PTL

\* At most one generation keeps warm pools, and none once the supervisor has
\* left its loop and the update thread has retired what it replaced.
THEOREM PoolsAreExclusive == LifecycleSpec => []OneWarmGeneration
<1>1. ASSUME GenerationInv PROVE OneWarmGeneration
  <2>1. current \in Nat
    BY <1>1 DEF GenerationInv, PublicationTypeOK, current
  <2>2. ASSUME NEW g \in 1..current, pool[g] = "active"
        PROVE  g = current \/ (g = current - 1 /\ update.step = "stored")
    BY <1>1, <2>1, <2>2 DEF GenerationInv
  <2> QED BY <1>1, <2>1, <2>2, Zenon DEF GenerationInv, OneWarmGeneration
<1> QED BY <1>1, GenerationInvariant, PTL

-----------------------------------------------------------------------------
(* Descriptor units and connection tasks *)

\* Where a listener's loop or drain can be.
Running == {"gate", "acquire", "accept", "backoff", "drain"}

\* Types of what the listeners and their connection tasks share.
TaskTypeOK ==
    /\ at \in [Listener -> Running \cup {"done", "failed", "joined", "dropped"}]
    /\ conn \in [Conn -> {"away", "backlog", "live", "aborted", "finished", "closed"}]
    /\ on \in [Conn -> Listener]

\* The holders of a unit: an accept that waits, and a connection task.
Accepting == {l \in Listener : at[l] = "accept"}
Tasks == {c \in Conn : conn[c] \in {"live", "aborted"}}

\* Every reserved unit has its holder, and no more are reserved than exist.
UnitsAreHeld == used = Cardinality(Accepting) + Cardinality(Tasks) /\ used <= Units

\* A connection that is served, waits or is not yet joined belongs to a
\* listener that is still in its loop or drain.
TaskHasOwner == \A c \in Conn : conn[c] \in {"backlog", "live", "finished"} => at[on[c]] \in Running

\* A clean return leaves no connection, task or unit behind.
CleanReturnIsEmpty ==
    phase = "returned" /\ clean => used = 0 /\ \A c \in Conn : conn[c] \in {"away", "closed"}

\* A listener leaves its loop in order only once shutdown began, and finishes
\* its drain with no aborted task; only an unclean stop joins a failed one.
DrainInv ==
    /\ \A l \in Listener : at[l] \in {"drain", "done", "joined"} => Stopping
    /\ \A c \in Conn : conn[c] = "aborted" => at[on[c]] # "done" /\ (clean => at[on[c]] # "joined")
    /\ phase = "returned" /\ clean => \A l \in Listener : at[l] = "joined"

\* The inductive invariant of listeners and tasks.
TaskInv == TaskTypeOK /\ TaskHasOwner /\ DrainInv

\* No connection has arrived when the process begins.
LEMMA TasksInitially == LifecycleInit => TaskInv
BY DEF LifecycleInit, TaskInv, TaskTypeOK, TaskHasOwner, DrainInv, Running, Stopping

\* Steps of the operator, the monitor and the update task.
LEMMA TasksFrame ==
    ASSUME TaskInv, UNCHANGED <<at, conn, on, phase, clean>>
    PROVE  TaskInv'
BY Zenon DEF TaskInv, TaskTypeOK, TaskHasOwner, DrainInv, Running, Stopping

\* One connection moves on, its listener stays where it is.
LEMMA OneTaskMoves ==
    ASSUME TaskInv, NEW c \in Conn, NEW s \in {"away", "backlog", "live", "aborted", "finished", "closed"},
           conn' = [conn EXCEPT ![c] = s], UNCHANGED <<at, on, phase, clean>>,
           s \in {"backlog", "live", "finished"} => at[on[c]] \in Running,
           s # "aborted"
    PROVE  TaskInv'
<1>1. TaskTypeOK' BY Zenon DEF TaskInv, TaskTypeOK
<1>2. \A x \in Conn : conn'[x] = IF x = c THEN s ELSE conn[x] BY Zenon DEF TaskInv, TaskTypeOK
<1>3. TaskHasOwner' BY <1>2, Zenon DEF TaskInv, TaskHasOwner
<1>4. DrainInv' BY <1>2, ZenonT(60) DEF TaskInv, DrainInv, Stopping
<1> QED BY <1>1, <1>3, <1>4, Zenon DEF TaskInv

\* A listener moves within its loop, or into its drain once shutdown began.
LEMMA LoopMoves ==
    ASSUME TaskInv, NEW l \in Listener, NEW p \in Running, at[l] \in Running,
           at' = [at EXCEPT ![l] = p], UNCHANGED <<on, phase, clean>>,
           p = "drain" => Stopping,
           conn' \in [Conn -> {"away", "backlog", "live", "aborted", "finished", "closed"}],
           \A x \in Conn : conn'[x] = conn[x] \/ (conn'[x] = "closed") \/ (conn'[x] = "live" /\ on[x] = l)
    PROVE  TaskInv'
<1>0. \A k \in Listener : at'[k] = IF k = l THEN p ELSE at[k] BY Zenon DEF TaskInv, TaskTypeOK
<1>1. TaskTypeOK'
  <2>1. p \in Running \cup {"done", "failed", "joined", "dropped"} BY Zenon
  <2> QED BY <2>1, Zenon DEF TaskInv, TaskTypeOK
<1>2. on \in [Conn -> Listener] BY Zenon DEF TaskInv, TaskTypeOK
<1>3. TaskHasOwner'
  <2> SUFFICES ASSUME NEW x \in Conn, conn'[x] \in {"backlog", "live", "finished"}
               PROVE  at'[on[x]] \in Running
    BY Zenon DEF TaskHasOwner
  <2>1. CASE on[x] = l BY <1>0, <1>2, <2>1, ZenonT(60)
  <2>2. CASE on[x] # l
    <3>1. conn'[x] = conn[x] BY <2>2
    <3> QED BY <1>0, <1>2, <2>2, <3>1, ZenonT(60) DEF TaskInv, TaskHasOwner
  <2> QED BY <2>1, <2>2, Zenon
<1>4. p \notin {"done", "joined"} BY DEF Running
<1>5. DrainInv'
  <2>1. \A k \in Listener : at'[k] \in {"drain", "done", "joined"} => Stopping'
    BY <1>0, <1>4, ZenonT(60) DEF TaskInv, DrainInv, Stopping
  <2>2. ASSUME NEW x \in Conn, conn'[x] = "aborted"
        PROVE  at'[on[x]] # "done" /\ (clean' => at'[on[x]] # "joined")
    <3>1. conn[x] = "aborted" BY <2>2
    <3>2. at[on[x]] # "done" /\ (clean => at[on[x]] # "joined") BY <3>1, Zenon DEF TaskInv, DrainInv
    <3>3. p # "done" /\ p # "joined" BY <1>4, Zenon
    <3>4. on[x] \in Listener BY <1>2, Zenon
    <3> QED BY <1>0, <3>2, <3>3, <3>4, Zenon
  <2>3. ~(phase = "returned" /\ clean)
    BY Zenon DEF TaskInv, DrainInv, Running
  <2> QED BY <2>1, <2>2, <2>3, Zenon DEF DrainInv
<1> QED BY <1>1, <1>3, <1>5, Zenon DEF TaskInv

\* What the fatal end of a loop, or the end of its drain, does to the
\* connections of a listener: none is left to it.
LEMMA LoopEnds ==
    ASSUME TaskInv, NEW l \in Listener, NEW p \in {"done", "failed"}, at[l] \in Running,
           at' = [at EXCEPT ![l] = p], UNCHANGED <<on, phase, clean>>,
           p = "done" => Stopping,
           conn' \in [Conn -> {"away", "backlog", "live", "aborted", "finished", "closed"}],
           \A x \in Conn : on[x] = l => conn'[x] \notin {"backlog", "live", "finished"},
           \A x \in Conn : on[x] = l /\ p = "done" => conn'[x] # "aborted",
           \A x \in Conn : on[x] # l => conn'[x] = conn[x]
    PROVE  TaskInv'
<1>0. \A k \in Listener : at'[k] = IF k = l THEN p ELSE at[k] BY Zenon DEF TaskInv, TaskTypeOK
<1>1. TaskTypeOK'
  <2>1. p \in Running \cup {"done", "failed", "joined", "dropped"} BY Zenon
  <2> QED BY <2>1, Zenon DEF TaskInv, TaskTypeOK
<1>2. on \in [Conn -> Listener] BY Zenon DEF TaskInv, TaskTypeOK
<1>3. TaskHasOwner'
  <2> SUFFICES ASSUME NEW x \in Conn, conn'[x] \in {"backlog", "live", "finished"}
               PROVE  at'[on[x]] \in Running
    BY Zenon DEF TaskHasOwner
  <2>1. on[x] # l /\ conn'[x] = conn[x] BY Zenon
  <2> QED BY <1>0, <1>2, <2>1, ZenonT(60) DEF TaskInv, TaskHasOwner
<1>4. p # "joined" /\ p # "drain" BY Zenon
<1>5. DrainInv'
  <2>1. \A k \in Listener : at'[k] \in {"drain", "done", "joined"} => Stopping'
    BY <1>0, <1>4, ZenonT(60) DEF TaskInv, DrainInv, Stopping
  <2>2. ASSUME NEW x \in Conn, conn'[x] = "aborted"
        PROVE  at'[on[x]] # "done" /\ (clean' => at'[on[x]] # "joined")
    <3>0. on[x] \in Listener BY <1>2, Zenon
    <3>1. CASE on[x] = l BY <1>0, <1>4, <2>2, <3>1, Zenon
    <3>2. CASE on[x] # l BY <1>0, <2>2, <3>0, <3>2, ZenonT(60) DEF TaskInv, DrainInv
    <3> QED BY <3>1, <3>2, Zenon
  <2>3. ~(phase = "returned" /\ clean)
    BY Zenon DEF TaskInv, DrainInv, Running
  <2> QED BY <2>1, <2>2, <2>3, Zenon DEF DrainInv
<1> QED BY <1>1, <1>3, <1>5, Zenon DEF TaskInv

\* The set of tasks of a listener that gives up is dropped.
LEMMA AcceptFatalKeeps ==
    ASSUME TaskInv, NEW l \in Listener, AcceptFatal(l)
    PROVE  TaskInv'
<1> DEFINE C == {"away", "backlog", "live", "aborted", "finished", "closed"}
<1>1. /\ at[l] \in Running /\ at' = [at EXCEPT ![l] = "failed"] /\ UNCHANGED <<on, phase, clean>>
      /\ conn' = [c \in Conn |-> IF c \in Of(l, {"live"}) THEN "aborted"
                                 ELSE IF c \in Of(l, {"backlog", "finished"}) THEN "closed" ELSE conn[c]]
  BY Zenon DEF AcceptFatal, Goto, Environment, supervisor, Running
<1>2. conn \in [Conn -> C] BY Zenon DEF TaskInv, TaskTypeOK
<1>3. conn' \in [Conn -> C] BY <1>1, <1>2, Zenon
<1>4. \A x \in Conn : on[x] # l => conn'[x] = conn[x] BY <1>1, Zenon DEF Of
<1>5. ASSUME NEW x \in Conn, on[x] = l PROVE conn'[x] \notin {"backlog", "live", "finished"}
  BY <1>1, <1>5, ZenonT(30) DEF Of
<1>6. "failed" # "done" BY Zenon
<1> QED BY <1>1, <1>3, <1>4, <1>5, <1>6, LoopEnds, Zenon

\* The drain of a listener.
LEMMA DrainKeeps ==
    ASSUME TaskInv, NEW l \in Listener, Drain(l)
    PROVE  TaskInv'
<1> DEFINE C == {"away", "backlog", "live", "aborted", "finished", "closed"}
<1>0. /\ at[l] = "drain" /\ at[l] \in Running /\ Stopping /\ UNCHANGED <<on, phase, clean>>
      /\ conn \in [Conn -> C]
  BY Zenon DEF Drain, Environment, supervisor, Running, TaskInv, TaskTypeOK, DrainInv
<1>1. CASE Reap(l) /\ UNCHANGED at
  BY <1>0, <1>1, OneTaskMoves, Zenon DEF Reap, Of
<1>2. CASE /\ UNCHANGED at
           /\ conn' = [c \in Conn |-> IF c \in Of(l, {"live"}) THEN "aborted" ELSE conn[c]]
  <2>1. conn' \in [Conn -> C] BY <1>0, <1>2, Zenon
  <2>2. ASSUME NEW x \in Conn
        PROVE  conn'[x] = conn[x] \/ (conn'[x] = "aborted" /\ on[x] = l)
    BY <1>2, Zenon DEF Of
  <2>3. TaskTypeOK' BY <1>0, <1>2, <2>1, Zenon DEF TaskInv, TaskTypeOK
  <2>4. TaskHasOwner' BY <1>0, <1>2, <2>2, Zenon DEF TaskInv, TaskHasOwner
  <2>5. DrainInv' BY <1>0, <1>2, <2>2, ZenonT(60) DEF TaskInv, DrainInv, Stopping
  <2> QED BY <2>3, <2>4, <2>5, Zenon DEF TaskInv
<1>3. CASE /\ Of(l, {"live", "aborted", "finished"}) = {} /\ Goto(l, "done")
           /\ conn' = [c \in Conn |-> IF c \in Of(l, {"backlog"}) THEN "closed" ELSE conn[c]]
  <2>1. conn' \in [Conn -> C] BY <1>0, <1>3, Zenon
  <2>2. \A x \in Conn : on[x] # l => conn'[x] = conn[x] BY <1>3, Zenon DEF Of
  <2>3. ASSUME NEW x \in Conn, on[x] = l
        PROVE  conn'[x] \notin {"backlog", "live", "finished"} /\ conn'[x] # "aborted"
    BY <1>3, <2>3, ZenonT(30) DEF Of
  <2> QED BY <1>0, <1>3, <2>1, <2>2, <2>3, LoopEnds, ZenonT(60) DEF Goto
<1> QED BY <1>1, <1>2, <1>3, Zenon DEF Drain

\* The accept loop of a listener.
LEMMA LoopKeeps ==
    ASSUME TaskInv, NEW l \in Listener,
           Gate(l) \/ Acquire(l) \/ LeaveAccept(l) \/ AcceptStream(l) \/ Backoff(l)
           \/ OwnershipTick(l) \/ AcceptFails(l)
    PROVE  TaskInv'
<1> DEFINE C == {"away", "backlog", "live", "aborted", "finished", "closed"}
           Closes == \A x \in Conn : conn'[x] = conn[x] \/ (conn'[x] = "closed")
                                     \/ (conn'[x] = "live" /\ on[x] = l)
           Moves == \/ at' = at
                    \/ \E p \in Running : at' = [at EXCEPT ![l] = p] /\ (p = "drain" => Stopping)
<1>0. conn \in [Conn -> C] /\ at \in [Listener -> Running \cup {"done", "failed", "joined", "dropped"}]
  BY Zenon DEF TaskInv, TaskTypeOK
<1>r. ASSUME NEW c \in Conn, NEW s \in {"closed", "live"}, conn' = [conn EXCEPT ![c] = s],
             s = "live" => on[c] = l
      PROVE  conn' \in [Conn -> C] /\ Closes
  <2>1. s \in C BY Zenon
  <2>2. conn' \in [Conn -> C] BY <1>0, <1>r, <2>1, Zenon
  <2>3. \A x \in Conn : conn'[x] = IF x = c THEN s ELSE conn[x] BY <1>0, <1>r, Zenon
  <2> QED BY <1>r, <2>2, <2>3, Zenon
<1>u. UNCHANGED conn => conn' \in [Conn -> C] /\ Closes BY <1>0, Zenon
<1>p. Reap(l) => conn' \in [Conn -> C] /\ Closes BY <1>r, Zenon DEF Reap, Of
<1>1. at[l] \in Running /\ UNCHANGED <<on, phase, clean>>
  BY Zenon DEF Gate, Acquire, LeaveAccept, AcceptStream, Backoff, OwnershipTick, AcceptFails,
               Environment, supervisor, Running
<1>g. {"gate", "acquire", "accept", "backoff", "drain"} = Running /\ "gate" # "drain"
      /\ "acquire" # "drain" /\ "accept" # "drain" /\ "backoff" # "drain"
  BY Zenon DEF Running
<1>2. conn' \in [Conn -> C] /\ Closes /\ Moves
  <2>1. CASE Gate(l)
    <3>1. conn' \in [Conn -> C] /\ Closes BY <2>1, <1>u, <1>p, Zenon DEF Gate
    <3>2. Moves BY <2>1, <1>g, Zenon DEF Gate, Goto
    <3> QED BY <3>1, <3>2, Zenon
  <2>2. CASE Acquire(l)
    <3>1. conn' \in [Conn -> C] /\ Closes BY <2>2, <1>u, <1>p, Zenon DEF Acquire
    <3>2. Moves BY <2>2, <1>g, Zenon DEF Acquire, Goto
    <3> QED BY <3>1, <3>2, Zenon
  <2>3. CASE LeaveAccept(l)
    <3>1. conn' \in [Conn -> C] /\ Closes BY <2>3, <1>u, <1>p, Zenon DEF LeaveAccept
    <3>2. Moves BY <2>3, <1>g, Zenon DEF LeaveAccept, Goto
    <3> QED BY <3>1, <3>2, Zenon
  <2>4. CASE AcceptStream(l)
    <3>1. conn' \in [Conn -> C] /\ Closes BY <2>4, <1>r, Zenon DEF AcceptStream, Of
    <3>2. Moves BY <2>4, <1>g, Zenon DEF AcceptStream, Goto
    <3> QED BY <3>1, <3>2, Zenon
  <2>5. CASE Backoff(l)
    <3>1. conn' \in [Conn -> C] /\ Closes BY <2>5, <1>u, Zenon DEF Backoff
    <3>2. Moves BY <2>5, <1>g, Zenon DEF Backoff, Goto
    <3> QED BY <3>1, <3>2, Zenon
  <2>6. CASE OwnershipTick(l)
    <3>1. conn' \in [Conn -> C] /\ Closes BY <2>6, <1>u, Zenon DEF OwnershipTick
    <3>2. Moves BY <2>6, <1>g, Zenon DEF OwnershipTick, Goto
    <3> QED BY <3>1, <3>2, Zenon
  <2>7. CASE AcceptFails(l)
    <3>1. conn' \in [Conn -> C] /\ Closes BY <2>7, <1>u, <1>r, Zenon DEF AcceptFails, Recover, Of
    <3>2. Moves BY <2>7, <1>g, Zenon DEF AcceptFails, Goto
    <3> QED BY <3>1, <3>2, Zenon
  <2> QED BY <2>1, <2>2, <2>3, <2>4, <2>5, <2>6, <2>7, Zenon
<1>3. at = [at EXCEPT ![l] = at[l]] BY <1>0, Zenon
<1>4. at[l] = "drain" => Stopping BY Zenon DEF TaskInv, DrainInv
<1>5. \E p \in Running : at' = [at EXCEPT ![l] = p] /\ (p = "drain" => Stopping)
  BY <1>1, <1>2, <1>3, <1>4, Zenon
<1> QED BY <1>1, <1>2, <1>5, LoopMoves, Zenon

\* One listener task is joined.
LEMMA JoinKeeps ==
    ASSUME TaskInv, NEW l \in Listener, at[l] \in {"done", "failed"},
           at' = [at EXCEPT ![l] = "joined"], UNCHANGED <<conn, on>>,
           phase' = "draining", at[l] = "failed" => ~clean', clean' => clean
    PROVE  TaskInv'
<1>0. \A k \in Listener : at'[k] = IF k = l THEN "joined" ELSE at[k] BY Zenon DEF TaskInv, TaskTypeOK
<1>1. TaskTypeOK' BY Zenon DEF TaskInv, TaskTypeOK
<1>2. on \in [Conn -> Listener] BY Zenon DEF TaskInv, TaskTypeOK
<1>3. TaskHasOwner'
  <2> SUFFICES ASSUME NEW x \in Conn, conn[x] \in {"backlog", "live", "finished"}
               PROVE  at'[on[x]] \in Running
    BY Zenon DEF TaskHasOwner
  <2>1. at[on[x]] \in Running BY Zenon DEF TaskInv, TaskHasOwner
  <2>2. at[l] \notin Running BY Zenon DEF Running
  <2> QED BY <1>0, <1>2, <2>1, <2>2, Zenon
<1>4. Stopping' /\ phase' # "returned" BY Zenon DEF Stopping
<1>5. ASSUME NEW x \in Conn, conn'[x] = "aborted"
      PROVE  at'[on[x]] # "done" /\ (clean' => at'[on[x]] # "joined")
  <2>1. at[on[x]] # "done" /\ (clean => at[on[x]] # "joined") BY <1>5, Zenon DEF TaskInv, DrainInv
  <2>2. CASE on[x] = l
    <3>1. at[l] = "failed" BY <2>1, <2>2, Zenon
    <3>2. at'[on[x]] = "joined" BY <1>0, <2>2, Zenon
    <3> QED BY <3>1, <3>2, Zenon
  <2>3. CASE on[x] # l BY <1>0, <1>2, <2>1, <2>3, Zenon
  <2> QED BY <2>2, <2>3, Zenon
<1> QED BY <1>1, <1>3, <1>4, <1>5, Zenon DEF TaskInv, DrainInv

\* A failure is returned: the tasks still running are dropped.
LEMMA ReturnFailureKeeps ==
    ASSUME TaskInv, NEW l \in Listener, ReturnFailure(l)
    PROVE  TaskInv'
<1> DEFINE C == {"away", "backlog", "live", "aborted", "finished", "closed"}
           dropped == {k \in Listener : at[k] \notin {"joined", "done", "failed"}}
<1>1. /\ phase' = "returned" /\ clean' = FALSE /\ on' = on /\ Stopping
      /\ at' = [k \in Listener |-> IF k \in dropped THEN "dropped" ELSE at[k]]
      /\ conn' = [c \in Conn |-> IF on[c] \notin dropped THEN conn[c]
                                 ELSE IF conn[c] = "live" THEN "aborted"
                                 ELSE IF conn[c] \in {"backlog", "finished"} THEN "closed" ELSE conn[c]]
  BY Zenon DEF ReturnFailure, Stopping
<1>2. /\ at \in [Listener -> Running \cup {"done", "failed", "joined", "dropped"}]
      /\ conn \in [Conn -> C] /\ on \in [Conn -> Listener]
  BY Zenon DEF TaskInv, TaskTypeOK
<1>3. TaskTypeOK' BY <1>1, <1>2, Zenon DEF TaskTypeOK
<1>4. ASSUME NEW x \in Conn PROVE conn'[x] \notin {"backlog", "live", "finished"}
  <2>1. CASE on[x] \in dropped BY <1>1, <2>1, Zenon
  <2>2. CASE on[x] \notin dropped
    <3>1. at[on[x]] \in {"joined", "done", "failed"} BY <1>2, <2>2, Zenon
    <3>2. at[on[x]] \notin Running BY <3>1, Zenon DEF Running
    <3> QED BY <1>1, <2>2, <3>2, Zenon DEF TaskInv, TaskHasOwner
  <2> QED BY <2>1, <2>2, Zenon
<1>5. TaskHasOwner' BY <1>4, Zenon DEF TaskHasOwner
<1>6. ASSUME NEW x \in Conn, conn'[x] = "aborted" PROVE at'[on[x]] # "done"
  <2>1. CASE on[x] \in dropped BY <1>1, <1>2, <2>1, Zenon
  <2>2. CASE on[x] \notin dropped BY <1>1, <1>2, <1>6, <2>2, Zenon DEF TaskInv, DrainInv
  <2> QED BY <2>1, <2>2, Zenon
<1>7. Stopping' BY <1>1, Zenon DEF Stopping
<1> QED BY <1>1, <1>3, <1>5, <1>6, <1>7, Zenon DEF TaskInv, DrainInv

\* Every step of the process keeps TaskInv.
LEMMA TasksStep == TaskInv /\ [LifecycleNext]_lifecycle => TaskInv'
<1> SUFFICES ASSUME TaskInv, [LifecycleNext]_lifecycle PROVE TaskInv'
  BY Zenon
<1> USE DEF publication, supervisor, accepting
<1>1. CASE OperatorReloads \/ MonitorSets \/ RefreshAssets \/ UpdateThread \/ ReceiveReload \/ JoinUpdate
           \/ UNCHANGED lifecycle
  BY <1>1, TasksFrame, Zenon
       DEF OperatorReloads, MonitorSets, RefreshAssets, UpdateThread, ReadConfig, RejectConfig,
           StoreCandidate, RetireOld, ReceiveReload, JoinUpdate, lifecycle
<1>2. ASSUME NEW c \in Conn, Arrive(c) \/ Finish(c) \/ DropAborted(c) PROVE TaskInv'
  <2>0. at \in [Listener -> Running \cup {"done", "failed", "joined", "dropped"}] /\ on[c] \in Listener
    BY Zenon DEF TaskInv, TaskTypeOK
  <2>1. CASE Arrive(c)
    <3>1. at[on[c]] \in Running BY <2>0, <2>1, Zenon DEF Arrive
    <3> QED BY <2>1, <3>1, OneTaskMoves, Zenon DEF Arrive
  <2>2. CASE Finish(c)
    <3>1. at[on[c]] \in Running BY <2>2, Zenon DEF Finish, TaskInv, TaskHasOwner
    <3> QED BY <2>2, <3>1, OneTaskMoves, Zenon DEF Finish
  <2>3. CASE DropAborted(c)
    <3>1. CASE at[on[c]] = "drain"
      <4>1. at[on[c]] \in Running BY <3>1, Zenon DEF Running
      <4>2. conn' = [conn EXCEPT ![c] = "finished"] BY <2>3, <3>1, Zenon DEF DropAborted
      <4> QED BY <2>3, <4>1, <4>2, OneTaskMoves, Zenon DEF DropAborted
    <3>2. CASE at[on[c]] # "drain"
      <4>1. conn' = [conn EXCEPT ![c] = "closed"] BY <2>3, <3>2, Zenon DEF DropAborted
      <4> QED BY <2>3, <4>1, OneTaskMoves, Zenon DEF DropAborted
    <3> QED BY <3>1, <3>2, Zenon
  <2> QED BY <1>2, <2>1, <2>2, <2>3, Zenon
<1>3. CASE ShutdownSignal
  <2>1. /\ phase = "running" /\ phase' = "draining" /\ UNCHANGED <<at, conn, on>>
    BY <1>3, Zenon DEF ShutdownSignal, LeaveLoop
  <2>2. \A k \in Listener : at[k] \notin {"drain", "done", "joined"}
    BY <2>1, Zenon DEF TaskInv, DrainInv, Stopping
  <2>3. Stopping' /\ phase' # "returned" BY <2>1, Zenon DEF Stopping
  <2>4. TaskTypeOK' /\ TaskHasOwner' BY <2>1, Zenon DEF TaskInv, TaskTypeOK, TaskHasOwner
  <2>5. \A c \in Conn : on[c] \in Listener BY Zenon DEF TaskInv, TaskTypeOK
  <2> QED BY <2>1, <2>2, <2>3, <2>4, <2>5, Zenon DEF TaskInv, DrainInv
<1>4. ASSUME NEW l \in Listener, ListenerEnded(l) PROVE TaskInv'
  BY <1>4, JoinKeeps, Zenon DEF ListenerEnded, LeaveLoop
<1>5. ASSUME NEW l \in Listener, JoinListener(l) PROVE TaskInv'
  <2>1. at[l] \in {"done", "failed"} /\ phase' = "draining" /\ clean' = clean
        /\ (at[l] = "failed" => ~clean) /\ at' = [at EXCEPT ![l] = "joined"] /\ UNCHANGED <<conn, on>>
    BY <1>5, Zenon DEF JoinListener
  <2> QED BY <2>1, JoinKeeps, Zenon
<1>6. ASSUME NEW l \in Listener, ReturnFailure(l) PROVE TaskInv'
  BY <1>6, ReturnFailureKeeps, Zenon
<1>7. CASE ReturnDrained
  <2>1. /\ \A k \in Listener : at[k] = "joined"
        /\ phase' = "returned" /\ UNCHANGED <<clean, at, conn, on>>
    BY <1>7, Zenon DEF ReturnDrained
  <2>2. Stopping' BY <2>1, Zenon DEF Stopping
  <2> QED BY <2>1, <2>2, Zenon DEF TaskInv, TaskTypeOK, TaskHasOwner, DrainInv
<1>8. ASSUME NEW l \in Listener,
             RunListener(l) \/ OwnershipTick(l) \/ AcceptFails(l) \/ AcceptFatal(l)
      PROVE  TaskInv'
  BY <1>8, LoopKeeps, DrainKeeps, AcceptFatalKeeps, Zenon DEF RunListener
<1> QED BY <1>1, <1>2, <1>3, <1>4, <1>5, <1>6, <1>7, <1>8, Zenon DEF LifecycleNext, Supervise

\* The holders of units are finitely many.
LEMMA HoldersAreFinite ==
    /\ IsFiniteSet(Accepting) /\ Cardinality(Accepting) \in Nat
    /\ IsFiniteSet(Tasks) /\ Cardinality(Tasks) \in Nat
<1>1. Accepting \subseteq Listener /\ Tasks \subseteq Conn BY Zenon DEF Accepting, Tasks
<1> QED BY <1>1, LifecycleConstants, FS_Subset, FS_CardinalityType, Zenon

\* What a step does to the holders and the counter.
Keeps == Accepting' = Accepting /\ Tasks' = Tasks /\ used' = used
Reserves(l) == /\ l \notin Accepting /\ Accepting' = Accepting \cup {l} /\ Tasks' = Tasks
               /\ used < Units /\ used' = used + 1
Returns(l) == l \in Accepting /\ Accepting' = Accepting \ {l} /\ Tasks' = Tasks /\ used' = used - 1
HandsOver(l, c) == /\ l \in Accepting /\ Accepting' = Accepting \ {l}
                   /\ c \notin Tasks /\ Tasks' = Tasks \cup {c} /\ used' = used
Ends(c) == c \in Tasks /\ Tasks' = Tasks \ {c} /\ Accepting' = Accepting /\ used' = used - 1
ReturnsAll == Accepting' = {} /\ Tasks' = Tasks /\ used' = used - Cardinality(Accepting)
UnitStep == \/ Keeps \/ ReturnsAll \/ \E c \in Conn : Ends(c)
            \/ \E l \in Listener : Reserves(l) \/ Returns(l) \/ \E c \in Conn : HandsOver(l, c)

\* Each of these keeps the count.
LEMMA UnitStepKeeps ==
    ASSUME UnitsAreHeld, UnitStep
    PROVE  UnitsAreHeld'
<1> DEFINE a == Cardinality(Accepting)
           t == Cardinality(Tasks)
<1>0. a \in Nat /\ t \in Nat /\ IsFiniteSet(Accepting) /\ IsFiniteSet(Tasks)
      /\ used = a + t /\ used <= Units /\ Units \in Nat
  BY HoldersAreFinite, LifecycleConstants, Zenon DEF UnitsAreHeld
<1>1. CASE Keeps BY <1>1, Zenon DEF Keeps, UnitsAreHeld
<1>2. CASE ReturnsAll
  <2>1. Cardinality(Accepting') = 0 /\ Cardinality(Tasks') = t /\ used' = used - a
    BY <1>2, FS_EmptySet, Zenon DEF ReturnsAll
  <2> HIDE DEF a, t
  <2> QED BY <1>0, <2>1 DEF UnitsAreHeld
<1>3. ASSUME NEW c \in Conn, Ends(c) PROVE UnitsAreHeld'
  <2>1. Cardinality(Accepting') = a /\ Cardinality(Tasks') = t - 1 /\ used' = used - 1
    BY <1>0, <1>3, FS_RemoveElement, Zenon DEF Ends
  <2> HIDE DEF a, t
  <2> QED BY <1>0, <2>1 DEF UnitsAreHeld
<1>4. ASSUME NEW l \in Listener, Reserves(l) PROVE UnitsAreHeld'
  <2>1. Cardinality(Accepting') = a + 1 /\ Cardinality(Tasks') = t /\ used' = used + 1 /\ used < Units
    BY <1>0, <1>4, FS_AddElement, Zenon DEF Reserves
  <2> HIDE DEF a, t
  <2> QED BY <1>0, <2>1 DEF UnitsAreHeld
<1>5. ASSUME NEW l \in Listener, Returns(l) PROVE UnitsAreHeld'
  <2>1. Cardinality(Accepting') = a - 1 /\ Cardinality(Tasks') = t /\ used' = used - 1
    BY <1>0, <1>5, FS_RemoveElement, Zenon DEF Returns
  <2> HIDE DEF a, t
  <2> QED BY <1>0, <2>1 DEF UnitsAreHeld
<1>6. ASSUME NEW l \in Listener, NEW c \in Conn, HandsOver(l, c) PROVE UnitsAreHeld'
  <2>1. Cardinality(Accepting') = a - 1 /\ Cardinality(Tasks') = t + 1 /\ used' = used
    BY <1>0, <1>6, FS_RemoveElement, FS_AddElement, Zenon DEF HandsOver
  <2> HIDE DEF a, t
  <2> QED BY <1>0, <2>1 DEF UnitsAreHeld
<1> QED BY <1>1, <1>2, <1>3, <1>4, <1>5, <1>6, Zenon DEF UnitStep

\* A listener moves: only its own membership of Accepting can change.
LEMMA AcceptingMoves ==
    ASSUME TaskInv, NEW l \in Listener, NEW p, at' = [at EXCEPT ![l] = p], p # "accept"
    PROVE  /\ at[l] = "accept" => l \in Accepting /\ Accepting' = Accepting \ {l}
           /\ at[l] # "accept" => Accepting' = Accepting
<1>1. \A k \in Listener : at'[k] = IF k = l THEN p ELSE at[k] BY Zenon DEF TaskInv, TaskTypeOK
<1>2. ASSUME at[l] = "accept" PROVE l \in Accepting /\ Accepting' = Accepting \ {l}
  <2>1. l \in Accepting BY <1>2, Zenon DEF Accepting
  <2>2. \A k : k \in Accepting' <=> k \in Accepting \ {l} BY <1>1, Zenon DEF Accepting
  <2> QED BY <2>1, <2>2, Zenon
<1>3. ASSUME at[l] # "accept" PROVE Accepting' = Accepting
  <2>1. \A k : k \in Accepting' <=> k \in Accepting BY <1>1, <1>3, Zenon DEF Accepting
  <2> QED BY <2>1, Zenon
<1> QED BY <1>2, <1>3, Zenon

\* A connection moves: only its own membership of Tasks can change.
LEMMA TasksMove ==
    ASSUME TaskInv, NEW c \in Conn, NEW s, conn' = [conn EXCEPT ![c] = s]
    PROVE  /\ s \notin {"live", "aborted"} /\ c \notin Tasks => Tasks' = Tasks
           /\ s \notin {"live", "aborted"} /\ c \in Tasks => Tasks' = Tasks \ {c}
           /\ s \in {"live", "aborted"} => Tasks' = Tasks \cup {c}
<1>1. \A x \in Conn : conn'[x] = IF x = c THEN s ELSE conn[x] BY Zenon DEF TaskInv, TaskTypeOK
<1>2. ASSUME s \notin {"live", "aborted"}, c \notin Tasks PROVE Tasks' = Tasks
  <2>1. \A x : x \in Tasks' <=> x \in Tasks BY <1>1, <1>2, Zenon DEF Tasks
  <2> QED BY <2>1, Zenon
<1>3. ASSUME s \notin {"live", "aborted"}, c \in Tasks PROVE Tasks' = Tasks \ {c}
  <2>1. \A x : x \in Tasks' <=> x \in Tasks \ {c} BY <1>1, <1>3, Zenon DEF Tasks
  <2> QED BY <2>1, Zenon
<1>4. ASSUME s \in {"live", "aborted"} PROVE Tasks' = Tasks \cup {c}
  <2>1. \A x : x \in Tasks' <=> x \in Tasks \cup {c} BY <1>1, <1>4, Zenon DEF Tasks
  <2> QED BY <2>1, Zenon
<1> QED BY <1>2, <1>3, <1>4, Zenon

\* Neither an ended task that is joined nor a connection closed in the
\* backlog held a unit.
LEMMA IdleConnections ==
    ASSUME TaskInv, NEW l \in Listener
    PROVE  /\ Reap(l) => Tasks' = Tasks
           /\ \A c \in Of(l, {"backlog"}) : conn' = [conn EXCEPT ![c] = "closed"] => Tasks' = Tasks
<1>1. ASSUME NEW c \in Conn, conn[c] \in {"backlog", "finished"}, conn' = [conn EXCEPT ![c] = "closed"]
      PROVE  Tasks' = Tasks
  <2>1. c \notin Tasks /\ "closed" \notin {"live", "aborted"} BY <1>1, Zenon DEF Tasks
  <2> QED BY <1>1, <2>1, TasksMove, Zenon
<1> QED BY <1>1, Zenon DEF Reap, Of

\* A connection that is served becomes one that is aborted, and others close.
LEMMA AbortKeepsTasks ==
    ASSUME \A x \in Conn : conn'[x] \in {"live", "aborted"} <=> conn[x] \in {"live", "aborted"}
    PROVE  Tasks' = Tasks
BY Zenon DEF Tasks

\* The accept loop and the units.
LEMMA LoopUnits ==
    ASSUME TaskInv, NEW l \in Listener,
           RunListener(l) \/ OwnershipTick(l) \/ AcceptFails(l) \/ AcceptFatal(l)
    PROVE  UnitStep
<1>c. UNCHANGED conn => Tasks' = Tasks BY Zenon DEF Tasks
<1>a. UNCHANGED at => Accepting' = Accepting BY Zenon DEF Accepting
<1>s. /\ "drain" # "accept" /\ "acquire" # "accept" /\ "gate" # "accept" /\ "backoff" # "accept"
      /\ "failed" # "accept" /\ "done" # "accept"
  BY Zenon
<1>1. CASE Gate(l)
  <2>1. at[l] # "accept" /\ used' = used BY <1>1, Zenon DEF Gate
  <2>2. Tasks' = Tasks BY <1>1, <1>c, IdleConnections, Zenon DEF Gate
  <2>3. Accepting' = Accepting BY <1>1, <2>1, <1>a, <1>s, AcceptingMoves, Zenon DEF Gate, Goto
  <2> QED BY <2>1, <2>2, <2>3, Zenon DEF UnitStep, Keeps
<1>2. CASE Acquire(l)
  <2>1. at[l] # "accept" BY <1>2, Zenon DEF Acquire
  <2>2. Tasks' = Tasks BY <1>2, <1>c, IdleConnections, Zenon DEF Acquire
  <2>3. CASE used < Units /\ used' = used + 1 /\ Goto(l, "accept")
    <3>1. \A k \in Listener : at'[k] = IF k = l THEN "accept" ELSE at[k]
      BY <2>3, Zenon DEF Goto, TaskInv, TaskTypeOK
    <3>2. \A k : k \in Accepting' <=> k \in Accepting \cup {l} BY <3>1, Zenon DEF Accepting
    <3>3. Accepting' = Accepting \cup {l} /\ l \notin Accepting BY <2>1, <3>2, Zenon DEF Accepting
    <3> QED BY <2>2, <2>3, <3>3, Zenon DEF UnitStep, Reserves
  <2>4. CASE used' = used /\ (Goto(l, "drain") \/ Goto(l, "gate"))
    <3>1. Accepting' = Accepting BY <2>1, <2>4, <1>s, AcceptingMoves, Zenon DEF Goto
    <3> QED BY <2>2, <2>4, <3>1, Zenon DEF UnitStep, Keeps
  <2> QED BY <1>2, <2>3, <2>4, Zenon DEF Acquire
<1>3. CASE LeaveAccept(l)
  <2>1. at[l] = "accept" /\ used' = used - 1 BY <1>3, Zenon DEF LeaveAccept
  <2>2. Tasks' = Tasks BY <1>3, <1>c, IdleConnections, Zenon DEF LeaveAccept
  <2>3. l \in Accepting /\ Accepting' = Accepting \ {l}
    BY <1>3, <2>1, <1>s, AcceptingMoves, Zenon DEF LeaveAccept, Goto
  <2> QED BY <2>1, <2>2, <2>3, Zenon DEF UnitStep, Returns
<1>4. CASE OwnershipTick(l)
  <2>1. at[l] = "accept" /\ used' = used - 1 /\ Tasks' = Tasks BY <1>4, <1>c, Zenon DEF OwnershipTick
  <2>2. l \in Accepting /\ Accepting' = Accepting \ {l}
    BY <1>4, <2>1, <1>s, AcceptingMoves, Zenon DEF OwnershipTick, Goto
  <2> QED BY <2>1, <2>2, Zenon DEF UnitStep, Returns
<1>5. CASE AcceptStream(l)
  <2>1. l \in Accepting /\ Accepting' = Accepting \ {l}
    BY <1>5, <1>s, AcceptingMoves, Zenon DEF AcceptStream, Goto
  <2>2. PICK c \in Of(l, {"backlog"}) :
             \/ conn' = [conn EXCEPT ![c] = "live"] /\ UNCHANGED used
             \/ conn' = [conn EXCEPT ![c] = "closed"] /\ used' = used - 1
    BY <1>5, Zenon DEF AcceptStream
  <2>3. c \in Conn /\ c \notin Tasks BY <2>2, Zenon DEF Of, Tasks
  <2>4. CASE conn' = [conn EXCEPT ![c] = "live"] /\ UNCHANGED used
    <3>1. Tasks' = Tasks \cup {c} BY <2>3, <2>4, TasksMove, Zenon
    <3> QED BY <2>1, <2>3, <2>4, <3>1, Zenon DEF UnitStep, HandsOver
  <2>5. CASE conn' = [conn EXCEPT ![c] = "closed"] /\ used' = used - 1
    <3>1. Tasks' = Tasks BY <2>2, <2>5, IdleConnections, Zenon
    <3> QED BY <2>1, <2>5, <3>1, Zenon DEF UnitStep, Returns
  <2> QED BY <2>2, <2>4, <2>5, Zenon
<1>6. CASE Backoff(l)
  <2>1. at[l] # "accept" /\ used' = used /\ Tasks' = Tasks BY <1>6, <1>c, Zenon DEF Backoff
  <2>2. Accepting' = Accepting BY <1>6, <2>1, <1>s, AcceptingMoves, Zenon DEF Backoff, Goto
  <2> QED BY <2>1, <2>2, Zenon DEF UnitStep, Keeps
<1>7. CASE Drain(l)
  <2>1. at[l] # "accept" /\ used' = used BY <1>7, Zenon DEF Drain
  <2>2. Accepting' = Accepting BY <1>7, <2>1, <1>a, <1>s, AcceptingMoves, Zenon DEF Drain, Goto
  <2>3. Tasks' = Tasks
    <3>1. CASE Reap(l) BY <3>1, IdleConnections, Zenon
    <3>2. CASE conn' = [c \in Conn |-> IF c \in Of(l, {"live"}) THEN "aborted" ELSE conn[c]]
      BY <3>2, AbortKeepsTasks, Zenon DEF Of
    <3>3. CASE conn' = [c \in Conn |-> IF c \in Of(l, {"backlog"}) THEN "closed" ELSE conn[c]]
      BY <3>3, AbortKeepsTasks, Zenon DEF Of
    <3> QED BY <1>7, <3>1, <3>2, <3>3, Zenon DEF Drain
  <2> QED BY <2>1, <2>2, <2>3, Zenon DEF UnitStep, Keeps
<1>8. CASE AcceptFails(l)
  <2>1. at[l] = "accept" /\ used' = used - 1 BY <1>8, Zenon DEF AcceptFails
  <2>2. Tasks' = Tasks BY <1>8, <1>c, IdleConnections, Zenon DEF AcceptFails, Recover
  <2>3. l \in Accepting /\ Accepting' = Accepting \ {l}
    BY <1>8, <2>1, <1>s, AcceptingMoves, Zenon DEF AcceptFails, Goto
  <2> QED BY <2>1, <2>2, <2>3, Zenon DEF UnitStep, Returns
<1>9. CASE AcceptFatal(l)
  <2>1. at[l] = "accept" /\ used' = used - 1 BY <1>9, Zenon DEF AcceptFatal
  <2>2. conn' = [c \in Conn |-> IF c \in Of(l, {"live"}) THEN "aborted"
                 ELSE IF c \in Of(l, {"backlog", "finished"}) THEN "closed" ELSE conn[c]]
    BY <1>9, Zenon DEF AcceptFatal
  <2>3. Tasks' = Tasks BY <2>2, AbortKeepsTasks, Zenon DEF Of
  <2>4. l \in Accepting /\ Accepting' = Accepting \ {l}
    BY <1>9, <2>1, <1>s, AcceptingMoves, Zenon DEF AcceptFatal, Goto
  <2> QED BY <2>1, <2>3, <2>4, Zenon DEF UnitStep, Returns
<1> QED BY <1>1, <1>2, <1>3, <1>4, <1>5, <1>6, <1>7, <1>8, <1>9, Zenon DEF RunListener

\* Every step of the process either leaves the holders and the counter
\* alone or moves both together.
LEMMA EveryStepIsAUnitStep == TaskInv /\ [LifecycleNext]_lifecycle => UnitStep
<1> SUFFICES ASSUME TaskInv, [LifecycleNext]_lifecycle PROVE UnitStep
  BY Zenon
<1> USE DEF publication, supervisor, accepting
<1>c. UNCHANGED conn => Tasks' = Tasks BY Zenon DEF Tasks
<1>a. UNCHANGED at => Accepting' = Accepting BY Zenon DEF Accepting
<1>1. CASE UNCHANGED <<at, conn, used>>
  BY <1>1, <1>c, <1>a, Zenon DEF UnitStep, Keeps
<1>2. CASE \/ OperatorReloads \/ MonitorSets \/ RefreshAssets \/ UpdateThread \/ ReceiveReload
           \/ JoinUpdate \/ ShutdownSignal \/ ReturnDrained \/ UNCHANGED lifecycle
  BY <1>1, <1>2, Zenon
       DEF OperatorReloads, MonitorSets, RefreshAssets, UpdateThread, ReadConfig, RejectConfig,
           StoreCandidate, RetireOld, ReceiveReload, JoinUpdate, ShutdownSignal, ReturnDrained, lifecycle
<1>3. ASSUME NEW c \in Conn, Arrive(c) \/ Finish(c) \/ DropAborted(c) PROVE UnitStep
  <2>1. CASE Arrive(c)
    <3>1. c \notin Tasks /\ UNCHANGED <<at, used>> /\ conn' = [conn EXCEPT ![c] = "backlog"]
      BY <2>1, Zenon DEF Arrive, Tasks
    <3>2. Tasks' = Tasks BY <3>1, TasksMove, Zenon
    <3> QED BY <1>a, <3>1, <3>2, Zenon DEF UnitStep, Keeps
  <2>2. CASE Finish(c) \/ DropAborted(c)
    <3>1. c \in Tasks /\ UNCHANGED at /\ used' = used - 1 BY <2>2, Zenon DEF Finish, DropAborted, Tasks
    <3>2. PICK s \in {"finished", "closed"} : conn' = [conn EXCEPT ![c] = s]
      BY <2>2, Zenon DEF Finish, DropAborted
    <3>3. Tasks' = Tasks \ {c} BY <3>1, <3>2, TasksMove, Zenon
    <3> QED BY <1>a, <3>1, <3>3, Zenon DEF UnitStep, Ends
  <2> QED BY <1>3, <2>1, <2>2, Zenon
<1>4. ASSUME NEW l \in Listener, ListenerEnded(l) \/ JoinListener(l) PROVE UnitStep
  <2>1. at[l] # "accept" /\ at' = [at EXCEPT ![l] = "joined"] /\ UNCHANGED <<conn, used>>
    BY <1>4, Zenon DEF ListenerEnded, JoinListener
  <2>2. Accepting' = Accepting BY <2>1, AcceptingMoves, Zenon
  <2> QED BY <1>c, <2>1, <2>2, Zenon DEF UnitStep, Keeps
<1>5. ASSUME NEW l \in Listener, ReturnFailure(l) PROVE UnitStep
  <2> DEFINE dropped == {k \in Listener : at[k] \notin {"joined", "done", "failed"}}
             holding == {k \in dropped : at[k] = "accept"}
  <2>1. /\ at' = [k \in Listener |-> IF k \in dropped THEN "dropped" ELSE at[k]]
        /\ used' = used - Cardinality(holding)
        /\ conn' = [c \in Conn |-> IF on[c] \notin dropped THEN conn[c]
                                   ELSE IF conn[c] = "live" THEN "aborted"
                                   ELSE IF conn[c] \in {"backlog", "finished"} THEN "closed" ELSE conn[c]]
    BY <1>5, Zenon DEF ReturnFailure
  <2>2. holding = Accepting
    <3>1. \A k : k \in holding <=> k \in Accepting BY Zenon DEF Accepting
    <3> QED BY <3>1, Zenon
  <2>3. Accepting' = {}
    <3>1. ASSUME NEW k \in Listener PROVE at'[k] # "accept" BY <2>1, Zenon
    <3> QED BY <3>1, Zenon DEF Accepting
  <2>4. \A x \in Conn : conn'[x] \in {"live", "aborted"} <=> conn[x] \in {"live", "aborted"}
    BY <2>1, Zenon
  <2>5. Tasks' = Tasks BY <2>4, AbortKeepsTasks, Zenon
  <2> QED BY <2>1, <2>2, <2>3, <2>5, Zenon DEF UnitStep, ReturnsAll
<1>6. ASSUME NEW l \in Listener,
             RunListener(l) \/ OwnershipTick(l) \/ AcceptFails(l) \/ AcceptFatal(l)
      PROVE  UnitStep
  BY <1>6, LoopUnits, Zenon
<1> QED BY <1>2, <1>3, <1>4, <1>5, <1>6, Zenon DEF LifecycleNext, Supervise

\* No unit is reserved when the process begins.
LEMMA UnitsInitially == LifecycleInit => UnitsAreHeld
<1> SUFFICES ASSUME LifecycleInit PROVE UnitsAreHeld BY Zenon
<1>1. Accepting = {} /\ Tasks = {} BY Zenon DEF LifecycleInit, Accepting, Tasks
<1>2. Cardinality(Accepting) = 0 /\ Cardinality(Tasks) = 0 /\ used = 0
  BY <1>1, FS_EmptySet, Zenon DEF LifecycleInit
<1> QED BY <1>2, LifecycleConstants DEF UnitsAreHeld

\* A unit of the descriptor budget is reserved exactly while an accept waits
\* with it or a connection task lives, across failed, fatal and interrupted
\* accepts, refused streams, aborts and the early return of a failure; and a
\* connection that is waiting, served or not yet joined has a listener still
\* in its loop or drain (run_listener, handle_accept_error,
\* drain_connections, drain_listener_tasks).
THEOREM EveryUnitHasAHolder == LifecycleSpec => [](UnitsAreHeld /\ TaskHasOwner)
<1>1. TaskInv /\ UnitsAreHeld /\ [LifecycleNext]_lifecycle => (TaskInv /\ UnitsAreHeld)'
  BY TasksStep, EveryStepIsAUnitStep, UnitStepKeeps, Zenon
<1>2. TaskInv => TaskHasOwner BY Zenon DEF TaskInv
<1> QED BY <1>1, <1>2, TasksInitially, UnitsInitially, PTL DEF LifecycleSpec

\* When the supervisor returns after the shutdown signal without a failure,
\* every unit has come back and every connection is closed: no task outlives
\* the server that a signal stopped (drain_listener_tasks, drain_connections).
THEOREM CleanReturnLeavesNothing == LifecycleSpec => []CleanReturnIsEmpty
<1>1. ASSUME TaskInv, UnitsAreHeld PROVE CleanReturnIsEmpty
  <2> SUFFICES ASSUME phase = "returned", clean
               PROVE  used = 0 /\ \A c \in Conn : conn[c] \in {"away", "closed"}
    BY Zenon DEF CleanReturnIsEmpty
  <2>1. \A l \in Listener : at[l] = "joined" BY <1>1, Zenon DEF TaskInv, DrainInv
  <2>2. "joined" \notin Running BY Zenon DEF Running
  <2>3. ASSUME NEW c \in Conn PROVE conn[c] \in {"away", "closed"}
    <3>1. on[c] \in Listener /\ conn[c] \in {"away", "backlog", "live", "aborted", "finished", "closed"}
      BY <1>1, Zenon DEF TaskInv, TaskTypeOK
    <3>2. conn[c] \notin {"backlog", "live", "finished"}
      BY <1>1, <2>1, <2>2, <3>1, Zenon DEF TaskInv, TaskHasOwner
    <3>3. conn[c] # "aborted" BY <1>1, <2>1, <3>1, Zenon DEF TaskInv, DrainInv
    <3> QED BY <3>1, <3>2, <3>3, Zenon
  <2>4. Accepting = {}
    <3>1. \A l \in Listener : at[l] # "accept" BY <2>1, Zenon
    <3> QED BY <3>1, Zenon DEF Accepting
  <2>5. Tasks = {}
    <3>1. \A c \in Conn : conn[c] \notin {"live", "aborted"} BY <2>3, Zenon
    <3> QED BY <3>1, Zenon DEF Tasks
  <2>6. Cardinality(Accepting) = 0 /\ Cardinality(Tasks) = 0 BY <2>4, <2>5, FS_EmptySet, Zenon
  <2>7. used = 0 BY <1>1, <2>6 DEF UnitsAreHeld
  <2> QED BY <2>3, <2>7, Zenon
<1>2. TaskInv /\ UnitsAreHeld /\ [LifecycleNext]_lifecycle => (TaskInv /\ UnitsAreHeld)'
  BY TasksStep, EveryStepIsAUnitStep, UnitStepKeeps, Zenon
<1> QED BY <1>1, <1>2, TasksInitially, UnitsInitially, PTL DEF LifecycleSpec
=============================================================================
