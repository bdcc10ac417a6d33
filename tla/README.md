# Formal model of rust-reality

TLA+ modules that model the concurrent and stateful parts of the proxy, TLC runs
that check them on small instances, and TLAPS proofs of what matters most.
Source paths are relative to the repository root; `PROJECT.json` maps every
definition to the lines it models and lists components, hazards and findings.

Checking: `tlc -config <cfg> <MC module>` for a run, `tlapm <module>` for a proof.

## 1. The system

A connection enters through a listener, is authenticated as a REALITY client (or
relayed to the cover site), carries a VLESS request inside TLS 1.3, is routed to
an outbound, and is relayed both ways. In Vision mode each direction starts
framed inside the outer TLS records and may leave the record layer at an
authenticated boundary. A LINE node may instead transfer the session to a LANDING
node (Handoff) or tunnel it (NXR). One Tokio process runs it all: tasks interleave
at await points and, on several worker threads, at every atomic access.

| Part | State | What is hard about it | Correct means |
|---|---|---|---|
| Direct transition (`server/direct.rs`, `rr-session`) | two lifecycle cells, four half slots | two directions decide one relay form without waiting | one form, no half lost or shared |
| Vision session (`server/vision/`, `io_activity.rs`) | buffers, sockets, idle timer | framed to raw switch, half-close, failure, cancellation | byte order, honest EOF, reset on abort, bounded idleness |
| Descriptor budget (`transport/fd_budget.rs`) | in-use count, pressure flag, waiters | lock-free reserve and wake-up | no overshoot, no lost wake-up |
| Admission (`runtime/admission.rs`, `ceiling.rs`) | semaphores, counters, ceilings, rate word | ceiling and rate move under concurrent callers | conservation, ceilings bind, rate held |
| Adaptive controller (`runtime/adaptive.rs`, monitor) | ceilings, streaks, gauge | two periodic loops and a clamp | bounds, hysteresis, recovery |
| Replay cache (`protocol/reality/replay.rs`) | sharded table, heaps, permits | locks taken shard by shard, old clock readings | no second commit, reservations last |
| Accept loops, tasks (`server/production/listener.rs`) | units, task sets, reserve | every early return after a reservation | capacity kept, tasks joined, shutdown ends |
| Supervisor, reload (`supervisor.rs`, `store.rs`) | generations, update task | publication races accepts and shutdown | accepts see a live generation |
| Warm pools (`server/warm_pool.rs`) | ready sockets, speculative dials, wake-ups | retirement against a dial that lands | a retired pool stays empty, its controller ends |
| Handoff transfer (`server/handoff/`, `pre_auth.rs`) | two attempts, a message on the wire, a landing handler | retry after a partial write, retirement against the first byte | one landing per session, an unserved client is reset |
| UDP carrier (`server/handoff/udp/`, `protocol/handoff/udp/`) | windows, nonces, timers, path limit | loss, repetition, reordering, clocks that disagree | delivered once, opened once, the limit fits the path |
| KeyUpdate (`tls13/application_io.rs`) | two shared flags, a batch, a key | the reader raises a flag between any two steps of the writer | every request answered, every record readable |
| DNS, connector, client race, XUDP leases | table slots, attempts, permits, counts | joiners between publish and broadcast; losers that finish while aborted; the hedge and the primary together | everyone answered, one winner, nothing left behind, exact counts |
| Raw relay pools (`transport/tcp_relay.rs`) | splice permits, recycled pipes, buffers behind a semaphore | a relay may end anywhere, with bytes in its pipes or one of two buffers | no session sees another's bytes, no permit is lost |
| Cover profiles (`server/cover_profile.rs`) | lifecycle, snapshot, candidate queue, a sleeping collector | handshakes, collector and retirement, each under its own lock | the collector sleeps only while there is nothing to do |
| Codecs, cryptography, configuration, assets, logging | none shared, or I/O only | - | - |

The session asks Admission and FdBudget before it dials; the monitor reads
FdBudget and drives the gauge Admission and the listener read; the adaptive
controller moves Admission's ceilings; the supervisor owns listeners, monitor and
generations; a handshake commits to the replay cache before a session exists.

## 2. Modules

**DirectHandoff** (`server/direct.rs`, `rr-session/{vision,rendezvous}.rs`,
`server/vision/relay.rs`). One action per access to the shared cells or slots;
`Decide` is one action because `decide()` holds the mutex. `state` is the two
cells, `slots` the deposited halves, `grant` and `recovered` what callers were
given, `step` where each direction's code is, `yields` what is left of its
pair window.
**RawRelayAgreement** is its promise: both directions get their form in one
indivisible choice, and a pair gets one driver.

**VisionSession** extends it with chunks (read ahead, staged, sent), sockets
(EOF, FIN, linger) and the idle timer. Records, padding and TLS are a choice of
how many chunks a read returns and which verdict a record carries.

**FdBudget**: one action per atomic access or `Notify` call of `try_acquire`,
`acquire`, release, merge and `wait_for_pressure_change`. Interleaving is
sequentially consistent; the weaker memory orders the code names are not modelled. Zero-unit permits are left out: they touch nothing shared.

**Admission** (pools, soft ceilings, gauge) and **DialRateGate** (the dial rate
as one atomic word with saturating time): again one access per action. The rate
gate appears in Admission as two outcomes, admitted or refused.

**Adaptive**: one action is one tick of the controller or one sample of the
monitor. The load is the environment; constants are the code's.

**ReplayCache**: a reservation is the sequence of locked sections the code has,
with the clock, other handshakes and the monitor's purge between them. The
expiration heap is the set of its records.

**Lifecycle**: listener loops, connection tasks, update thread and supervisor.
One action is one poll up to the next await. Connection bodies are a live state,
configuration compilation is accept or reject, and the descriptor budget is a
counter, justified by FdBudget.

**WarmPool**: one action per locked section, wake-up or await of the controller,
`checkout`, `activate` and `deactivate`. A ready socket is a count, an instant is
a deadline ahead or past, the rate estimator's wish is any value in its range.

**HandoffTransfer** (`handoff/line.rs`, `handoff/landing.rs`, `pre_auth.rs`,
`counted_write.rs`, `handoff_relay.rs`): the line's task with its pooled and its
fresh attempt, and a handler on each connection of the landing. TCP delivers a
prefix of what was submitted. `Faults` says which failures occur.
**HandoverOnce** is its promise: a session is taken over once and served over that
connection, or its client is reset.

**UdpChannel**: one association end to end. A packet once sent may arrive at any
later time any number of times. Instants are ticks left.

**PathMtu** (`pmtu.rs`, `endpoint.rs`): the prober of one direction as a record
with the code's fields; the operators are its methods, `PollProbe`, `ProbeAck`
and `SendRefused` their callers. The path, and whether its router's ICMP reaches
the kernel, are the environment.

**KeyUpdate**: the reader's reassembly and flag, and the writer's batch with its
check, seal, take, write and re-key as separate steps.

**XudpLease**: acquire and release with the instant each read before the lock.

**DnsFlight**: one action per arm of `resolve_class` and per step of the flight
task; publication and broadcast are separate, as no lock covers both.

**Connector**: sequential and raced connects share one loop here: a sequential
plan is a race of one attempt at a time.

**ClientRace**: driver, decision engine and the health atomics of the group. The
engine's answers are computed as its methods do and compared with what the
driver expects.

**RelayPools**: a relay's steps through the splice pool (permit, pipes, pump,
return) and, when it declines, through the buffer pool. A pipe is abstracted to
whose bytes it holds; both semaphores are Tokio's, the second with its queue. The
descriptor budget, which may refuse a pipe, is a choice here.

**CoverProfiles**: one action per access to the lifecycle, the snapshot or the
`Notify`, or per locked section, of `lookup`, `nominate`, `invalidate`, `enqueue`,
`run_collector`, `publish` and `deactivate`. A probe's result is a choice.

Each `MC` module instantiates several components that share no state. A variable
`part`, chosen initially, says which of them runs; the others stay in their
initial states, so a run's states are the sum, not the product, of its parts.
Operators commented as bugs are deliberate faults used to confirm that a property
can fail.

## 3. Runs

| Run | Instance | Shows |
|---|---|---|
| `session` | yield budget 2 (the code's), 3 chunks each way, reads and stage of 2 | `ByteOrder`, `EofOnlyWhenComplete`, `AbortIsReset`, `IdleContract`, `RawBoundaryNeverWaits`; refinements `RefinesCoordinator`, `ImplementsAgreement` |
| | KeyUpdate messages of 2 units, batches of 3, 4 records per key | `OwedIsRemembered`, `RecordsAreReadable` |
| | a transfer of 3 units, all faults | refinement `ImplementsHandover`; `TransferSettles` |
| | sizes 1 to 6 around a base of 3, two changes of path | `BlackHoleIsLeft` |
| `limits` | 2 tasks, permits of 3 or 4 out of 6, 2 each | `NoLostWakeup`, `NoLostPressureChange`, `UnitsConserved`, `ParkedIsServed` |
| | handshake knob of a 64-CPU machine | `DwellKept`, `DemandReachesHard` |
| `pools` | 2 tasks, pools of 1 and 2 | `PoolsConserved`, `ExcessIsOld` |
| | 2 dials, rates 0, 1, 3, one change, clock run to its end | `RateHeld` |
| | 3 associations, 2 users, 2 identifiers, table of 1 | `LeasesMatchHolders` |
| | 3 relays (2 of them bilateral), 2 splice permits, 3 pipes of which 1 is kept, 2 buffers | `NoForeignBytes`, `BuffersFollowPermits` |
| | 2 concurrent handshakes of 1 class, room for 1 | `CollectorIsNotStranded` |
| `at_most_once` | 2 handshakes, 2 keys in 2 shards, 1 permit | `NoReplayCommitted`, `ExpiredArePurged` |
| | 4 packets up, 2 down, windows of 2 bits | `DeliveredOnce`, `OpenAdmittedOnce`, `SessionEnds` |
| `lifecycle` | 1 listener, 2 connections, 2 units, 3 generations, 1 edit, 1 failed accept | `OneWarmGeneration`, `ShutdownCompletes`, `AcceptResumes` |
| `egress` | 1 pool of at most 2, 1 caller | `StoppedPoolIsEmpty`, `ControllerEnds` |
| | 3 requests, 2 names, table of 1, 2 permits | `SubscribersHear`, `FlightOwnsSlot` |
| | up to 4 addresses, 3 contended units | `OnlyTheWinnerRemains`, `PlanIsExhausted` |
| | 2 sessions, 3 LINEs that trip at once | `DriverAgreesWithEngine` |
| `vision_abort`, `adaptive_rate`, `reload_request`, `drain_failure`, `landing_reload`, `pmtu_floor` | as small as shows it | each violates what a comment or document says; section 6 |

Bounds. The coordinator has two actors and no unbounded data: the instance is the
system, except that the yield budget is any number in the proofs. Three chunks put
one before, at and after the boundary with one read ahead. Permits of 3 and 4 of 6
exclude each other pairwise but not with what is left, so waiting, merging and the
watermarks all happen. A pool of one and a pool of two reach full, over the ceiling
and free. The dial clock reaches the saturated end of its domain. Two keys and one
permit force the capacity sweep. Three generations let one publication follow
another while an earlier one is retired. A batch of three with four records per key
puts a key change before, inside and after a batch. A transfer of three units is
cut before, inside and after. Sizes to six leave a search two steps on either side
of the base, and two changes take the path down and up again. Four packets leave a
window of two behind. A table of one entry with two names makes every new flight
evict. Four addresses let a race fail twice while a third attempt waits for a
unit. Two buffers serve one bilateral relay or two of one direction, so a line forms
behind either, and a keep count of one makes pipes both recycled and closed. Two
handshakes of one class find it queued, probed, cooling, published and expired, each
while the other is inside a call; the competition of classes for room is not reached.
Deadlock is checked in `limits`, whose parts never end; in the others a
finished session, transfer, shutdown or request, a retired generation, or the
clock bound, is a proper end.

## 4. Fairness

Weak fairness is given to steps the process owes itself: a task that can run is
polled, a timer fires, a blocking closure runs to its end, a periodic loop ticks,
time passes. Peers, the operator, the network, failures, cancellation and pressure
owe nothing. One strong fairness is used: `AcceptStream` in Lifecycle. The
`select!` around accept is not biased, so a ready backlog is chosen in the end
although ticks and ended tasks keep interrupting it. `VisionSession` needs only
that a direction at its raw boundary is polled. A warm pool's `deactivate` must
end once it began, never begin. `UdpChannel` needs its clock and the sweep, no
delivery. `KeyUpdate`, `XudpLease`, `DnsFlight`, `Connector`, `ClientRace`,
`RelayPools` and `CoverProfiles` are checked for safety only and have no fairness:
a relay holds its buffers as long as its peers like.

## 5. Proofs

Every theorem holds for all constants that satisfy the named assumption of the
component. None uses fairness. With them every invariant, action property and
refinement of the passing runs is proved for all constants; the runs keep checking
them on instances, where deliberate faults break them. A proof module gathers components whose names do not
clash. In each of them an invariant is proved inductive action by action, and the
property follows from it.

`SessionProofs`: the coordinator, for every yield budget; the byte-level session,
for any number of chunks, read-ahead and stage.

* `HandoffInv` ties each cell and grant to the place of its direction's code
  (`CellMatchesStep`, `GrantMatchesStep`) and says where the partner of a paired
  direction can be (`PairPartners`). Without the last, a depositor's peer could
  still go alone. From it: `NeverSplit`, `NeverStranded`, `ExclusiveHalves`, and
  `HandoffImplementsAgreement`, where the first `Pair` grant is the agreement and
  the second a stutter.
* `SessionRefinesCoordinator`: every step of the session is a coordinator step or
  leaves it alone, so `HandoffInv` holds of sessions and the rest builds on it.
* `IdleContractHolds`. `IdleInv` says what the timer's count is while framed, and
  that the shared timer is off before either direction is granted a raw form.
* `BytesStayInOrder`, `HalfCloseIsComplete`. `ByteInv` numbers the chunks: what is
  out, staged and read ahead are consecutive, and each hand-over of the switch
  (drain, rendezvous, raw) finds empty what it will no longer look at.
* `FailureIsReset`. `EndInv` says how a direction was given up and that the abort
  guard armed linger before its halves were dropped.

`LimitsProofs`: the descriptor budget, for any tasks, unit sizes and capacity; the
adaptive controller, for any knobs and load.

* `BudgetIsStrict`, `WakeupsAreKept`, `PressureChangesAreKept`. The invariant adds
  that a task that is registered was counted first, and that a task about to park
  on a stale reading, or parked, while its units fit has a releaser on its way; the
  second half is needed since the recheck's reading may be stale when it is used.
* `UnitsAreConserved`. The units behind permits are a finite set, one element per
  unit; acquire, release and merge add, remove or rename elements.
* `DwellIsKept`, `CeilingsStayInBounds`. `DwellInv` says the controller's count of
  ticks is the number of ticks the enforced ceiling has been still.

`WireProofs`: the UDP channel, for every window width, clock granularity, time
window and number of packets; the transfer, for every message length and choice of
faults; KeyUpdate, for every message and batch size; the path MTU search, for every
floor, base, maximum, granularity and timer.

* `DeliveredAtMostOnce` rests on the ring: a delivered counter is below the window
  or its bit is set. `OneSessionPerOpen` rests on arithmetic: a nonce is kept at
  least until its timestamp goes stale.
* `TransferImplementsHandover` and `RetirementIsNeverLost`. The invariant binds the
  session to one connection: the pooled one is completely written only if the line
  stayed on it, and the fresh one is untouched until the line has left the pooled
  one for good, so no two connections carry the whole message.
* `OwedIsAlwaysRemembered`, `RecordsAreAlwaysReadable`. The invariant says an answer
  covers requests only while it is being written, that the batch is empty then, and
  that a key has room for its KeyUpdate whenever a slot is checked. A key of two
  records is the smallest for which that is possible, hence the assumption.
* `ProbesAskAboutTheLimit`, `OnlyAProbeRaises`. `MtuInv` orders limit, interval and
  ceiling and says what the outstanding probe asks about: a confirmation names the
  limit in force, also after a refused send lowered it, since a probe above the new
  ceiling is dropped with it. So `floor_validated` is set for the acknowledged size,
  no unsigned subtraction wraps, and only an acknowledged search raises the limit.

`EgressProofs`: admission, for any callers and pools; the connector, for any plan
and budget; XUDP leases, for any associations, identifiers, capacity and grace.

* `PoolsAreConserved`, `CeilingBindsLaterCalls`. The invariant counts the calls that
  began under the present ceiling: never more than it allows, since such a call
  compares against that very ceiling in its exchange.
* `NothingButTheWinner`, `IoErrorMeansAllTried`. The invariant bounds the units out,
  and says the loop is at its head with no attempt out only after a failure that
  left the next launch due.
* `LeasesAreCounted`, `GraceIsHonoured`. The invariant counts holders by cardinality
  and adds that an instant in use was read earlier, so a purge with an old instant
  removes nothing whose grace still runs.

`PoolsProofs`: the relay pools, for any relays and sizes of at least two buffers
(`derive.rs` clamps to that); the rate gate, for any rates and length of a second.

* `PipesCarryOwnBytes`. A pipe is in one hand, and holds its relay's bytes or none.
* `PermitsAreKept`. The queue is exactly the waiting relays, a holder of buffers has
  their permits, and the served prefix of the queue, the longest that fits, is shown
  to take what its members ask for: the head that is left does not fit.
* `GateHoldsTheRate`. Each admission moved the next free instant one interval ahead,
  so the admissions since an instant, times the interval, fit between it and that
  instant. A dial that read an older interval is not counted, and can only move the
  next free instant further ahead.

`LifecycleProofs`: the process, for any finite sets of listeners and connections, and
any number of edits, refreshes, generations and failed accepts.

* `HandlersAreLive`, `PoolsAreExclusive`. Every generation but the newest is stopped,
  save the predecessor while the update thread stands between store and retire, and
  the successor is not yet active then.
* `EveryUnitHasAHolder`, `CleanReturnLeavesNothing`. The units in use are the accept
  loops past their reservation plus the tasks not yet dropped, counted by
  cardinality (hence the finite sets): each step reserves, hands over or returns one
  unit together with the holder that had it, or drops a set of tasks with their
  units. A task that is served or not yet joined belongs to a listener still in its
  loop or drain, a drain ends with no aborted task, and only an unclean stop joins a
  failed listener; so a clean return finds no holder left.

`OutboundProofs`: warm pools, DNS flights and the client race, for any pools, policy
and number of callers.

* `StoppedPoolsAreEmpty`, `ReadyIsBounded`, `CooldownsHold`. The invariant says a
  socket about to be pushed is admitted under the state lock and before
  `deactivate`'s clear.
* `SubscribersAlwaysHear`, `OneLookupPerName`. A flight and its slot point at each
  other from the claim to the publication, and eviction spares flights.
* `DriverAndEngineAgree`. While a race runs the engine's state of a candidate is a
  function of what the driver did with it.

`HandshakeProofs`: the replay cache and the cover profiles, for any handshakes, keys,
shards and retentions.

* `NoReplay`, `CommittedKeysAreKept`, `ReservationsAreKept`. The invariant says every
  instant in use was read earlier (so an old anchor purges nothing that is alive),
  generations are fresh and owned by one handshake, and a pending reservation's entry
  is its own until the deadline.
* `CollectorNeverStranded`. From the empty pop to the end of its sleep, a candidate
  the collector has not seen is announced by a stored permit, by the woken
  registration or by a handshake that has pushed and not yet notified.

`HandoffInv`, `NoSplitDecision`, `DepositIsCollected`, `RawRelayOwnsItsHalves`,
`NoOvershoot`, `HandlerIsLive`, `CommittedIsKept`, `ReservationIsKept`,
`ReadyWithinTarget`, `CooldownHolds`, `NoLostRetirement`, `OwnerKeepsGrace`, `Ordered`,
`ProbeIsCurrent`, `Raised`, `UnitsAreHeld`, `TaskHasOwner` and `CleanReturnIsEmpty` are
established by proof for every instance and are not repeated in the runs.

Only model-checked: the ten liveness properties (`RawBoundaryNeverWaits`,
`TransferSettles`, `BlackHoleIsLeft`, `ParkedIsServed`, `DemandReachesHard`,
`ExpiredArePurged`, `SessionEnds`, `ShutdownCompletes`, `AcceptResumes`,
`ControllerEnds`), since fairness and `ENABLED` are outside the prover's reach. The
disagreements of section 6 are counterexamples and are found by TLC.

## 6. Where code and text disagree

* `vision_abort`: `abort.rs` says every abort is a reset, never a clean short EOF.
  The direction cancelled because its peer failed drops its write half, which
  sends FIN before the guard's reset.
* `adaptive_rate`: `adaptive.rs` says the dial rate follows the concurrency pool's
  utilization. It compares that pool's count with the rate's own value, four times
  larger at startup, so a full pool reads as idle and the rate is lowered.
* `reload_request`: a SIGHUP during the asset refresh, or during a reload that has
  read the file, is dropped and the new file is never read, against
  `supervisor.rs` ("the newest configuration is the one the operator meant").
* `drain_failure`: `drain_listener_tasks` "waits for every listener task", but
  returns at the first failure after a clean stop; the other drains are aborted.
* `landing_reload`: `handoff.md` says no connection is dropped by a key rotation
  reload. A connection that has not sent its first byte is closed, and a transfer
  that is being written to it ends in a reset of its client.
* `pmtu_floor`: `pmtu.rs` says a path below the base is detected within one probe
  budget. When the kernel refuses the confirmation probe itself, it is neither
  counted as lost nor validated, and is launched again at once for ever, until a
  data packet of that size is refused.

Also seen: an emergency descriptor that could not be reopened stays lost, since the
next `recover_from_descriptor_pressure` returns before `reacquire` (Lifecycle
explores both outcomes). `ceiling.rs` calls the rollback after a passed count
"unreachable"; the `pools` run takes it, since a drop uncounts before it gives
back. `client_race.rs` calls a cancellation neutral health evidence, but
`authenticate` charges both LINEs at the deadline, the alternate also when it was
never started. `dns.rs` says only a table of lookups in flight may exceed the entry
bound; their answers replace the slots in place, so cached entries may exceed it
too, until later lookups evict them one at a time. `CoverProfiles::deactivate`
"drops every generation-local candidate/profile", but `publish` and `enqueue` look
at the lifecycle before they take their locks, so one candidate per handshake and
one profile may be added after the drop (CoverProfiles has these behaviours:
`CheckPublish`, the four steps of `Retire`, `StoreProfile`); no later lookup returns
them, and they are freed with the generation. The comments on `copy_direction` and
`splice_pump` say the idle window covers a chunk's read; it covers the write only,
as `backend.rs` says it should.

## 7. Not modelled

Left out for good: cryptography and byte formats (REALITY, VLESS, Vision, NXR),
configuration and asset I/O, logging, command line, benchmarks and developer
tools. Their results appear as choices of the environment. They make up most of
the repository's lines, which is why the map covers a small share of them.

Left out because nothing shared changes: outbounds and routing (straight-line code
per connection over immutable rules), the resource plan (arithmetic done once; its
results are constants here).

Left out although it has state:

* The nonce caches of NXR and Handoff (`server/nxr/replay.rs`,
  `protocol/handoff/replay.rs`). They have the shards, the capacity sweep and the
  instants read before a lock of ReplayCache, but a nonce is recorded in one locked
  section and never committed or given back.
* Fragment reassembly of the UDP carrier (`frag.rs`).
* What a cover probe observes (`probe.rs`, consensus over four answers) and the
  transfer ledger of the raw relay, which counts bytes for reports and tells a
  relay that moved none from one that must be reset.
* Weak memory: atomics interleave sequentially consistently.

Components meet through what each promises: `VisionSession` runs on
`DirectHandoff`'s cells, Lifecycle counts descriptor units and Connector competes
for them as FdBudget allows, Admission takes the rate gate's answer as a choice. A
single model of all of them is beyond what can be enumerated.
