----------------------------- MODULE ReplayCache -----------------------------
(***************************************************************************)
(* The two-phase replay cache of REALITY handshakes                        *)
(* (protocol/reality/replay.rs): a handshake reserves the key of its       *)
(* ClientHello, and commits it after ClientFinished or drops it.  Shards   *)
(* are locked one at a time, so a reservation is several atomic steps with *)
(* other handshakes, the monitor's purge and the clock in between.         *)
(***************************************************************************)
EXTENDS Integers, FiniteSets

CONSTANTS Handshake, Key,
          ShardOf,       \* ShardOf[k]: the shard of key k
          PendingTtl,    \* handshake_timeout_ms
          CommittedTtl,  \* replay_retention_ms
          Capacity,      \* permits of the ReplayEntry pool
          Slack,         \* stale heap records tolerated before a compaction (1024)
          MaxTime        \* bound on the clock

ASSUME ReplayConstants == /\ PendingTtl \in Nat /\ CommittedTtl \in Nat
                          /\ Capacity \in Nat /\ Slack \in Nat /\ MaxTime \in Nat

VARIABLES now,
          entries,        \* the entry of each key, or NoEntry
          heap,           \* expiration records [exp, gen, key]
          nextGen,
          owners,         \* handshakes whose call holds a permit outside the table
          stage, key, anchor, gen,   \* each handshake's place, key, clock anchor, generation
          at,             \* the instant commit_after_client_finished read
          sampled, pass,  \* the monitor's instant and the shards its pass has left
          sweep,          \* shards a handshake's purge_expired_at has still to visit
          until           \* until[k]: end of the retention of k's last commit

tables == <<entries, heap>>
vars == <<now, entries, heap, nextGen, owners, stage, key, anchor, gen, at, sampled, pass, sweep, until>>

NoEntry == [gen |-> 0, committed |-> FALSE, exp |-> 0]
Present(k) == entries[k].gen # 0
Shard == {ShardOf[k] : k \in Key}

ReplayInit ==
    /\ now = 0
    /\ entries = [k \in Key |-> NoEntry]
    /\ heap = {}
    /\ nextGen = 1
    /\ owners = {}
    /\ stage = [h \in Handshake |-> "start"]
    /\ key \in [Handshake -> Key]   \* the derived key of its ClientHello
    /\ anchor = [h \in Handshake |-> 0]
    /\ gen = [h \in Handshake |-> 0]
    /\ at = [h \in Handshake |-> 0]
    /\ sampled = 0 /\ pass = {}
    /\ sweep = [h \in Handshake |-> {}]
    /\ until = [k \in Key |-> 0]

Goto(h, label) == stage' = [stage EXCEPT ![h] = label]

ClockTick ==
    /\ now < MaxTime
    /\ now' = now + 1
    /\ UNCHANGED <<tables, nextGen, owners, stage, key, anchor, gen, at, sampled, pass, sweep, until>>

-----------------------------------------------------------------------------
(* purge_replay_shard: records due by t leave the heap; a record removes the *)
(* entry it was pushed for and no other.                                     *)

\* A mutant: a due record removes whatever entry its key has now.
DueByKey(k, t) == Present(k) /\ \E r \in heap : r.key = k /\ r.exp <= t

Due(k, t) ==
    /\ Present(k)
    /\ \E r \in heap : r.key = k /\ r.exp <= t /\ r.gen = entries[k].gen /\ r.exp = entries[k].exp

PurgedEntries(s, t) ==
    [k \in Key |-> IF ShardOf[k] = s /\ Due(k, t) THEN NoEntry ELSE entries[k]]

PurgedHeap(s, t) == {r \in heap : ~(ShardOf[r.key] = s /\ r.exp <= t)}

\* compact_stale_expirations, after an entry of shard s was removed.
Compacted(s, table) ==
    LET records == {r \in heap : ShardOf[r.key] = s}
        live == {k \in Key : ShardOf[k] = s /\ table[k].gen # 0}
    IN  IF Cardinality(records) <= 2 * Cardinality(live) + Slack THEN heap
        ELSE {r \in heap : ShardOf[r.key] = s =>
                              table[r.key].gen = r.gen /\ table[r.key].exp = r.exp}

\* A mutant: the monitor purges with the instant it started at.
MonitorSampleOnce ==
    /\ pass = {}
    /\ pass' = Shard
    /\ UNCHANGED <<now, tables, nextGen, owners, stage, key, anchor, gen, at, sampled, sweep, until>>

\* The monitor's purge_expired reads the clock, then visits each shard under
\* its own lock.
MonitorSample ==
    /\ pass = {}
    /\ sampled' = now /\ pass' = Shard
    /\ UNCHANGED <<now, tables, nextGen, owners, stage, key, anchor, gen, at, sweep, until>>

MonitorPurge(s) ==
    /\ s \in pass
    /\ entries' = PurgedEntries(s, sampled)
    /\ heap' = PurgedHeap(s, sampled)
    /\ pass' = pass \ {s}
    /\ UNCHANGED <<now, nextGen, owners, stage, key, anchor, gen, at, sampled, sweep, until>>

-----------------------------------------------------------------------------
(* reserve_at: the clock was read when the handshake deadline was computed. *)

Anchor(h) ==
    /\ stage[h] = "start"
    /\ anchor' = [anchor EXCEPT ![h] = now]
    /\ Goto(h, "check")
    /\ UNCHANGED <<now, tables, nextGen, owners, key, gen, at, sampled, pass, sweep, until>>

FirstCheck(h) ==
    /\ stage[h] = "check"
    /\ entries' = PurgedEntries(ShardOf[key[h]], anchor[h])
    /\ heap' = PurgedHeap(ShardOf[key[h]], anchor[h])
    /\ Goto(h, IF entries'[key[h]].gen # 0 THEN "rejected" ELSE "permit")
    /\ UNCHANGED <<now, nextGen, owners, key, anchor, gen, at, sampled, pass, sweep, until>>

\* Permits held: one per entry and one per call between permit and insert.
PermitsUsed == Cardinality({k \in Key : Present(k)}) + Cardinality(owners)

AcquirePermit(h) ==
    /\ stage[h] \in {"permit", "retry"} /\ PermitsUsed < Capacity
    /\ owners' = owners \cup {h}
    /\ Goto(h, "generation")
    /\ UNCHANGED <<now, tables, nextGen, key, anchor, gen, at, sampled, pass, sweep, until>>

\* The pool is full or the pressure gate refuses: every shard is purged once.
Refused(h) ==
    /\ stage[h] = "permit"
    /\ sweep' = [sweep EXCEPT ![h] = Shard]
    /\ Goto(h, "sweep")
    /\ UNCHANGED <<now, tables, nextGen, owners, key, anchor, gen, at, sampled, pass, until>>

SweepShard(h, s) ==
    /\ stage[h] = "sweep" /\ s \in sweep[h]
    /\ entries' = PurgedEntries(s, anchor[h])
    /\ heap' = PurgedHeap(s, anchor[h])
    /\ sweep' = [sweep EXCEPT ![h] = @ \ {s}]
    /\ Goto(h, IF sweep[h] = {s} THEN "retry" ELSE "sweep")
    /\ UNCHANGED <<now, nextGen, owners, key, anchor, gen, at, sampled, pass, until>>

RefusedAgain(h) ==
    /\ stage[h] = "retry"
    /\ Goto(h, "rejected")
    /\ UNCHANGED <<now, tables, nextGen, owners, key, anchor, gen, at, sampled, pass, sweep, until>>

Generation(h) ==
    /\ stage[h] = "generation"
    /\ gen' = [gen EXCEPT ![h] = nextGen]
    /\ nextGen' = nextGen + 1
    /\ Goto(h, "insert")
    /\ UNCHANGED <<now, tables, owners, key, anchor, at, sampled, pass, sweep, until>>

PendingDeadline(h) == anchor[h] + PendingTtl

\* Under the lock: purge, look again, insert entry and heap record.
Insert(h) ==
    LET s == ShardOf[key[h]]
        entry == [gen |-> gen[h], committed |-> FALSE, exp |-> PendingDeadline(h)]
        purged == PurgedEntries(s, anchor[h])
    IN  /\ stage[h] = "insert"
        /\ owners' = owners \ {h}
        /\ IF purged[key[h]].gen # 0
           THEN /\ entries' = purged
                /\ heap' = PurgedHeap(s, anchor[h])
                /\ Goto(h, "rejected")
           ELSE /\ entries' = [purged EXCEPT ![key[h]] = entry]
                /\ heap' = PurgedHeap(s, anchor[h])
                              \cup {[exp |-> entry.exp, gen |-> gen[h], key |-> key[h]]}
                /\ Goto(h, "reserved")
        /\ UNCHANGED <<now, nextGen, key, anchor, gen, at, sampled, pass, sweep, until>>

\* try_reserve reports no memory: the permit goes, nothing is inserted.
InsertFails(h) ==
    LET s == ShardOf[key[h]]
    IN  /\ stage[h] = "insert"
        /\ owners' = owners \ {h}
        /\ entries' = PurgedEntries(s, anchor[h])
        /\ heap' = PurgedHeap(s, anchor[h])
        /\ Goto(h, "rejected")
        /\ UNCHANGED <<now, nextGen, key, anchor, gen, at, sampled, pass, sweep, until>>

-----------------------------------------------------------------------------
(* The reservation: committed after ClientFinished, or dropped. *)

Mine(h) == entries[key[h]].gen = gen[h] /\ ~entries[key[h]].committed

Committable(h) == Mine(h) /\ entries[key[h]].exp > at[h]

ReadFinishClock(h) ==
    /\ stage[h] = "reserved"
    /\ at' = [at EXCEPT ![h] = now]
    /\ Goto(h, "finished")
    /\ UNCHANGED <<now, tables, nextGen, owners, key, anchor, gen, sampled, pass, sweep, until>>

Commit(h) ==
    LET exp == at[h] + CommittedTtl
    IN  /\ stage[h] = "finished" /\ Committable(h)
        /\ entries' = [entries EXCEPT ![key[h]] =
                           [gen |-> gen[h], committed |-> TRUE, exp |-> exp]]
        /\ heap' = heap \cup {[exp |-> exp, gen |-> gen[h], key |-> key[h]]}
        /\ until' = [until EXCEPT ![key[h]] = exp]
        /\ Goto(h, "committed")
        /\ UNCHANGED <<now, nextGen, owners, key, anchor, gen, at, sampled, pass, sweep>>

\* Only the reservation's own pending entry is removed.
RollBack(h) ==
    /\ IF Mine(h)
       THEN /\ entries' = [entries EXCEPT ![key[h]] = NoEntry]
            /\ heap' = Compacted(ShardOf[key[h]], entries')
       ELSE UNCHANGED tables
    /\ Goto(h, "dropped")
    /\ UNCHANGED <<now, nextGen, owners, key, anchor, gen, at, sampled, pass, sweep, until>>

Drop(h) == stage[h] = "reserved" /\ RollBack(h)

\* The entry is lost or has expired, or the heap cannot grow.
CommitFails(h) == stage[h] = "finished" /\ RollBack(h)

HandshakeStep(h) ==
    \/ Anchor(h) \/ FirstCheck(h) \/ AcquirePermit(h) \/ Refused(h)
    \/ \E s \in Shard : SweepShard(h, s)
    \/ RefusedAgain(h) \/ Generation(h) \/ Insert(h) \/ InsertFails(h)
    \/ ReadFinishClock(h) \/ Commit(h) \/ Drop(h) \/ CommitFails(h)

ReplayNext ==
    \/ ClockTick \/ MonitorSample
    \/ \E s \in Shard : MonitorPurge(s)
    \/ \E h \in Handshake : HandshakeStep(h)

\* The monitor purges every second for ever.
ReplaySpec ==
    /\ ReplayInit /\ [][ReplayNext]_vars
    /\ WF_vars(ClockTick) /\ WF_vars(MonitorSample)
    /\ \A s \in Shard : WF_vars(MonitorPurge(s))

-----------------------------------------------------------------------------
(* Properties *)

\* Every variable keeps its type.
ReplayTypeOK ==
    /\ now \in Nat /\ nextGen \in Nat \ {0}
    /\ entries \in [Key -> [gen : Nat, committed : BOOLEAN, exp : Nat]]
    /\ heap \subseteq [exp : Nat, gen : Nat, key : Key]
    /\ owners \subseteq Handshake
    /\ stage \in [Handshake -> {"start", "check", "permit", "sweep", "retry", "generation",
                             "insert", "reserved", "finished", "committed", "rejected", "dropped"}]
    /\ key \in [Handshake -> Key]
    /\ anchor \in [Handshake -> Nat] /\ gen \in [Handshake -> Nat]
    /\ at \in [Handshake -> Nat] /\ sampled \in Nat /\ pass \subseteq Shard
    /\ sweep \in [Handshake -> SUBSET Shard]
    /\ until \in [Key -> Nat]

\* No replay: a key is not committed again while the retention of its last
\* commit runs, whatever the interleaving of reservations, drops, purges
\* with old clock anchors and compactions.
NoReplayCommitted ==
    [][\A k \in Key : until'[k] # until[k] => until[k] <= now]_vars

\* A committed key stays in the table until its retention ends.
CommittedIsKept == \A k \in Key : until[k] > now => entries[k].committed

\* A pending reservation is its handshake's until the handshake deadline,
\* which is counted from the same anchor: nobody else's purge, drop or
\* commit takes the entry away, so a ClientFinished in time can commit.
ReservationIsKept ==
    \A h \in Handshake :
        stage[h] \in {"reserved", "finished"} /\ anchor[h] + PendingTtl > now => Committable(h)

\* A quiet cache empties: entries whose deadline has passed go, and give
\* their permits back, without any new handshake.
ExpiredArePurged ==
    \A k \in Key :
        Present(k) /\ entries[k].exp <= MaxTime ~> ~Present(k) \/ entries[k].exp > MaxTime
=============================================================================
