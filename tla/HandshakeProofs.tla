-------------------------- MODULE HandshakeProofs ---------------------------
(***************************************************************************)
(* Proofs about what handshakes share: the replay cache for every number   *)
(* of handshakes, keys, shards and permits and every choice of times to    *)
(* live, and the cover profiles for any visitors and classes.              *)
(***************************************************************************)
EXTENDS ReplayCache, CoverProfiles, Sequences, TLAPS

-----------------------------------------------------------------------------
(* The replay cache *)

\* Every instant a call works with was read from the clock earlier.
InstantsArePast ==
    /\ sampled <= now
    /\ \A h \in Handshake : anchor[h] <= now /\ at[h] <= now

\* The retention that runs is that of a committed entry.
RetentionIsEntry ==
    \A k \in Key : /\ entries[k].committed => entries[k].exp = until[k]
                   /\ until[k] > now => entries[k].committed
                   /\ entries[k].committed => entries[k].gen # 0

Active == {"insert", "reserved", "finished"}
Pending == {"reserved", "finished"}

\* Generations in use are allotted, and to one handshake each.
GenerationsAreFresh ==
    /\ \A k \in Key : entries[k].gen < nextGen
    /\ \A h \in Handshake : stage[h] \in Active => gen[h] # 0 /\ gen[h] < nextGen
    /\ \A g, h \in Handshake : stage[g] \in Active /\ stage[h] \in Active /\ gen[g] = gen[h] => g = h
    /\ \A h \in Handshake : stage[h] = "insert" => \A k \in Key : entries[k].gen # gen[h]

\* What a pending reservation may rely on.
PendingEntry ==
    \A h \in Handshake : stage[h] \in Pending =>
        /\ entries[key[h]].gen = gen[h] =>
              ~entries[key[h]].committed /\ entries[key[h]].exp = PendingDeadline(h)
        /\ \A k \in Key : entries[k].gen = gen[h] => k = key[h]
        /\ PendingDeadline(h) > now => entries[key[h]].gen = gen[h]

ReplayInv == /\ ReplayTypeOK /\ InstantsArePast /\ RetentionIsEntry
             /\ GenerationsAreFresh /\ PendingEntry

-----------------------------------------------------------------------------
(* Purges *)

\* The fields of the absent entry.
LEMMA NoEntryFields == NoEntry.gen = 0 /\ ~NoEntry.committed /\ NoEntry.exp = 0
BY Zenon DEF NoEntry

\* purge_replay_shard leaves an entry alone or removes it past its deadline.
LEMMA PurgedEntry ==
    ASSUME ReplayTypeOK, NEW s, NEW t \in Nat, NEW k \in Key
    PROVE  \/ PurgedEntries(s, t)[k] = entries[k]
           \/ PurgedEntries(s, t)[k] = NoEntry /\ entries[k].exp <= t
BY Zenon DEF PurgedEntries, Due, ReplayTypeOK

\* A purge with an instant that is not in the future.
LEMMA PurgeIsOld ==
    ASSUME ReplayTypeOK, NEW s, NEW t \in Nat, t <= now
    PROVE  \A k \in Key : \/ PurgedEntries(s, t)[k] = entries[k]
                          \/ PurgedEntries(s, t)[k] = NoEntry /\ entries[k].exp <= now
<1> TAKE k \in Key
<1>1. entries[k].exp \in Nat /\ now \in Nat  BY Zenon DEF ReplayTypeOK
<1>2. entries[k].exp <= t => entries[k].exp <= now  BY <1>1
<1>3. \/ PurgedEntries(s, t)[k] = entries[k]
      \/ PurgedEntries(s, t)[k] = NoEntry /\ entries[k].exp <= t
  BY PurgedEntry, Zenon
<1> QED  BY <1>2, <1>3, Zenon

\* purge_replay_shard keeps the types of the table and of the heap.
LEMMA PurgedType ==
    ASSUME ReplayTypeOK, NEW s, NEW t \in Nat
    PROVE  /\ PurgedEntries(s, t) \in [Key -> [gen : Nat, committed : BOOLEAN, exp : Nat]]
           /\ PurgedHeap(s, t) \subseteq [exp : Nat, gen : Nat, key : Key]
<1>1. NoEntry \in [gen : Nat, committed : BOOLEAN, exp : Nat]  BY Zenon DEF NoEntry
<1> QED  BY <1>1, Zenon DEF PurgedEntries, PurgedHeap, ReplayTypeOK

\* compact_stale_expirations only drops records.
LEMMA CompactedType ==
    ASSUME NEW s, NEW table
    PROVE  Compacted(s, table) \subseteq heap
BY Zenon DEF Compacted

-----------------------------------------------------------------------------
(* Type correctness *)

\* ReplayCache::new establishes the types.
LEMMA InitType == ASSUME ReplayConstants, ReplayInit PROVE ReplayTypeOK
BY DEF ReplayInit, ReplayTypeOK, NoEntry

\* Every step of the cache keeps the types.
LEMMA NextType ==
    ASSUME ReplayConstants, ReplayTypeOK, [ReplayNext]_vars PROVE ReplayTypeOK'
<1> USE DEF ReplayConstants
<1> DEFINE Table == [Key -> [gen : Nat, committed : BOOLEAN, exp : Nat]]
           Heap == [exp : Nat, gen : Nat, key : Key]
<1>0. NoEntry \in [gen : Nat, committed : BOOLEAN, exp : Nat]  BY Zenon DEF NoEntry
<1>1. CASE ClockTick  BY <1>1 DEF ClockTick, ReplayTypeOK, tables
<1>2. CASE MonitorSample  BY <1>2, Zenon DEF MonitorSample, ReplayTypeOK, tables
<1>3. ASSUME NEW s \in Shard, MonitorPurge(s) PROVE ReplayTypeOK'
  <2>1. sampled \in Nat  BY Zenon DEF ReplayTypeOK
  <2>2. entries' \in Table /\ heap' \subseteq Heap  BY <1>3, <2>1, PurgedType, Zenon DEF MonitorPurge
  <2> QED  BY <1>3, <2>2, Zenon DEF MonitorPurge, ReplayTypeOK
<1>4. ASSUME NEW h \in Handshake, HandshakeStep(h) PROVE ReplayTypeOK'
  <2> USE <1>4 DEF Goto
  <2>0. anchor[h] \in Nat /\ at[h] \in Nat /\ key[h] \in Key /\ gen[h] \in Nat
    BY Zenon DEF ReplayTypeOK
  <2>1. CASE Anchor(h)  BY <2>1, Zenon DEF Anchor, ReplayTypeOK, tables
  <2>2. CASE FirstCheck(h)
    <3>1. entries' \in Table /\ heap' \subseteq Heap  BY <2>2, <2>0, PurgedType, Zenon DEF FirstCheck
    <3> QED  BY <2>2, <3>1, Zenon DEF FirstCheck, ReplayTypeOK
  <2>3. CASE AcquirePermit(h)  BY <2>3, Zenon DEF AcquirePermit, ReplayTypeOK, tables
  <2>4. CASE Refused(h)  BY <2>4, Zenon DEF Refused, ReplayTypeOK, tables
  <2>5. ASSUME NEW s \in Shard, SweepShard(h, s) PROVE ReplayTypeOK'
    <3>1. entries' \in Table /\ heap' \subseteq Heap  BY <2>5, <2>0, PurgedType, Zenon DEF SweepShard
    <3> QED  BY <2>5, <3>1, Zenon DEF SweepShard, ReplayTypeOK
  <2>6. CASE RefusedAgain(h)  BY <2>6, Zenon DEF RefusedAgain, ReplayTypeOK, tables
  <2>7. CASE Generation(h)  BY <2>7 DEF Generation, ReplayTypeOK, tables
  <2>8. CASE Insert(h)
    <3> DEFINE entry == [gen |-> gen[h], committed |-> FALSE, exp |-> PendingDeadline(h)]
               record == [exp |-> entry.exp, gen |-> gen[h], key |-> key[h]]
               purged == PurgedEntries(ShardOf[key[h]], anchor[h])
               swept == PurgedHeap(ShardOf[key[h]], anchor[h])
    <3>1. purged \in Table /\ swept \subseteq Heap  BY <2>0, PurgedType, Zenon
    <3>2. PendingDeadline(h) \in Nat  BY <2>0 DEF PendingDeadline
    <3>3. entry \in [gen : Nat, committed : BOOLEAN, exp : Nat] /\ record \in Heap  BY <2>0, <3>2, Zenon
    <3>4. [purged EXCEPT ![key[h]] = entry] \in Table  BY <2>0, <3>1, <3>3, Zenon
    <3>5. \/ entries' = purged /\ heap' = swept
          \/ entries' = [purged EXCEPT ![key[h]] = entry] /\ heap' = swept \cup {record}
      BY <2>8, Zenon DEF Insert
    <3>6. entries' \in Table /\ heap' \subseteq Heap  BY <3>1, <3>3, <3>4, <3>5, Zenon
    <3>7. /\ owners' = owners \ {h}
          /\ stage' = [stage EXCEPT ![h] = "rejected"] \/ stage' = [stage EXCEPT ![h] = "reserved"]
          /\ UNCHANGED <<now, nextGen, key, anchor, gen, at, sampled, pass, sweep, until>>
      BY <2>8, Zenon DEF Insert
    <3> QED  BY <3>6, <3>7, Zenon DEF ReplayTypeOK
  <2>9. CASE InsertFails(h)
    <3>1. entries' \in Table /\ heap' \subseteq Heap  BY <2>9, <2>0, PurgedType, Zenon DEF InsertFails
    <3> QED  BY <2>9, <3>1, Zenon DEF InsertFails, ReplayTypeOK
  <2>10. CASE ReadFinishClock(h)  BY <2>10, Zenon DEF ReadFinishClock, ReplayTypeOK, tables
  <2>11. CASE Commit(h)
    <3>1. at[h] + CommittedTtl \in Nat  BY <2>0
    <3>2. entries' \in Table  BY <2>11, <2>0, <3>1, Zenon DEF Commit, ReplayTypeOK
    <3>3. heap' \subseteq Heap  BY <2>11, <2>0, <3>1 DEF Commit, ReplayTypeOK
    <3> QED  BY <2>11, <2>0, <3>1, <3>2, <3>3, Zenon DEF Commit, ReplayTypeOK
  <2>12. CASE Drop(h) \/ CommitFails(h)
    <3>1. RollBack(h)  BY <2>12, Zenon DEF Drop, CommitFails
    <3>2. heap' \subseteq heap  BY <3>1, CompactedType DEF RollBack, tables
    <3>3. entries' \in Table  BY <3>1, <2>0, <1>0, Zenon DEF RollBack, tables, ReplayTypeOK
    <3> QED  BY <3>1, <3>2, <3>3, Zenon DEF RollBack, ReplayTypeOK
  <2> QED  BY <2>1, <2>2, <2>3, <2>4, <2>5, <2>6, <2>7, <2>8, <2>9, <2>10, <2>11, <2>12, Zenon
             DEF HandshakeStep
<1>5. CASE UNCHANGED vars  BY <1>5, Zenon DEF vars, ReplayTypeOK
<1> QED  BY <1>1, <1>2, <1>3, <1>4, <1>5, Zenon DEF ReplayNext

\* Every variable of the replay cache keeps its type, for all constants.
THEOREM ReplayTypeCorrect == ReplaySpec => []ReplayTypeOK
<1>1. ReplayInit => ReplayTypeOK  BY InitType, ReplayConstants, Zenon
<1>2. ReplayTypeOK /\ [ReplayNext]_vars => ReplayTypeOK'  BY NextType, ReplayConstants, Zenon
<1> QED  BY <1>1, <1>2, PTL DEF ReplaySpec

-----------------------------------------------------------------------------
(* The inductive invariant *)

\* The empty cache satisfies the invariant.
LEMMA InitInv == ASSUME ReplayConstants, ReplayInit PROVE ReplayInv
<1>1. ReplayTypeOK  BY InitType, Zenon
<1>2. InstantsArePast /\ RetentionIsEntry /\ GenerationsAreFresh /\ PendingEntry
  BY DEF ReplayConstants, ReplayInit, InstantsArePast, RetentionIsEntry, GenerationsAreFresh,
         PendingEntry, Active, Pending, NoEntry
<1> QED  BY <1>1, <1>2, Zenon DEF ReplayInv

\* A step that at most purges entries past their deadline, and moves no
\* handshake into or along its reservation, keeps the invariant.
LEMMA PurgeStep ==
    ASSUME ReplayConstants, ReplayInv, ReplayTypeOK',
           now' = now, nextGen' = nextGen, anchor' = anchor, gen' = gen, at' = at,
           key' = key, until' = until, sampled' = sampled,
           \A k \in Key : \/ entries'[k] = entries[k]
                          \/ entries'[k] = NoEntry /\ entries[k].exp <= now,
           \A h \in Handshake : stage'[h] \in Active => stage'[h] = stage[h]
    PROVE  ReplayInv'
<1> USE DEF ReplayInv
<1>0. \A k \in Key : /\ entries[k].gen \in Nat /\ entries[k].exp \in Nat
                     /\ entries[k].committed \in BOOLEAN /\ until[k] \in Nat
  BY Zenon DEF ReplayTypeOK
<1>1. InstantsArePast'  BY Zenon DEF InstantsArePast
<1>2. RetentionIsEntry'
  <2> SUFFICES ASSUME NEW k \in Key
               PROVE  /\ entries'[k].committed => entries'[k].exp = until[k]
                      /\ until[k] > now => entries'[k].committed
                      /\ entries'[k].committed => entries'[k].gen # 0
    BY Zenon DEF RetentionIsEntry
  <2>1. /\ entries[k].committed => entries[k].exp = until[k]
        /\ until[k] > now => entries[k].committed
        /\ entries[k].committed => entries[k].gen # 0
    BY Zenon DEF RetentionIsEntry
  <2>2. CASE entries'[k] = entries[k]  BY <2>1, <2>2, Zenon
  <2>3. CASE entries'[k] = NoEntry /\ entries[k].exp <= now
    <3>1. ~(until[k] > now)  BY <1>0, <2>1, <2>3 DEF ReplayTypeOK
    <3> QED  BY <2>3, <3>1, NoEntryFields, Zenon
  <2> QED  BY <2>2, <2>3, Zenon
<1>3. GenerationsAreFresh'
  <2>1. \A k \in Key : entries'[k].gen = entries[k].gen \/ entries'[k].gen = 0
    BY NoEntryFields, Zenon
  <2>2. 0 < nextGen  BY DEF ReplayTypeOK
  <2> QED  BY <2>1, <2>2, ZenonT(60) DEF GenerationsAreFresh, Active
<1>4. PendingEntry'
  <2> SUFFICES ASSUME NEW h \in Handshake, stage'[h] \in Pending
               PROVE  /\ entries'[key[h]].gen = gen[h] =>
                            ~entries'[key[h]].committed /\ entries'[key[h]].exp = PendingDeadline(h)
                      /\ \A k \in Key : entries'[k].gen = gen[h] => k = key[h]
                      /\ PendingDeadline(h) > now => entries'[key[h]].gen = gen[h]
    BY ZenonT(60) DEF PendingEntry, PendingDeadline
  <2>0. stage[h] \in Pending /\ key[h] \in Key  BY Zenon DEF Pending, Active, ReplayTypeOK
  <2>1. gen[h] # 0  BY <2>0, Zenon DEF GenerationsAreFresh, Active, Pending
  <2>2. /\ entries[key[h]].gen = gen[h] =>
              ~entries[key[h]].committed /\ entries[key[h]].exp = PendingDeadline(h)
        /\ \A k \in Key : entries[k].gen = gen[h] => k = key[h]
        /\ PendingDeadline(h) > now => entries[key[h]].gen = gen[h]
    BY <2>0, Zenon DEF PendingEntry
  <2>3. \A k \in Key : entries'[k].gen = gen[h] => entries'[k] = entries[k]
    BY <2>1, NoEntryFields, Zenon
  <2>4. PendingDeadline(h) \in Nat /\ now \in Nat
    BY DEF PendingDeadline, ReplayTypeOK, ReplayConstants
  <2>5. PendingDeadline(h) > now => entries'[key[h]] = entries[key[h]]
    BY <2>0, <2>2, <2>4
  <2> QED  BY <2>0, <2>2, <2>3, <2>5, Zenon
<1> QED  BY <1>1, <1>2, <1>3, <1>4, Zenon

\* Moving the clock keeps the invariant.
LEMMA TickStep == ASSUME ReplayConstants, ReplayInv, ReplayTypeOK', ClockTick PROVE ReplayInv'
<1> USE DEF ReplayInv, ClockTick, tables
<1>0. now \in Nat /\ now' = now + 1  BY Zenon DEF ReplayTypeOK
<1>1. InstantsArePast'  BY <1>0 DEF InstantsArePast, ReplayTypeOK
<1>2. RetentionIsEntry'
  <2>1. entries' = entries /\ until' = until  BY Zenon
  <2>2. \A k \in Key : until[k] > now' => until[k] > now
    BY <1>0 DEF ReplayTypeOK
  <2>3. RetentionIsEntry  BY Zenon
  <2> QED  BY <2>1, <2>2, <2>3, Zenon DEF RetentionIsEntry
<1>3. GenerationsAreFresh'  BY Zenon DEF GenerationsAreFresh
<1>4. PendingEntry'
  <2>1. \A h \in Handshake : PendingDeadline(h) \in Nat /\ PendingDeadline(h)' = PendingDeadline(h)
    BY DEF PendingDeadline, ReplayTypeOK, ReplayConstants
  <2>2. entries' = entries /\ key' = key /\ gen' = gen /\ stage' = stage  BY Zenon
  <2>3. \A h \in Handshake : PendingDeadline(h)' > now' => PendingDeadline(h) > now
    BY ONLY <1>0, <2>1
  <2>4. PendingEntry  BY Zenon
  <2> QED  BY ONLY <2>1, <2>2, <2>3, <2>4, Zenon DEF PendingEntry
<1> QED  BY <1>1, <1>2, <1>3, <1>4, Zenon

\* Reading the clock into a local keeps the invariant.
LEMMA SampleStep ==
    ASSUME ReplayConstants, ReplayInv, ReplayTypeOK', MonitorSample PROVE ReplayInv'
<1> USE DEF ReplayInv, MonitorSample, tables
<1>1. InstantsArePast'
  <2>1. now \in Nat /\ now' = now /\ sampled' = now /\ anchor' = anchor /\ at' = at
    BY Zenon DEF ReplayTypeOK
  <2>2. InstantsArePast  BY Zenon
  <2> QED  BY ONLY <2>1, <2>2 DEF InstantsArePast
<1>2. RetentionIsEntry' /\ GenerationsAreFresh'  BY Zenon DEF RetentionIsEntry, GenerationsAreFresh
<1>3. PendingEntry'  BY Zenon DEF PendingEntry, PendingDeadline
<1> QED  BY <1>1, <1>2, <1>3, Zenon

\* Reading the handshake's anchor, before it has a reservation, keeps it.
LEMMA AnchorStep ==
    ASSUME ReplayConstants, ReplayInv, ReplayTypeOK', NEW h \in Handshake, Anchor(h)
    PROVE  ReplayInv'
<1> USE DEF ReplayInv, Anchor, Goto, tables
<1>0. stage[h] = "start" /\ \A g \in Handshake : stage'[g] \in Active => g # h /\ stage'[g] = stage[g]
  BY Zenon DEF Active, ReplayTypeOK
<1>1. InstantsArePast'  BY DEF InstantsArePast, ReplayTypeOK
<1>2. RetentionIsEntry'  BY Zenon DEF RetentionIsEntry
<1>3. GenerationsAreFresh'  BY <1>0, ZenonT(60) DEF GenerationsAreFresh, Active
<1>4. PendingEntry'
  <2>1. \A g \in Handshake : stage'[g] \in Pending =>
           stage[g] \in Pending /\ PendingDeadline(g)' = PendingDeadline(g)
    BY <1>0, Zenon DEF Pending, Active, PendingDeadline, ReplayTypeOK
  <2> QED  BY <2>1, ZenonT(60) DEF PendingEntry
<1> QED  BY <1>1, <1>2, <1>3, <1>4, Zenon

\* Reading the clock for the commit keeps the invariant.
LEMMA FinishClockStep ==
    ASSUME ReplayConstants, ReplayInv, ReplayTypeOK', NEW h \in Handshake, ReadFinishClock(h)
    PROVE  ReplayInv'
<1> USE DEF ReplayInv, ReadFinishClock, Goto, tables
<1>0. \A g \in Handshake : /\ stage'[g] \in Pending <=> stage[g] \in Pending
                           /\ stage'[g] \in Active <=> stage[g] \in Active
                           /\ stage'[g] = "insert" <=> stage[g] = "insert"
  BY Zenon DEF Active, Pending, ReplayTypeOK
<1>1. InstantsArePast'  BY DEF InstantsArePast, ReplayTypeOK
<1>2. RetentionIsEntry'  BY Zenon DEF RetentionIsEntry
<1>3. GenerationsAreFresh'  BY <1>0 DEF GenerationsAreFresh
<1>4. PendingEntry'  BY <1>0, ZenonT(60) DEF PendingEntry, PendingDeadline
<1> QED  BY <1>1, <1>2, <1>3, <1>4, Zenon

\* A new generation differs from every entry and every other handshake.
LEMMA GenerationStep ==
    ASSUME ReplayConstants, ReplayInv, ReplayTypeOK', NEW h \in Handshake, Generation(h)
    PROVE  ReplayInv'
<1> USE DEF ReplayInv, Generation, Goto, tables
<1>0. /\ stage'[h] = "insert" /\ gen'[h] = nextGen /\ nextGen \in Nat \ {0} /\ nextGen' = nextGen + 1
      /\ \A g \in Handshake \ {h} : stage'[g] = stage[g] /\ gen'[g] = gen[g]
  BY ZenonT(60) DEF ReplayTypeOK
<1>1. InstantsArePast'  BY Zenon DEF InstantsArePast
<1>2. RetentionIsEntry'  BY Zenon DEF RetentionIsEntry
<1>3. GenerationsAreFresh'
  <2>0. \A k \in Key : entries[k].gen \in Nat /\ entries[k].gen < nextGen
    BY Zenon DEF GenerationsAreFresh, ReplayTypeOK
  <2>1. \A g \in Handshake \ {h} : stage'[g] \in Active =>
           gen'[g] \in Nat /\ gen'[g] # 0 /\ gen'[g] < nextGen
    BY <1>0, ZenonT(60) DEF GenerationsAreFresh, ReplayTypeOK
  <2>2. \A k \in Key : entries'[k].gen < nextGen'  BY <1>0, <2>0
  <2>3. \A g \in Handshake : stage'[g] \in Active => gen'[g] # 0 /\ gen'[g] < nextGen'
    BY <1>0, <2>1
  <2>4. \A f, g \in Handshake : stage'[f] \in Active /\ stage'[g] \in Active /\ gen'[f] = gen'[g] => f = g
    <3> SUFFICES ASSUME NEW f \in Handshake, NEW g \in Handshake,
                        stage'[f] \in Active, stage'[g] \in Active, gen'[f] = gen'[g]
                 PROVE  f = g
      BY Zenon
    <3>1. CASE f # h /\ g # h  BY <3>1, <1>0 DEF GenerationsAreFresh
    <3>2. CASE f = h  BY <3>2, <1>0, <2>1
    <3>3. CASE g = h  BY <3>3, <1>0, <2>1
    <3> QED  BY <3>1, <3>2, <3>3, Zenon
  <2>5. \A g \in Handshake : stage'[g] = "insert" => \A k \in Key : entries'[k].gen # gen'[g]
    <3> SUFFICES ASSUME NEW g \in Handshake, stage'[g] = "insert", NEW k \in Key
                 PROVE  entries[k].gen # gen'[g]
      BY Zenon
    <3>1. CASE g = h  BY <3>1, <1>0, <2>0
    <3>2. CASE g # h  BY <3>2, <1>0 DEF GenerationsAreFresh
    <3> QED  BY <3>1, <3>2, Zenon
  <2> QED  BY <2>2, <2>3, <2>4, <2>5, Zenon DEF GenerationsAreFresh
<1>4. PendingEntry'
  <2>1. \A g \in Handshake : stage'[g] \in Pending =>
           stage[g] \in Pending /\ gen'[g] = gen[g] /\ PendingDeadline(g)' = PendingDeadline(g)
    BY <1>0, Zenon DEF Pending, PendingDeadline
  <2> QED  BY <2>1 DEF PendingEntry
<1> QED  BY <1>1, <1>2, <1>3, <1>4, Zenon

-----------------------------------------------------------------------------
(* Changing one entry *)

\* Only entry k changes: what the handshakes other than h rely on is kept if
\* k was not theirs.
LEMMA OthersKept ==
    ASSUME ReplayConstants, ReplayInv, ReplayTypeOK', NEW h \in Handshake, NEW g \in Handshake, g # h,
           now' = now, anchor' = anchor, gen' = gen, key' = key,
           stage'[g] = stage[g], stage[g] \in Pending,
           \A k \in Key \ {key[h]} : \/ entries'[k] = entries[k]
                                     \/ entries'[k] = NoEntry /\ entries[k].exp <= now,
           entries'[key[h]].gen # gen[g],
           entries[key[h]].gen = gen[g] => entries[key[h]].exp <= now
    PROVE  /\ entries'[key[g]].gen = gen[g] =>
                 ~entries'[key[g]].committed /\ entries'[key[g]].exp = PendingDeadline(g)
           /\ \A k \in Key : entries'[k].gen = gen[g] => k = key[g]
           /\ PendingDeadline(g) > now => entries'[key[g]].gen = gen[g]
<1>0. /\ entries[key[g]].gen = gen[g] =>
            ~entries[key[g]].committed /\ entries[key[g]].exp = PendingDeadline(g)
      /\ \A k \in Key : entries[k].gen = gen[g] => k = key[g]
      /\ PendingDeadline(g) > now => entries[key[g]].gen = gen[g]
  BY Zenon DEF ReplayInv, PendingEntry
<1>1. /\ key[g] \in Key /\ key[h] \in Key /\ now \in Nat /\ gen[g] # 0
      /\ PendingDeadline(g) \in Nat
  BY DEF ReplayInv, ReplayTypeOK, ReplayConstants, PendingDeadline, GenerationsAreFresh, Active, Pending
<1>2. ASSUME NEW k \in Key, entries'[k].gen = gen[g] PROVE entries'[k] = entries[k]
  <2>1. k # key[h]  BY <1>2, Zenon
  <2>2. entries'[k] # NoEntry  BY <1>1, <1>2, NoEntryFields, Zenon
  <2> QED  BY <2>1, <2>2, Zenon
<1>3. ASSUME PendingDeadline(g) > now
      PROVE  key[g] # key[h] /\ entries'[key[g]] = entries[key[g]]
  <2>1. entries[key[g]].gen = gen[g] /\ entries[key[g]].exp = PendingDeadline(g)  BY <1>0, <1>3, Zenon
  <2>2. ~(entries[key[g]].exp <= now)  BY <1>1, <1>3, <2>1
  <2>3. key[g] # key[h]  BY <2>1, <2>2, Zenon
  <2> QED  BY <1>1, <2>2, <2>3, Zenon
<1> QED  BY <1>0, <1>1, <1>2, <1>3, Zenon

\* Inserting the pending entry of a key that has none.
LEMMA InsertStep ==
    ASSUME ReplayConstants, ReplayInv, ReplayTypeOK', NEW h \in Handshake, Insert(h),
           stage'[h] = "reserved"
    PROVE  ReplayInv'
<1> USE DEF ReplayInv
<1> DEFINE entry == [gen |-> gen[h], committed |-> FALSE, exp |-> PendingDeadline(h)]
           purged == PurgedEntries(ShardOf[key[h]], anchor[h])
<1>0. /\ key[h] \in Key /\ anchor[h] \in Nat /\ anchor[h] <= now /\ now \in Nat
      /\ gen[h] \in Nat /\ PendingDeadline(h) \in Nat
  BY DEF ReplayTypeOK, InstantsArePast, PendingDeadline, ReplayConstants
<1>9. purged \in [Key -> [gen : Nat, committed : BOOLEAN, exp : Nat]]
  BY <1>0, PurgedType, Zenon
<1>1. /\ stage[h] = "insert" /\ stage' = [stage EXCEPT ![h] = "reserved"]
      /\ purged[key[h]].gen = 0
      /\ entries' = [purged EXCEPT ![key[h]] = entry]
      /\ now' = now /\ nextGen' = nextGen /\ key' = key /\ anchor' = anchor /\ gen' = gen
      /\ at' = at /\ sampled' = sampled /\ until' = until
  <2>1. stage \in [Handshake -> {"start", "check", "permit", "sweep", "retry", "generation", "insert",
                               "reserved", "finished", "committed", "rejected", "dropped"}]
    BY Zenon DEF ReplayTypeOK
  <2> QED  BY <1>0, <2>1, Zenon DEF Insert, Goto
<1>2. \A k \in Key : \/ purged[k] = entries[k]
                     \/ purged[k] = NoEntry /\ entries[k].exp <= now
  BY <1>0, PurgeIsOld, Zenon
<1>3. \A k \in Key \ {key[h]} : \/ entries'[k] = entries[k]
                                \/ entries'[k] = NoEntry /\ entries[k].exp <= now
  BY <1>1, <1>2, <1>9, Zenon
<1>4. entries'[key[h]] = entry  BY <1>0, <1>1, <1>9, Zenon
<1>5. \/ entries[key[h]].gen = 0
      \/ entries[key[h]].exp <= now
  BY <1>0, <1>1, <1>2, Zenon
<1>6. \A g \in Handshake : g # h => stage'[g] = stage[g]  BY <1>1, ZenonT(60) DEF ReplayTypeOK
<1>10. stage[h] = "insert"  BY <1>1, Zenon
<1>7. gen[h] # 0 /\ gen[h] < nextGen /\ \A k \in Key : entries[k].gen # gen[h]
  BY <1>10, Zenon DEF GenerationsAreFresh, Active
<1> HIDE DEF entry, purged
<1>8. /\ entries'[key[h]].gen = gen[h] /\ ~entries'[key[h]].committed
      /\ entries'[key[h]].exp = PendingDeadline(h)
  BY <1>4 DEF entry
<1>11. InstantsArePast'  BY <1>1, Zenon DEF InstantsArePast
<1>12. RetentionIsEntry'
  <2> SUFFICES ASSUME NEW k \in Key
               PROVE  /\ entries'[k].committed => entries'[k].exp = until[k]
                      /\ until[k] > now => entries'[k].committed
                      /\ entries'[k].committed => entries'[k].gen # 0
    <3>1. until' = until /\ now' = now  BY <1>1, Zenon
    <3> QED  BY <3>1, Zenon DEF RetentionIsEntry
  <2>0. /\ entries[k].exp \in Nat /\ until[k] \in Nat
        /\ entries[k].committed => entries[k].exp = until[k]
        /\ until[k] > now => entries[k].committed
        /\ entries[k].committed => entries[k].gen # 0
    BY Zenon DEF RetentionIsEntry, ReplayTypeOK
  <2>1. CASE k = key[h]
    <3>0. now \in Nat /\ (entries[k].gen = 0 \/ entries[k].exp <= now)  BY <2>1, <1>0, <1>5, Zenon
    <3>1. ~(until[k] > now)  BY ONLY <2>0, <3>0
    <3> QED  BY <2>1, <3>1, <1>8, Zenon
  <2>2. CASE entries'[k] = entries[k]  BY <2>0, <2>2, Zenon
  <2>3. CASE entries'[k] = NoEntry /\ entries[k].exp <= now
    <3>1. ~(until[k] > now)  BY <2>0, <2>3, <1>0
    <3>2. ~entries'[k].committed  BY <2>3, NoEntryFields, Zenon
    <3> QED  BY <3>1, <3>2, Zenon
  <2> QED  BY <2>1, <2>2, <2>3, <1>3, Zenon
<1>13. GenerationsAreFresh'
  <2>1. \A k \in Key \ {key[h]} : entries'[k].gen = entries[k].gen \/ entries'[k].gen = 0
    BY <1>3, NoEntryFields, Zenon
  <2>2. nextGen \in Nat /\ 0 < nextGen  BY DEF ReplayTypeOK
  <2>3. \A k \in Key : entries'[k].gen < nextGen'
    BY <1>1, <1>7, <1>8, <2>1, <2>2, Zenon DEF GenerationsAreFresh
  <2>4. \A g \in Handshake : stage'[g] \in Active => stage[g] \in Active  BY <1>1, <1>6, Zenon DEF Active
  <2>5. \A g \in Handshake : stage'[g] = "insert" => g # h /\ stage[g] = "insert"
    BY <1>6, Zenon
  <2>6. \A g \in Handshake : stage'[g] = "insert" => \A k \in Key : entries'[k].gen # gen'[g]
    <3> SUFFICES ASSUME NEW g \in Handshake, stage'[g] = "insert", NEW k \in Key
                 PROVE  entries'[k].gen # gen[g]
      BY <1>1, Zenon
    <3>1. gen[g] # gen[h] /\ gen[g] # 0 /\ entries[k].gen # gen[g]
      BY <1>10, <2>5, Zenon DEF GenerationsAreFresh, Active
    <3> QED  BY <3>1, <1>8, <2>1, Zenon
  <2> QED  BY <1>1, <2>3, <2>4, <2>6, Zenon DEF GenerationsAreFresh
<1>14. PendingEntry'
  <2> SUFFICES ASSUME NEW g \in Handshake, stage'[g] \in Pending
               PROVE  /\ entries'[key[g]].gen = gen[g] =>
                            ~entries'[key[g]].committed /\ entries'[key[g]].exp = PendingDeadline(g)
                      /\ \A k \in Key : entries'[k].gen = gen[g] => k = key[g]
                      /\ PendingDeadline(g) > now => entries'[key[g]].gen = gen[g]
    <3>1. now' = now /\ key' = key /\ anchor' = anchor /\ gen' = gen  BY <1>1, Zenon
    <3> QED  BY <3>1, Zenon DEF PendingEntry, PendingDeadline
  <2>1. CASE g = h
    <3>1. \A k \in Key \ {key[h]} : entries'[k].gen # gen[h]  BY <1>3, <1>7, NoEntryFields, Zenon
    <3> QED  BY <2>1, <3>1, <1>8, Zenon
  <2>2. CASE g # h
    <3>1. stage[g] \in Pending /\ stage'[g] = stage[g]  BY <2>2, <1>6, Zenon
    <3>2. gen[g] # gen[h] /\ gen[g] # 0
      BY <2>2, <3>1, <1>1, Zenon DEF GenerationsAreFresh, Active, Pending
    <3>3. entries'[key[h]].gen # gen[g]  BY <3>2, <1>8, Zenon
    <3>4. entries[key[h]].gen = gen[g] => entries[key[h]].exp <= now  BY <3>2, <1>5, Zenon
    <3> QED  BY <2>2, <3>1, <3>3, <3>4, <1>1, <1>3, OthersKept, Zenon
  <2> QED  BY <2>1, <2>2, Zenon
<1> QED  BY <1>11, <1>12, <1>13, <1>14, Zenon

\* Committing, or rolling back, the reservation's own entry.
LEMMA OwnEntryStep ==
    ASSUME ReplayConstants, ReplayInv, ReplayTypeOK', NEW h \in Handshake, stage[h] \in Pending,
           now' = now, nextGen' = nextGen, anchor' = anchor, gen' = gen, at' = at,
           key' = key, sampled' = sampled,
           \A g \in Handshake : IF g = h THEN stage'[g] \notin Active ELSE stage'[g] = stage[g],
           Mine(h),
           \A k \in Key \ {key[h]} : entries'[k] = entries[k] /\ until'[k] = until[k],
           entries'[key[h]].gen \in {gen[h], 0},
           LET k == key[h]
           IN  \/ entries'[k] = NoEntry /\ until'[k] = until[k]
               \/ entries'[k].committed /\ entries'[k].exp = until'[k] /\ entries'[k].gen # 0
    PROVE  ReplayInv'
<1> USE DEF ReplayInv
<1>0. /\ key[h] \in Key /\ gen[h] # 0 /\ gen[h] < nextGen /\ nextGen \in Nat \ {0} /\ now \in Nat
      /\ entries[key[h]].gen = gen[h] /\ ~entries[key[h]].committed
  BY Zenon DEF Mine, ReplayTypeOK, GenerationsAreFresh, Active, Pending
<1>1. InstantsArePast'  BY Zenon DEF InstantsArePast
<1>2. RetentionIsEntry'
  <2> SUFFICES ASSUME NEW k \in Key
               PROVE  /\ entries'[k].committed => entries'[k].exp = until'[k]
                      /\ until'[k] > now => entries'[k].committed
                      /\ entries'[k].committed => entries'[k].gen # 0
    BY Zenon DEF RetentionIsEntry
  <2>0. /\ entries[k].committed => entries[k].exp = until[k]
        /\ until[k] > now => entries[k].committed
        /\ entries[k].committed => entries[k].gen # 0
    BY Zenon DEF RetentionIsEntry
  <2>1. CASE k # key[h]  BY <2>0, <2>1
  <2>2. CASE k = key[h] /\ entries'[k] = NoEntry /\ until'[k] = until[k]
    <3>1. ~entries'[k].committed  BY <2>2, NoEntryFields, Zenon
    <3>2. ~(until'[k] > now)  BY <2>0, <2>2, <1>0, Zenon
    <3> QED  BY <3>1, <3>2, Zenon
  <2>3. CASE k = key[h] /\ entries'[k].committed /\ entries'[k].exp = until'[k] /\ entries'[k].gen # 0
    BY <2>3, Zenon
  <2> QED  BY <2>1, <2>2, <2>3, Zenon
<1>3. GenerationsAreFresh'
  <2>1. \A k \in Key : entries'[k].gen = entries[k].gen \/ entries'[k].gen = 0  BY <1>0, Zenon
  <2>2. \A g \in Handshake : stage'[g] \in Active => stage[g] = stage'[g]  BY Zenon
  <2>3. \A g \in Handshake : stage'[g] = "insert" => stage[g] = "insert" /\ gen[g] # 0
    BY <2>2, ZenonT(60) DEF Active, GenerationsAreFresh
  <2>4. \A k \in Key : entries'[k].gen < nextGen'
    <3>1. \A k \in Key : entries[k].gen < nextGen  BY Zenon DEF GenerationsAreFresh
    <3>2. 0 < nextGen /\ nextGen' = nextGen  BY <1>0
    <3> QED  BY ONLY <2>1, <3>1, <3>2, Zenon
  <2>5. \A g \in Handshake : stage'[g] \in Active => gen'[g] # 0 /\ gen'[g] < nextGen'
    BY <2>2, Zenon DEF GenerationsAreFresh
  <2>6. \A f, g \in Handshake : stage'[f] \in Active /\ stage'[g] \in Active /\ gen'[f] = gen'[g] => f = g
    BY <2>2, Zenon DEF GenerationsAreFresh
  <2>7. \A g \in Handshake : stage'[g] = "insert" => \A k \in Key : entries'[k].gen # gen'[g]
    <3>1. \A g \in Handshake : stage[g] = "insert" => \A k \in Key : entries[k].gen # gen[g]
      BY Zenon DEF GenerationsAreFresh
    <3>2. gen' = gen  BY Zenon
    <3> QED  BY ONLY <2>1, <2>3, <3>1, <3>2, Zenon
  <2> QED  BY <2>4, <2>5, <2>6, <2>7, Zenon DEF GenerationsAreFresh
<1>4. PendingEntry'
  <2> SUFFICES ASSUME NEW g \in Handshake, stage'[g] \in Pending
               PROVE  /\ entries'[key[g]].gen = gen[g] =>
                            ~entries'[key[g]].committed /\ entries'[key[g]].exp = PendingDeadline(g)
                      /\ \A k \in Key : entries'[k].gen = gen[g] => k = key[g]
                      /\ PendingDeadline(g) > now => entries'[key[g]].gen = gen[g]
    BY ZenonT(60) DEF PendingEntry, PendingDeadline
  <2>1. g # h /\ stage'[g] = stage[g] /\ stage[g] \in Pending  BY Zenon DEF Active, Pending
  <2>2. gen[g] # gen[h] /\ gen[g] # 0  BY <2>1, ZenonT(60) DEF GenerationsAreFresh, Active, Pending
  <2>3. entries'[key[h]].gen # gen[g] /\ entries[key[h]].gen # gen[g]  BY <2>2, <1>0, Zenon
  <2> QED  BY <2>1, <2>3, OthersKept, Zenon
<1> QED  BY <1>1, <1>2, <1>3, <1>4, Zenon

\* commit_at keeps the invariant: it changes only its own pending entry.
LEMMA CommitStep ==
    ASSUME ReplayConstants, ReplayInv, ReplayTypeOK', NEW h \in Handshake, Commit(h)
    PROVE  ReplayInv'
<1>0. key[h] \in Key /\ gen[h] # 0 /\ stage[h] = "finished" /\ stage[h] \in Pending
  BY Zenon DEF Commit, ReplayInv, ReplayTypeOK, GenerationsAreFresh, Active, Pending
<1>1. /\ entries' = [entries EXCEPT ![key[h]] =
                        [gen |-> gen[h], committed |-> TRUE, exp |-> at[h] + CommittedTtl]]
      /\ until' = [until EXCEPT ![key[h]] = at[h] + CommittedTtl]
      /\ stage' = [stage EXCEPT ![h] = "committed"] /\ Mine(h)
      /\ now' = now /\ nextGen' = nextGen /\ anchor' = anchor /\ gen' = gen /\ at' = at
      /\ key' = key /\ sampled' = sampled
  BY Zenon DEF Commit, Committable, Goto
<1>2. entries \in [Key -> [gen : Nat, committed : BOOLEAN, exp : Nat]] /\ until \in [Key -> Nat]
  BY Zenon DEF ReplayInv, ReplayTypeOK
<1>3. /\ entries'[key[h]] = [gen |-> gen[h], committed |-> TRUE, exp |-> at[h] + CommittedTtl]
      /\ until'[key[h]] = at[h] + CommittedTtl
      /\ \A k \in Key \ {key[h]} : entries'[k] = entries[k] /\ until'[k] = until[k]
  BY <1>0, <1>1, <1>2, Zenon
<1>4. \A g \in Handshake : IF g = h THEN stage'[g] \notin Active ELSE stage'[g] = stage[g]
  BY <1>1, ZenonT(60) DEF Active, ReplayInv, ReplayTypeOK
<1>5. /\ entries'[key[h]].committed /\ entries'[key[h]].exp = until'[key[h]]
      /\ entries'[key[h]].gen = gen[h]
  <2> DEFINE entry == [gen |-> gen[h], committed |-> TRUE, exp |-> at[h] + CommittedTtl]
  <2>1. entry.committed /\ entry.gen = gen[h] /\ entry.exp = at[h] + CommittedTtl  BY Zenon
  <2>2. entries'[key[h]] = entry /\ until'[key[h]] = at[h] + CommittedTtl  BY <1>3, Zenon
  <2> HIDE DEF entry
  <2> QED  BY <2>1, <2>2, Zenon
<1> QED  BY <1>0, <1>1, <1>3, <1>4, <1>5, OwnEntryStep, Zenon

\* Drop and a failed commit keep the invariant.
LEMMA RollBackStep ==
    ASSUME ReplayConstants, ReplayInv, ReplayTypeOK', NEW h \in Handshake, RollBack(h),
           stage[h] \in Pending
    PROVE  ReplayInv'
<1>0. /\ stage' = [stage EXCEPT ![h] = "dropped"] /\ now' = now /\ nextGen' = nextGen
      /\ anchor' = anchor /\ gen' = gen /\ at' = at /\ key' = key /\ sampled' = sampled
      /\ until' = until
  BY Zenon DEF RollBack, Goto
<1>1. \A g \in Handshake : IF g = h THEN stage'[g] \notin Active ELSE stage'[g] = stage[g]
  BY <1>0, Zenon DEF Active, ReplayInv, ReplayTypeOK
<1>2. CASE Mine(h)
  <2>1. entries' = [entries EXCEPT ![key[h]] = NoEntry] /\ key[h] \in Key
    BY <1>2, Zenon DEF RollBack, ReplayInv, ReplayTypeOK
  <2>2. /\ entries'[key[h]] = NoEntry
        /\ \A k \in Key \ {key[h]} : entries'[k] = entries[k]
    BY <2>1, Zenon DEF ReplayInv, ReplayTypeOK
  <2>3. entries'[key[h]].gen = 0  BY <2>2, NoEntryFields, Zenon
  <2> QED  BY <1>0, <1>1, <1>2, <2>2, <2>3, OwnEntryStep, Zenon
<1>3. CASE ~Mine(h)
  <2>1. entries' = entries  BY <1>3, Zenon DEF RollBack, tables
  <2>2. \A g \in Handshake : stage'[g] \in Active => stage'[g] = stage[g]  BY <1>1, Zenon
  <2> QED  BY <1>0, <2>1, <2>2, PurgeStep, Zenon
<1> QED  BY <1>2, <1>3, Zenon

-----------------------------------------------------------------------------
(* The theorems *)

\* Every step keeps the invariant, action by action.
LEMMA NextInv ==
    ASSUME ReplayConstants, ReplayInv, [ReplayNext]_vars PROVE ReplayInv'
<1>0. ReplayTypeOK /\ ReplayTypeOK' /\ InstantsArePast  BY NextType, Zenon DEF ReplayInv
<1>1. CASE ClockTick  BY <1>0, <1>1, TickStep, Zenon
<1>2. CASE MonitorSample  BY <1>0, <1>2, SampleStep, Zenon
<1>3. ASSUME NEW s \in Shard, MonitorPurge(s) PROVE ReplayInv'
  <2>1. sampled \in Nat /\ sampled <= now /\ now \in Nat  BY <1>0, Zenon DEF ReplayTypeOK, InstantsArePast
  <2>2. entries' = PurgedEntries(s, sampled)  BY <1>3, Zenon DEF MonitorPurge
  <2>3. \A k \in Key : \/ entries'[k] = entries[k]
                       \/ entries'[k] = NoEntry /\ entries[k].exp <= now
    BY <1>0, <2>1, <2>2, PurgeIsOld, Zenon
  <2> QED  BY <1>0, <1>3, <2>3, PurgeStep, Zenon DEF MonitorPurge
<1>4. ASSUME NEW h \in Handshake, HandshakeStep(h) PROVE ReplayInv'
  <2> DEFINE Purging == \A k \in Key : \/ entries'[k] = entries[k]
                                       \/ entries'[k] = NoEntry /\ entries[k].exp <= now
             Quiet == \A g \in Handshake : stage'[g] \in Active => stage'[g] = stage[g]
  <2>0. anchor[h] \in Nat /\ anchor[h] <= now
    BY <1>0, Zenon DEF ReplayTypeOK, InstantsArePast
  <2>1. CASE Anchor(h)  BY <1>0, <2>1, AnchorStep, Zenon
  <2>2. CASE FirstCheck(h)
    <3>0. entries' = PurgedEntries(ShardOf[key[h]], anchor[h])  BY <2>2, Zenon DEF FirstCheck
    <3>1. Purging  BY <1>0, <2>0, <3>0, PurgeIsOld, Zenon
    <3>2. Quiet  BY <1>0, <2>2, Zenon DEF FirstCheck, Goto, Active, ReplayTypeOK
    <3> QED  BY <1>0, <2>2, <3>1, <3>2, PurgeStep, Zenon DEF FirstCheck
  <2>3. CASE AcquirePermit(h)
    <3>1. Quiet  BY <1>0, <2>3, Zenon DEF AcquirePermit, Goto, Active, ReplayTypeOK
    <3> QED  BY <1>0, <2>3, <3>1, PurgeStep, Zenon DEF AcquirePermit, tables
  <2>4. CASE Refused(h)
    <3>1. Quiet  BY <1>0, <2>4, Zenon DEF Refused, Goto, Active, ReplayTypeOK
    <3> QED  BY <1>0, <2>4, <3>1, PurgeStep, Zenon DEF Refused, tables
  <2>5. ASSUME NEW s \in Shard, SweepShard(h, s) PROVE ReplayInv'
    <3>0. entries' = PurgedEntries(s, anchor[h])  BY <2>5, Zenon DEF SweepShard
    <3>1. Purging  BY <1>0, <2>0, <3>0, PurgeIsOld, Zenon
    <3>2. Quiet  BY <1>0, <2>5, Zenon DEF SweepShard, Goto, Active, ReplayTypeOK
    <3> QED  BY <1>0, <2>5, <3>1, <3>2, PurgeStep, Zenon DEF SweepShard
  <2>6. CASE RefusedAgain(h)
    <3>1. Quiet  BY <1>0, <2>6, Zenon DEF RefusedAgain, Goto, Active, ReplayTypeOK
    <3> QED  BY <1>0, <2>6, <3>1, PurgeStep, Zenon DEF RefusedAgain, tables
  <2>7. CASE Generation(h)  BY <1>0, <2>7, GenerationStep, Zenon
  <2>8. CASE Insert(h)
    <3>1. CASE stage'[h] = "reserved"  BY <1>0, <2>8, <3>1, InsertStep, Zenon
    <3>2. CASE stage'[h] # "reserved"
      <4>1. stage' = [stage EXCEPT ![h] = "rejected"]
            /\ entries' = PurgedEntries(ShardOf[key[h]], anchor[h])
        BY <1>0, <2>8, <3>2, Zenon DEF Insert, Goto, ReplayTypeOK
      <4>2. Purging  BY <1>0, <2>0, <4>1, PurgeIsOld, Zenon
      <4>3. Quiet  BY <1>0, <4>1, Zenon DEF Active, ReplayTypeOK
      <4> QED  BY <1>0, <2>8, <4>2, <4>3, PurgeStep, ZenonT(30) DEF Insert
    <3> QED  BY <3>1, <3>2, Zenon
  <2>9. CASE InsertFails(h)
    <3>0. entries' = PurgedEntries(ShardOf[key[h]], anchor[h])  BY <2>9, Zenon DEF InsertFails
    <3>1. Purging  BY <1>0, <2>0, <3>0, PurgeIsOld, Zenon
    <3>2. Quiet  BY <1>0, <2>9, Zenon DEF InsertFails, Goto, Active, ReplayTypeOK
    <3> QED  BY <1>0, <2>9, <3>1, <3>2, PurgeStep, ZenonT(60) DEF InsertFails
  <2>10. CASE ReadFinishClock(h)  BY <1>0, <2>10, FinishClockStep, Zenon
  <2>11. CASE Commit(h)  BY <1>0, <2>11, CommitStep, Zenon
  <2>12. CASE Drop(h) \/ CommitFails(h)
    <3>1. RollBack(h) /\ stage[h] \in Pending  BY <2>12, Zenon DEF Drop, CommitFails, Pending
    <3> QED  BY <1>0, <3>1, RollBackStep, Zenon
  <2> QED  BY <1>4, <2>1, <2>2, <2>3, <2>4, <2>5, <2>6, <2>7, <2>8, <2>9, <2>10, <2>11, <2>12, Zenon
             DEF HandshakeStep
<1>5. CASE UNCHANGED vars
  <2>1. InstantsArePast' /\ RetentionIsEntry'
    BY <1>5, Zenon DEF vars, ReplayInv, InstantsArePast, RetentionIsEntry
  <2>2. GenerationsAreFresh'  BY <1>5, Zenon DEF vars, ReplayInv, GenerationsAreFresh
  <2>3. PendingEntry'  BY <1>5, Zenon DEF vars, ReplayInv, PendingEntry, PendingDeadline
  <2> QED  BY <1>0, <2>1, <2>2, <2>3, Zenon DEF ReplayInv
<1> QED  BY <1>1, <1>2, <1>3, <1>4, <1>5, Zenon DEF ReplayNext

\* The inductive invariant holds in every reachable state.
LEMMA InvHolds == ReplaySpec => []ReplayInv
<1>1. ReplayInit => ReplayInv  BY InitInv, ReplayConstants, Zenon
<1>2. ReplayInv /\ [ReplayNext]_vars => ReplayInv'  BY NextInv, ReplayConstants, Zenon
<1> QED  BY <1>1, <1>2, PTL DEF ReplaySpec

\* A committed key stays in the table until its retention ends, for any
\* number of handshakes, keys and shards and any times to live.
THEOREM CommittedKeysAreKept == ReplaySpec => []CommittedIsKept
<1>1. ReplayInv => CommittedIsKept  BY Zenon DEF ReplayInv, RetentionIsEntry, CommittedIsKept
<1> QED  BY <1>1, InvHolds, PTL

\* A reservation is its handshake's to commit until the handshake deadline.
THEOREM ReservationsAreKept == ReplaySpec => []ReservationIsKept
<1>1. ReplayInv => ReservationIsKept
  <2> SUFFICES ASSUME ReplayInv, NEW h \in Handshake, stage[h] \in {"reserved", "finished"},
                      anchor[h] + PendingTtl > now
               PROVE  Committable(h)
    BY Zenon DEF ReservationIsKept
  <2>1. /\ entries[key[h]].gen = gen[h] /\ ~entries[key[h]].committed
        /\ entries[key[h]].exp = anchor[h] + PendingTtl
    BY Zenon DEF ReplayInv, PendingEntry, Pending, PendingDeadline
  <2>2. anchor[h] \in Nat /\ at[h] \in Nat /\ now \in Nat /\ at[h] <= now /\ PendingTtl \in Nat
    BY ReplayConstants, Zenon DEF ReplayInv, ReplayTypeOK, InstantsArePast, ReplayConstants
  <2>3. anchor[h] + PendingTtl > at[h]  BY ONLY <2>2, anchor[h] + PendingTtl > now
  <2> QED  BY ONLY <2>1, <2>3, Zenon DEF Committable, Mine
<1> QED  BY <1>1, InvHolds, PTL

\* No key is committed again while the retention of its last commit runs.
THEOREM NoReplay == ReplaySpec => NoReplayCommitted
<1> DEFINE Once == \A k \in Key : until'[k] # until[k] => until[k] <= now
<1>1. ReplayInv /\ [ReplayNext]_vars => [Once]_vars
  <2> SUFFICES ASSUME ReplayInv, ReplayNext, NEW k \in Key, until'[k] # until[k]
               PROVE  until[k] <= now
    BY Zenon DEF vars
  <2>1. PICK h \in Handshake : Commit(h)
    BY ZenonT(60)
         DEF ReplayNext, HandshakeStep, ClockTick, MonitorSample, MonitorPurge, Anchor, FirstCheck,
           AcquirePermit, Refused, SweepShard, RefusedAgain, Generation, Insert, InsertFails,
           ReadFinishClock, Drop, CommitFails, RollBack
  <2>2. key[h] \in Key /\ until \in [Key -> Nat] /\ now \in Nat  BY Zenon DEF ReplayInv, ReplayTypeOK
  <2>3. k = key[h]  BY <2>1, <2>2, ZenonT(30) DEF Commit
  <2>4. ~entries[k].committed  BY <2>1, <2>3, Zenon DEF Commit, Committable, Mine
  <2> QED  BY <2>2, <2>4 DEF ReplayInv, RetentionIsEntry
<1> QED  BY <1>1, InvHolds, PTL DEF NoReplayCommitted, ReplaySpec

-----------------------------------------------------------------------------
(* Cover profiles *)

\* The types the argument needs: where everybody is, and what is queued.
CoverPlaces ==
    /\ coverLife \in {"created", "active", "stopped"}
    /\ profile \in [Class -> {"none", "current", "expired"}] /\ candidates \in Seq(Class)
    /\ about \in [Visitor -> Class \cup {NoClass}]
    /\ wake \in BOOLEAN /\ sleeper \in {"none", "waiting", "woken"}
    /\ visit \in [Visitor -> {"away", "look", "holds", "uncool", "enqueue", "queue", "notify"}]
    /\ \A v \in Visitor : visit[v] # "away" => about[v] \in Class

\* A notification that is still to come.
Announced == \E v \in Visitor : visit[v] = "notify"

\* The inductive invariant.  From the empty pop to the end of its sleep, a
\* candidate the collector has not seen is announced: by a stored permit, by the
\* woken registration, or by a handshake that has pushed and not yet notified.
CoverInv ==
    /\ CoverPlaces
    /\ coverLife = "stopped" <=> retiring # "no"
    /\ coverLife = "created" => collector = "none"
    /\ sleeper # "none" => collector \in {"recheck", "sleep", "done"}
    /\ collector = "idle" /\ ~wake /\ candidates # <<>> => Announced
    /\ collector \in {"recheck", "sleep"} /\ sleeper = "waiting" /\ candidates # <<>> => Announced
    /\ collector = "sleep" /\ sleeper = "waiting" => retiring # "done"

\* Nothing is queued and nobody sleeps when a generation is created.
LEMMA CoverInitInv == CoverInit => CoverInv
<1> SUFFICES ASSUME CoverInit PROVE CoverInv BY Zenon
<1>0. candidates \in Seq(Class) BY DEF CoverInit
<1>1. CoverPlaces BY <1>0, Zenon DEF CoverInit, CoverPlaces, NoClass
<1> QED BY <1>1, Zenon DEF CoverInit, CoverInv

\* The generation's own steps: only the broadcast and the cleared queue touch
\* what the collector waits for.
LEMMA RetireKeeps ==
    ASSUME CoverInv, ActivateCover \/ Retire
    PROVE  CoverInv'
<1>1. CASE ActivateCover
  BY <1>1, Zenon DEF ActivateCover, CoverInv, CoverPlaces, Announced, queueVars, notifyVars, visitVars
<1>2. CASE SwapStopped
  BY <1>2, Zenon DEF SwapStopped, CoverInv, CoverPlaces, Announced, queueVars, notifyVars, visitVars,
              collectorVars
<1>3. CASE ClearQueue
  BY <1>3 DEF ClearQueue, CoverInv, CoverPlaces, Announced, notifyVars, visitVars, collectorVars
<1>4. CASE EmptySnapshot
  BY <1>4, Zenon DEF EmptySnapshot, CoverInv, CoverPlaces, Announced, queueVars, notifyVars, visitVars,
              collectorVars
<1>5. CASE BroadcastStop
  BY <1>5, Zenon DEF BroadcastStop, CoverInv, CoverPlaces, Announced, queueVars, visitVars, collectorVars
<1> QED BY <1>1, <1>2, <1>3, <1>4, <1>5, Zenon DEF Retire

\* A handshake that moves on without notifying leaves every announcement.
LEMMA VisitMoves ==
    ASSUME CoverInv, NEW v \in Visitor, visit[v] \notin {"away", "notify"},
           NEW p \in {"away", "holds", "uncool", "enqueue", "queue"}, VisitTo(v, p),
           profile' \in [Class -> {"none", "current", "expired"}],
           UNCHANGED <<coverLife, candidates, notifyVars, collectorVars, retiring>>
    PROVE  CoverInv'
<1>1. CoverPlaces' BY Zenon DEF CoverInv, CoverPlaces, VisitTo, notifyVars
<1>2. Announced => Announced' BY Zenon DEF CoverInv, CoverPlaces, Announced, VisitTo
<1> QED BY <1>1, <1>2, Zenon DEF CoverInv, notifyVars, collectorVars

\* A handshake that pushes a candidate owes a notification until it has sent it.
LEMMA CoverVisitKeeps ==
    ASSUME CoverInv, NEW v \in Visitor, BeginVisit(v) \/ InCall(v)
    PROVE  CoverInv'
<1>0. profile' = profile => profile' \in [Class -> {"none", "current", "expired"}]
  BY Zenon DEF CoverInv, CoverPlaces
<1>1. CASE BeginVisit(v)
  <2>1. CoverPlaces' BY <1>1, ZenonT(60) DEF BeginVisit, CoverInv, CoverPlaces, notifyVars, queueVars
  <2>2. Announced => Announced' BY <1>1, Zenon DEF BeginVisit, CoverInv, CoverPlaces, Announced
  <2> QED BY <1>1, <2>1, <2>2, Zenon DEF BeginVisit, CoverInv, notifyVars, queueVars, collectorVars
<1>2. CASE Look(v)
  <2>1. PICK p \in LookOutcome[profile[about[v]]] : VisitTo(v, p) BY <1>2, Zenon DEF Look
  <2>2. p \in {"away", "holds", "enqueue"}
    BY <1>2, <2>1 DEF Look, LookOutcome, CoverInv, CoverPlaces
  <2> QED BY <1>0, <1>2, <2>1, <2>2, VisitMoves, Zenon DEF Look, queueVars
<1>3. CASE Satisfied(v) BY <1>0, <1>3, VisitMoves, Zenon DEF Satisfied, queueVars
<1>4. CASE Invalidate(v)
  <2>1. profile' \in [Class -> {"none", "current", "expired"}]
    BY <1>4, Zenon DEF Invalidate, CoverInv, CoverPlaces
  <2> QED BY <1>4, <2>1, VisitMoves, Zenon DEF Invalidate, queueVars
<1>5. CASE CoolInvalidated(v) BY <1>0, <1>5, VisitMoves, Zenon DEF CoolInvalidated
<1>6. CASE ReadSnapshot(v)
  <2>1. VisitTo(v, "away") \/ VisitTo(v, "queue") BY <1>6, Zenon DEF ReadSnapshot
  <2> QED BY <1>0, <1>6, <2>1, VisitMoves, Zenon DEF ReadSnapshot, queueVars
<1>7. CASE PushCandidate(v)
  <2>1. CASE Enqueueable(v)
    <3>1. VisitTo(v, "notify") /\ candidates' = Append(candidates, about[v])
      BY <1>7, <2>1, Zenon DEF PushCandidate
    <3>2. CoverPlaces' BY <1>7, <3>1 DEF PushCandidate, VisitTo, CoverInv, CoverPlaces, notifyVars
    <3>3. Announced' BY <3>1, Zenon DEF VisitTo, Announced, CoverInv, CoverPlaces
    <3> QED BY <1>7, <3>2, <3>3, Zenon DEF PushCandidate, CoverInv, notifyVars, collectorVars
  <2>2. CASE ~Enqueueable(v)
    BY <1>0, <1>7, <2>2, VisitMoves, Zenon DEF PushCandidate
  <2> QED BY <2>1, <2>2, Zenon
<1>8. CASE NotifyCollector(v)
  <2>1. CoverPlaces'
    BY <1>8, Zenon DEF NotifyCollector, VisitTo, CoverInv, CoverPlaces, queueVars, NoClass
  <2> QED BY <1>8, <2>1, Zenon DEF NotifyCollector, CoverInv, CoverPlaces, queueVars, collectorVars
<1> QED BY <1>1, <1>2, <1>3, <1>4, <1>5, <1>6, <1>7, <1>8, Zenon DEF InCall

\* A collector step: it falls asleep only after a second look, and registers
\* before it.
LEMMA CollectorKeeps ==
    ASSUME CoverInv, CollectorStep
    PROVE  CoverInv'
<1> USE DEF CoverInv, CoverPlaces, Announced, visitVars, queueVars, notifyVars, CollectorTo
<1>1. CASE SpawnCollector BY <1>1, Zenon DEF SpawnCollector
<1>2. CASE CheckActive BY <1>2, Zenon DEF CheckActive, StillActive
<1>3. CASE PopCandidate BY <1>3 DEF PopCandidate
<1>4. CASE EnableSleeper BY <1>4, Zenon DEF EnableSleeper
<1>5. CASE RecheckActive BY <1>5, Zenon DEF RecheckActive, StillActive
<1>6. CASE WakeUp BY <1>6, Zenon DEF WakeUp
<1>7. CASE Collect BY <1>7, Zenon DEF Collect
<1>8. CASE CheckPublish BY <1>8, Zenon DEF CheckPublish
<1>9. CASE StoreProfile BY <1>9, Zenon DEF StoreProfile
<1>10. CASE CoolFailed BY <1>10, Zenon DEF CoolFailed
<1>11. CASE SettleProbe BY <1>11, Zenon DEF SettleProbe
<1> QED BY <1>1, <1>2, <1>3, <1>4, <1>5, <1>6, <1>7, <1>8, <1>9, <1>10, <1>11, Zenon
        DEF CollectorStep

\* CoverInv is an invariant of the collector.
LEMMA CoverInvHolds == CoverSpec => []CoverInv
<1>1. CoverInv /\ [CoverNext]_coverVars => CoverInv'
  <2> SUFFICES ASSUME CoverInv, [CoverNext]_coverVars PROVE CoverInv' BY Zenon
  <2>1. CASE ActivateCover \/ Retire BY <2>1, RetireKeeps, Zenon
  <2>2. CASE CollectorStep BY <2>2, CollectorKeeps, Zenon
  <2>3. CASE ProfileExpires
    BY <2>3, ZenonT(60) DEF ProfileExpires, CoverInv, CoverPlaces, Announced, queueVars, notifyVars,
                collectorVars, visitVars
  <2>4. CASE CoverCooldownEnds
    BY <2>4, ZenonT(60) DEF CoverCooldownEnds, CoverInv, CoverPlaces, Announced, notifyVars,
                collectorVars, visitVars
  <2>5. CASE \E v \in Visitor : BeginVisit(v) \/ InCall(v) BY <2>5, CoverVisitKeeps, Zenon
  <2>6. CASE UNCHANGED coverVars
    BY <2>6, ZenonT(60) DEF coverVars, CoverInv, CoverPlaces, Announced, queueVars, notifyVars,
                collectorVars, visitVars
  <2> QED BY <2>1, <2>2, <2>3, <2>4, <2>5, <2>6, Zenon DEF CoverNext
<1> QED BY <1>1, CoverInitInv, PTL DEF CoverSpec

\* The collector never sleeps on a queued candidate nobody is about to announce,
\* nor past the end of its generation.
THEOREM CollectorNeverStranded == CoverSpec => []CollectorIsNotStranded
<1>1. CoverInv => CollectorIsNotStranded BY Zenon DEF CoverInv, CollectorIsNotStranded, Announced
<1> QED BY <1>1, CoverInvHolds, PTL
=============================================================================
