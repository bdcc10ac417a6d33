---------------------------- MODULE CoverProfiles ----------------------------
(***************************************************************************)
(* The cover-profile cache of one generation (server/cover_profile.rs):    *)
(* authenticated handshakes look classes up, invalidate them and nominate  *)
(* them, one collector task probes the cover site and publishes, and the   *)
(* generation is retired at any moment.                                    *)
(*                                                                         *)
(* One action is one access to the lifecycle, the published snapshot or    *)
(* the Notify, or one critical section of the queue or publication lock.   *)
(* A profile is current or expired; what a probe observes is a choice      *)
(* between consensus and failure.  Counters of the diagnostics are left    *)
(* out.                                                                    *)
(***************************************************************************)
EXTENDS Integers, FiniteSets
LOCAL INSTANCE Sequences

CONSTANTS Class, Visitor,  \* ClientHello classes; authenticated handshakes
          MaxClasses       \* MAX_PROFILE_CLASSES

VARIABLES
    coverLife,    \* lifecycle: created, active, stopped
    profile,      \* published: per class none, current or expired
    candidates,   \* queue.candidates
    cooldowns,    \* queue.cooldowns: [class, over]
    probed,       \* queue.in_flight, or NoClass
    wake,         \* Notify: a permit is stored
    sleeper,      \* the collector's Notified: none, waiting or woken
    collector,    \* where run_collector is; none before it is spawned
    subject,      \* the candidate it works on, or NoClass
    retiring,     \* how far deactivate is
    visit,        \* visitor: where its call is
    about,        \* visitor: the class of its ClientHello, or NoClass
    known, replaces   \* visitor: what enqueue read of the snapshot

coverVars == <<coverLife, profile, candidates, cooldowns, probed, wake, sleeper, collector,
               subject, retiring, visit, about, known, replaces>>
visitVars == <<visit, about, known, replaces>>
queueVars == <<candidates, cooldowns, probed>>
notifyVars == <<wake, sleeper>>
collectorVars == <<collector, subject>>

NoClass == "none"
Published == {k \in Class : profile[k] # "none"}
Queued == {candidates[i] : i \in DOMAIN candidates}

CoverTypeOK ==
    /\ coverLife \in {"created", "active", "stopped"}
    /\ profile \in [Class -> {"none", "current", "expired"}]
    /\ candidates \in Seq(Class) /\ Len(candidates) <= MaxClasses
    /\ cooldowns \in Seq([class : Class, over : BOOLEAN]) /\ Len(cooldowns) <= MaxClasses
    /\ {probed, subject} \subseteq Class \cup {NoClass}
    /\ wake \in BOOLEAN /\ sleeper \in {"none", "waiting", "woken"}
    /\ collector \in {"none", "spawn", "check", "pop", "idle", "recheck", "sleep", "probe",
                      "publish", "store", "cool", "settle", "done"}
    /\ retiring \in {"no", "swapped", "cleared", "emptied", "done"}
    /\ visit \in [Visitor -> {"away", "look", "holds", "uncool", "enqueue", "queue", "notify"}]
    /\ about \in [Visitor -> Class \cup {NoClass}]
    /\ known \in [Visitor -> 0 .. MaxClasses] /\ replaces \in [Visitor -> BOOLEAN]

CoverInit ==
    /\ coverLife = "created" /\ profile = [k \in Class |-> "none"]
    /\ candidates = <<>> /\ cooldowns = <<>> /\ probed = NoClass
    /\ wake = FALSE /\ sleeper = "none"
    /\ collector = "none" /\ subject = NoClass /\ retiring = "no"
    /\ visit = [v \in Visitor |-> "away"] /\ about = [v \in Visitor |-> NoClass]
    /\ known = [v \in Visitor |-> 0] /\ replaces = [v \in Visitor |-> FALSE]

-----------------------------------------------------------------------------
(* Activation and retirement.                                               *)

\* activate: the exchange, then the collector is spawned (on the runtime that
\* production always has).
ActivateCover ==
    /\ coverLife = "created"
    /\ coverLife' = "active" /\ collector' = "spawn"
    /\ UNCHANGED <<profile, queueVars, notifyVars, subject, retiring, visitVars>>

SpawnCollector ==
    /\ collector = "spawn" /\ collector' = "check"
    /\ UNCHANGED <<coverLife, profile, queueVars, notifyVars, subject, retiring, visitVars>>

\* deactivate: the swap, the queue, the snapshot, the broadcast.
SwapStopped ==
    /\ retiring = "no" /\ coverLife # "stopped"
    /\ coverLife' = "stopped" /\ retiring' = "swapped"
    /\ UNCHANGED <<profile, queueVars, notifyVars, collectorVars, visitVars>>

ClearQueue ==
    /\ retiring = "swapped" /\ retiring' = "cleared"
    /\ candidates' = <<>> /\ cooldowns' = <<>> /\ probed' = NoClass
    /\ UNCHANGED <<coverLife, profile, notifyVars, collectorVars, visitVars>>

EmptySnapshot ==
    /\ retiring = "cleared" /\ retiring' = "emptied"
    /\ profile' = [k \in Class |-> "none"]
    /\ UNCHANGED <<coverLife, queueVars, notifyVars, collectorVars, visitVars>>

\* notify_waiters wakes who is registered and stores nothing.
BroadcastStop ==
    /\ retiring = "emptied" /\ retiring' = "done"
    /\ sleeper' = IF sleeper = "waiting" THEN "woken" ELSE sleeper
    /\ UNCHANGED <<coverLife, profile, queueVars, wake, collectorVars, visitVars>>

Retire == SwapStopped \/ ClearQueue \/ EmptySnapshot \/ BroadcastStop

-----------------------------------------------------------------------------
(* A handshake: lookup or nominate, then enqueue; or lookup and invalidate. *)

VisitTo(v, p) ==
    /\ visit' = [visit EXCEPT ![v] = p]
    /\ about' = IF p = "away" THEN [about EXCEPT ![v] = NoClass] ELSE about

\* lookup, nominate: nothing is done unless the generation is active.
BeginVisit(v) ==
    /\ visit[v] = "away" /\ coverLife = "active"
    /\ visit' = [visit EXCEPT ![v] = "look"]
    /\ \E k \in Class : about' = [about EXCEPT ![v] = k]
    /\ UNCHANGED <<coverLife, profile, queueVars, notifyVars, collectorVars, retiring, known, replaces>>

\* A current profile is used.  An expired one is refreshed by lookup or
\* nominate, a missing one is a miss to lookup and is nominated later.
LookOutcome == [current |-> {"holds"}, expired |-> {"enqueue"}, none |-> {"away", "enqueue"}]
Look(v) ==
    /\ visit[v] = "look"
    /\ \E p \in LookOutcome[profile[about[v]]] : VisitTo(v, p)
    /\ UNCHANGED <<coverLife, profile, queueVars, notifyVars, collectorVars, retiring, known, replaces>>

\* The profile reproduced the flight, or the call was a nomination.
Satisfied(v) ==
    /\ visit[v] = "holds" /\ VisitTo(v, "away")
    /\ UNCHANGED <<coverLife, profile, queueVars, notifyVars, collectorVars, retiring, known, replaces>>

\* invalidate, under the publication lock: whatever is published for the
\* class now is removed.
Invalidate(v) ==
    /\ visit[v] = "holds"
    /\ VisitTo(v, IF about[v] \in Published THEN "uncool" ELSE "away")
    /\ profile' = [profile EXCEPT ![about[v]] = "none"]
    /\ UNCHANGED <<coverLife, queueVars, notifyVars, collectorVars, retiring, known, replaces>>

\* cooldown: the oldest record makes room.
Cooled(k) == Append(IF Len(cooldowns) >= MaxClasses THEN Tail(cooldowns) ELSE cooldowns,
                    [class |-> k, over |-> FALSE])

\* invalidate's cool-down, once the publication lock is released.
CoolInvalidated(v) ==
    /\ visit[v] = "uncool" /\ VisitTo(v, "away")
    /\ cooldowns' = Cooled(about[v])
    /\ UNCHANGED <<coverLife, profile, candidates, probed, notifyVars, collectorVars, retiring, known, replaces>>

\* enqueue reads the snapshot before it takes the queue's lock.
ReadSnapshot(v) ==
    /\ visit[v] = "enqueue"
    /\ IF profile[about[v]] = "current" THEN VisitTo(v, "away") /\ UNCHANGED <<known, replaces>>
       ELSE /\ VisitTo(v, "queue")
            /\ known' = [known EXCEPT ![v] = Cardinality(Published)]
            /\ replaces' = [replaces EXCEPT ![v] = about[v] \in Published]
    /\ UNCHANGED <<coverLife, profile, queueVars, notifyVars, collectorVars, retiring>>

\* collection_capacity_available and the checks before it.
Enqueueable(v) ==
    /\ ~ \E i \in DOMAIN cooldowns : cooldowns[i].class = about[v] /\ ~cooldowns[i].over
    /\ about[v] \notin Queued \cup {probed}
    /\ Len(candidates) < MaxClasses
    /\ replaces[v] \/ known[v] + Len(candidates) < MaxClasses

\* enqueue's locked section.
PushCandidate(v) ==
    /\ visit[v] = "queue"
    /\ cooldowns' = SelectSeq(cooldowns, LAMBDA c : ~c.over)
    /\ IF Enqueueable(v)
       THEN candidates' = Append(candidates, about[v]) /\ VisitTo(v, "notify")
       ELSE VisitTo(v, "away") /\ UNCHANGED candidates
    /\ known' = [known EXCEPT ![v] = 0] /\ replaces' = [replaces EXCEPT ![v] = FALSE]
    /\ UNCHANGED <<coverLife, profile, probed, notifyVars, collectorVars, retiring>>

\* notify_one: the registered waiter, or a stored permit.
NotifyCollector(v) ==
    /\ visit[v] = "notify" /\ VisitTo(v, "away")
    /\ IF sleeper = "waiting" THEN sleeper' = "woken" /\ UNCHANGED wake
       ELSE wake' = TRUE /\ UNCHANGED sleeper
    /\ UNCHANGED <<coverLife, profile, queueVars, collectorVars, retiring, known, replaces>>

\* A call, once begun, has no await before it returns.
InCall(v) ==
    Look(v) \/ Satisfied(v) \/ Invalidate(v) \/ CoolInvalidated(v) \/ ReadSnapshot(v)
        \/ PushCandidate(v) \/ NotifyCollector(v)

-----------------------------------------------------------------------------
(* run_collector.                                                           *)

CollectorTo(p) == collector' = p
StillActive(here, there) ==
    /\ collector = here
    /\ CollectorTo(IF coverLife = "active" THEN there ELSE "done")
    /\ UNCHANGED <<coverLife, profile, queueVars, notifyVars, subject, retiring, visitVars>>

CheckActive == StillActive("check", "pop")

PopCandidate ==
    /\ collector = "pop"
    /\ IF candidates = <<>> THEN CollectorTo("idle") /\ UNCHANGED <<candidates, probed, subject>>
       ELSE /\ candidates' = Tail(candidates)
            /\ probed' = Head(candidates) /\ subject' = Head(candidates)
            /\ CollectorTo("probe")
    /\ UNCHANGED <<coverLife, profile, cooldowns, notifyVars, retiring, visitVars>>

\* notified().enable(): a stored permit is taken at once.
EnableSleeper ==
    /\ collector = "idle" /\ CollectorTo("recheck")
    /\ sleeper' = (IF wake THEN "woken" ELSE "waiting") /\ wake' = FALSE
    /\ UNCHANGED <<coverLife, profile, queueVars, subject, retiring, visitVars>>

\* Bug: the wait begins without the second look.
RecheckSkippedCover ==
    /\ collector = "recheck" /\ CollectorTo("sleep")
    /\ UNCHANGED <<coverLife, profile, queueVars, notifyVars, subject, retiring, visitVars>>
\* The lifecycle again, after the registration.
RecheckActive == StillActive("recheck", "sleep")

WakeUp ==
    /\ collector = "sleep" /\ sleeper = "woken"
    /\ sleeper' = "none" /\ CollectorTo("check")
    /\ UNCHANGED <<coverLife, profile, queueVars, wake, subject, retiring, visitVars>>

\* collect_consensus: four equal observations, or a failure; every wait in it
\* has a timeout.
Collect ==
    /\ collector = "probe" /\ \E p \in {"publish", "cool"} : CollectorTo(p)
    /\ UNCHANGED <<coverLife, profile, queueVars, notifyVars, subject, retiring, visitVars>>

\* publish looks at the lifecycle, then takes the publication lock.
CheckPublish ==
    /\ collector = "publish"
    /\ CollectorTo(IF coverLife = "active" THEN "store" ELSE "settle")
    /\ UNCHANGED <<coverLife, profile, queueVars, notifyVars, subject, retiring, visitVars>>

StoreProfile ==
    /\ collector = "store" /\ CollectorTo("settle")
    /\ profile' = IF Cardinality(Published \ {subject}) >= MaxClasses THEN profile
                  ELSE [profile EXCEPT ![subject] = "current"]
    /\ UNCHANGED <<coverLife, queueVars, notifyVars, subject, retiring, visitVars>>

CoolFailed ==
    /\ collector = "cool" /\ CollectorTo("settle")
    /\ cooldowns' = Cooled(subject)
    /\ UNCHANGED <<coverLife, profile, candidates, probed, notifyVars, subject, retiring, visitVars>>

SettleProbe ==
    /\ collector = "settle" /\ CollectorTo("check")
    /\ probed' = NoClass /\ subject' = NoClass
    /\ UNCHANGED <<coverLife, profile, candidates, cooldowns, notifyVars, retiring, visitVars>>

CollectorStep ==
    \/ SpawnCollector \/ CheckActive \/ PopCandidate \/ EnableSleeper \/ RecheckActive
    \/ WakeUp \/ Collect \/ CheckPublish \/ StoreProfile \/ CoolFailed \/ SettleProbe

-----------------------------------------------------------------------------

\* Time: a profile expires, a cool-down ends.
ProfileExpires ==
    /\ \E k \in Class : profile[k] = "current" /\ profile' = [profile EXCEPT ![k] = "expired"]
    /\ UNCHANGED <<coverLife, queueVars, notifyVars, collectorVars, retiring, visitVars>>

CoverCooldownEnds ==
    /\ \E i \in DOMAIN cooldowns :
          ~cooldowns[i].over /\ cooldowns' = [cooldowns EXCEPT ![i].over = TRUE]
    /\ UNCHANGED <<coverLife, profile, candidates, probed, notifyVars, collectorVars, retiring, visitVars>>

CoverNext ==
    \/ ActivateCover \/ Retire \/ CollectorStep \/ ProfileExpires \/ CoverCooldownEnds
    \/ \E v \in Visitor : BeginVisit(v) \/ InCall(v)

CoverSpec == CoverInit /\ [][CoverNext]_coverVars

(* The collector never sleeps over what it is for (run_collector against    *)
(* enqueue and deactivate): while it is asleep and not woken, a candidate   *)
(* in the queue has a handshake that is about to notify, and a retired      *)
(* generation has a deactivate that is about to broadcast.  A lost wake-up  *)
(* would keep the generation, or leave a nominated class, for ever.         *)
CollectorIsNotStranded ==
    collector = "sleep" /\ sleeper = "waiting" =>
        /\ candidates # <<>> => \E v \in Visitor : visit[v] = "notify"
        /\ coverLife = "stopped" => retiring # "done"
=============================================================================
