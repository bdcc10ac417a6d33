---------------------------- MODULE DialRateGate ----------------------------
(***************************************************************************)
(* The direct-dial rate gate of runtime/admission.rs: a GCRA whose state   *)
(* is one atomic word, taken by concurrent dials while the adaptive        *)
(* controller retargets the rate.  Time is counted in small units, Second  *)
(* of them to the second, and the u64 time domain ends at MaxNanos.        *)
(***************************************************************************)
EXTENDS Integers, Sequences, FiniteSets, FiniteSetsExt

CONSTANTS Dial,       \* dials
          Rate,       \* the rates set_rate may be given
          Second,     \* NANOS_PER_SECOND
          MaxNanos,   \* u64::MAX
          MaxChanges  \* bound on the calls of set_rate

ASSUME GateConstants == /\ Rate \subseteq Nat /\ Rate # {}
                        /\ Second \in Nat \ {0}
                        /\ MaxNanos \in Nat /\ MaxChanges \in Nat

VARIABLES now,                    \* nanoseconds since the gate's origin
          interval, burst, next,  \* the gate's atomic words
          changes,                \* calls of set_rate so far
          target,                 \* the rate a running set_rate is storing, or Idle
          place, at, step, latest, nextSeen,   \* each dial's place and locals
          stale,                  \* dials that read the interval before its last store
          grants                  \* when dials were admitted under the stored interval

gate == <<interval, burst, next, target, changes>>
locals == <<place, at, step, latest, nextSeen>>
gateVars == <<now, gate, locals, stale, grants>>

Idle == -1

DivCeil(a, b) == (a + b - 1) \div b

Saturating(n) == IF n > MaxNanos THEN MaxNanos ELSE n

\* rate_timing
IntervalOf(rate) == IF rate = 0 THEN 0 ELSE DivCeil(Second, rate)
BurstOf(rate) == Saturating(IntervalOf(rate) * rate)

GateInit ==
    /\ now = 0
    /\ \E r \in Rate : interval = IntervalOf(r) /\ burst = BurstOf(r)
    /\ next = 0
    /\ target = Idle /\ changes = 0
    /\ place = [t \in Dial |-> "idle"]
    /\ at = [t \in Dial |-> 0]
    /\ step = [t \in Dial |-> 0]
    /\ latest = [t \in Dial |-> 0]
    /\ nextSeen = [t \in Dial |-> 0]
    /\ stale = {}
    /\ grants = <<>>

\* The clock stops at the end of the u64 domain.
GateTick ==
    /\ now' = Saturating(now + 1)
    /\ UNCHANGED <<gate, locals, stale, grants>>

-----------------------------------------------------------------------------
(* set_rate: the burst is stored before the interval.  (The third word,    *)
(* rate_per_second, is only reported.)                                     *)

StoreBurst(r) ==
    /\ target = Idle /\ changes < MaxChanges
    /\ changes' = changes + 1
    /\ burst' = BurstOf(r)
    /\ target' = r
    /\ UNCHANGED <<now, interval, next, locals, stale, grants>>

\* The grants counted so far belong to the interval that is replaced here.
StoreInterval ==
    /\ target # Idle
    /\ interval' = IntervalOf(target)
    /\ target' = Idle
    /\ stale' = {t \in Dial : place[t] \in {"burst", "next", "exchange"}}
    /\ grants' = <<>>
    /\ UNCHANGED <<now, burst, next, changes, locals>>

-----------------------------------------------------------------------------
(* try_take *)

GateGoto(t, label) == place' = [place EXCEPT ![t] = label]

GateReturn(t) ==
    /\ GateGoto(t, "idle")
    /\ at' = [at EXCEPT ![t] = 0]
    /\ step' = [step EXCEPT ![t] = 0]
    /\ latest' = [latest EXCEPT ![t] = 0]
    /\ nextSeen' = [nextSeen EXCEPT ![t] = 0]
    /\ stale' = stale \ {t}

SampleClock(t) ==
    /\ place[t] = "idle"
    /\ at' = [at EXCEPT ![t] = now]
    /\ GateGoto(t, "interval")
    /\ UNCHANGED <<now, gate, step, latest, nextSeen, stale, grants>>

LoadInterval(t) ==
    /\ place[t] = "interval" /\ interval # 0
    /\ step' = [step EXCEPT ![t] = interval]
    /\ GateGoto(t, "burst")
    /\ UNCHANGED <<now, gate, at, latest, nextSeen, stale, grants>>

GateClosed(t) ==
    /\ place[t] = "interval" /\ interval = 0
    /\ GateReturn(t)
    /\ UNCHANGED <<now, gate, grants>>

LoadBurst(t) ==
    /\ place[t] = "burst"
    /\ latest' = [latest EXCEPT ![t] = Saturating(at[t] + burst)]
    /\ GateGoto(t, "next")
    /\ UNCHANGED <<now, gate, at, step, nextSeen, stale, grants>>

LoadNext(t) ==
    /\ place[t] = "next"
    /\ nextSeen' = [nextSeen EXCEPT ![t] = next]
    /\ GateGoto(t, "exchange")
    /\ UNCHANGED <<now, gate, at, step, latest, stale, grants>>

\* The slot the dial would take: checked_add, so a slot past the end of the
\* time domain does not exist.
Slot(t) == Max({nextSeen[t], at[t]}) + step[t]

\* A mutant: saturating_add, whose slot never passes the end of the domain.
SaturatingSlot(t) == Saturating(Slot(t)) <= latest[t]

Conforms(t) == Slot(t) <= MaxNanos /\ Slot(t) <= latest[t]

Refuse(t) ==
    /\ place[t] = "exchange" /\ ~Conforms(t)
    /\ GateReturn(t)
    /\ UNCHANGED <<now, gate, grants>>

Exchange(t) ==
    /\ place[t] = "exchange" /\ Conforms(t) /\ next = nextSeen[t]
    /\ next' = Saturating(Slot(t))
    /\ grants' = IF t \in stale THEN grants ELSE Append(grants, at[t])
    /\ GateReturn(t)
    /\ UNCHANGED <<now, interval, burst, target, changes>>

ExchangeFails(t) ==
    /\ place[t] = "exchange" /\ Conforms(t) /\ next # nextSeen[t]
    /\ nextSeen' = [nextSeen EXCEPT ![t] = next]
    /\ UNCHANGED <<now, gate, place, at, step, latest, stale, grants>>

GateNext ==
    \/ GateTick
    \/ \E r \in Rate : StoreBurst(r)
    \/ StoreInterval
    \/ \E t \in Dial : \/ SampleClock(t) \/ LoadInterval(t) \/ GateClosed(t)
                       \/ LoadBurst(t) \/ LoadNext(t)
                       \/ Refuse(t) \/ Exchange(t) \/ ExchangeFails(t)

GateSpec == GateInit /\ [][GateNext]_gateVars

-----------------------------------------------------------------------------
(* Properties *)

\* Every variable keeps its type; the dials' locals hold instants of the
\* clock or zero.
GateTypeOK ==
    /\ now \in 0..MaxNanos
    /\ interval \in {IntervalOf(r) : r \in Rate}
    /\ burst \in {BurstOf(r) : r \in Rate}
    /\ next \in 0..MaxNanos
    /\ target \in Rate \cup {Idle}
    /\ place \in [Dial -> {"idle", "interval", "burst", "next", "exchange"}]
    /\ at \in [Dial -> 0..now]
    /\ latest \in [Dial -> 0..MaxNanos]

\* The gate never exceeds the configured rate: the dials that read the stored
\* interval and were admitted in a window of w units number at most
\* (w + burst) / interval, whatever dials raced them, whatever rate was set
\* before, and also once the time domain is spent.  A zero rate admits none.
RateHeld ==
    \A a, b \in 0..MaxNanos : a <= b =>
        LET admitted == Cardinality({i \in DOMAIN grants : grants[i] \in a..b})
        IN  IF interval = 0 THEN admitted = 0
            ELSE target = Idle => admitted * interval <= b - a + burst
=============================================================================
