------------------------------ MODULE Admission ------------------------------
(***************************************************************************)
(* Fail-fast admission: the bounded pools of ResourceGovernor and          *)
(* DirectBarrier (runtime/admission.rs) over CeilingSemaphore              *)
(* (runtime/ceiling.rs), gated by the pressure gauge (runtime/pressure.rs).*)
(*                                                                         *)
(* A pool is three shared words: the permits of a tokio semaphore sized to *)
(* the hard bound, a count of permits in flight and a soft ceiling that    *)
(* the adaptive controller moves.  A task takes or drops one permit at a   *)
(* time, one atomic access per action.                                     *)
(***************************************************************************)
EXTENDS Integers, FiniteSets

CONSTANTS Applicant,  \* tasks asking for admission
          Pool,       \* the pools in use: AdmissionKinds and/or "Direct"
          Hard        \* Hard[p]: the configured size of pool p

AdmissionKind == {"Connection", "PreAuthIdle", "Handshake", "Fallback",
                  "CryptoOperation", "ReplayEntry", "DnsLookup"}

ASSUME AdmissionConstants == /\ IsFiniteSet(Applicant)
                             /\ Pool \subseteq AdmissionKind \cup {"Direct"}
                             /\ Hard \in [Pool -> Nat \ {0}]

VARIABLES permits,   \* permits left in each pool's semaphore
          inFlight,  \* each pool's in_flight counter
          ceiling,   \* each pool's soft ceiling
          gauge,     \* the published ResourcePressure
          owned,     \* the permits each task owns
          stage,     \* where each task is inside try_acquire or a drop
          on,        \* the pool that call is about
          cap,       \* the ceiling it read
          loaded,    \* the in_flight value it last observed
          old        \* pairs <<t, p>>: t's permit or call on p predates the last set_ceiling

counters == <<permits, inFlight, ceiling>>
admissionVars == <<permits, inFlight, ceiling, gauge, owned, stage, on, cap, loaded, old>>

NoPool == "none"

ResourcePressure == {"Normal", "Pressure", "Critical"}

Admits(state, p) ==
    /\ state # "Critical"
    /\ state = "Pressure" => p \notin {"PreAuthIdle", "Handshake", "Fallback"}

AdmissionInit ==
    /\ permits = Hard
    /\ inFlight = [p \in Pool |-> 0]
    /\ ceiling = Hard
    /\ gauge = "Normal"
    /\ owned = [t \in Applicant |-> {}]
    /\ stage = [t \in Applicant |-> "idle"]
    /\ on = [t \in Applicant |-> NoPool]
    /\ cap = [t \in Applicant |-> 0]
    /\ loaded = [t \in Applicant |-> 0]
    /\ old = {}

MoveTo(t, label) == stage' = [stage EXCEPT ![t] = label]

\* The call is over; its locals go out of scope.
CallOver(t) ==
    /\ MoveTo(t, "idle")
    /\ on' = [on EXCEPT ![t] = NoPool]
    /\ cap' = [cap EXCEPT ![t] = 0]
    /\ loaded' = [loaded EXCEPT ![t] = 0]

\* ResourceGovernor::try_acquire and DirectBarrier::try_acquire read the gauge
\* first; a refused call returns and changes nothing.
PressureGate(t, p) ==
    /\ stage[t] = "idle" /\ p \notin owned[t]
    /\ Admits(gauge, p)
    /\ on' = [on EXCEPT ![t] = p]
    /\ MoveTo(t, "gated")
    /\ UNCHANGED <<counters, gauge, owned, cap, loaded, old>>

\* The ceiling is read once per call.
ReadCeiling(t) ==
    /\ stage[t] = "gated"
    /\ cap' = [cap EXCEPT ![t] = ceiling[on[t]]]
    /\ old' = old \ {<<t, on[t]>>}
    /\ MoveTo(t, "load")
    /\ UNCHANGED <<counters, gauge, owned, on, loaded>>

ReadInFlight(t) ==
    /\ stage[t] = "load"
    /\ loaded' = [loaded EXCEPT ![t] = inFlight[on[t]]]
    /\ MoveTo(t, "exchange")
    /\ UNCHANGED <<counters, gauge, owned, on, cap, old>>

AtCeiling(t) ==
    /\ stage[t] = "exchange" /\ loaded[t] >= cap[t]
    /\ CallOver(t)
    /\ UNCHANGED <<counters, gauge, owned, old>>

\* A mutant: the counter is incremented without comparing it.
BlindIncrement(t) ==
    /\ stage[t] = "exchange" /\ loaded[t] < cap[t]
    /\ inFlight' = [inFlight EXCEPT ![on[t]] = @ + 1]
    /\ MoveTo(t, "take")
    /\ UNCHANGED <<permits, ceiling, gauge, owned, on, cap, loaded, old>>

\* A weak exchange may also fail spuriously, which only repeats the step.
CountIn(t) ==
    /\ stage[t] = "exchange" /\ loaded[t] < cap[t]
    /\ IF inFlight[on[t]] = loaded[t]
       THEN /\ inFlight' = [inFlight EXCEPT ![on[t]] = @ + 1]
            /\ MoveTo(t, "take")
            /\ UNCHANGED loaded
       ELSE /\ loaded' = [loaded EXCEPT ![t] = inFlight[on[t]]]
            /\ UNCHANGED <<inFlight, stage>>
    /\ UNCHANGED <<permits, ceiling, gauge, owned, on, cap, old>>

TryAcquireOwned(t) ==
    /\ stage[t] = "take" /\ permits[on[t]] > 0
    /\ permits' = [permits EXCEPT ![on[t]] = @ - 1]
    /\ owned' = [owned EXCEPT ![t] = @ \cup {on[t]}]
    /\ IF on[t] = "Direct" THEN MoveTo(t, "rate") /\ UNCHANGED <<on, cap, loaded>> ELSE CallOver(t)
    /\ UNCHANGED <<inFlight, ceiling, gauge, old>>

SemaphoreEmpty(t) ==
    /\ stage[t] = "take" /\ permits[on[t]] = 0
    /\ MoveTo(t, "rollback")
    /\ UNCHANGED <<counters, gauge, owned, on, cap, loaded, old>>

\* A mutant: the failed acquire leaves its count behind.
KeepCount(t) ==
    /\ stage[t] = "rollback"
    /\ CallOver(t)
    /\ UNCHANGED <<counters, gauge, owned, old>>

Rollback(t) ==
    /\ stage[t] = "rollback"
    /\ inFlight' = [inFlight EXCEPT ![on[t]] = @ - 1]
    /\ CallOver(t)
    /\ UNCHANGED <<permits, ceiling, gauge, owned, old>>

\* DirectBarrier::try_acquire: the rate gate admits the dial, or refuses it
\* and the permit is dropped (the gate itself is module DialRateGate).
RateAdmits(t) ==
    /\ stage[t] = "rate"
    /\ CallOver(t)
    /\ UNCHANGED <<counters, gauge, owned, old>>

RateRefuses(t) ==
    /\ stage[t] = "rate"
    /\ MoveTo(t, "drop")
    /\ UNCHANGED <<counters, gauge, owned, on, cap, loaded, old>>

StartDrop(t, p) ==
    /\ stage[t] = "idle" /\ p \in owned[t]
    /\ on' = [on EXCEPT ![t] = p]
    /\ MoveTo(t, "drop")
    /\ UNCHANGED <<counters, gauge, owned, cap, loaded, old>>

\* CeilingPermit::drop runs before its fields are dropped: the count falls
\* first, the semaphore permit comes back in a second step.
Uncount(t) ==
    /\ stage[t] = "drop"
    /\ inFlight' = [inFlight EXCEPT ![on[t]] = @ - 1]
    /\ MoveTo(t, "giveback")
    /\ UNCHANGED <<permits, ceiling, gauge, owned, on, cap, loaded, old>>

GiveBack(t) ==
    /\ stage[t] = "giveback"
    /\ permits' = [permits EXCEPT ![on[t]] = @ + 1]
    /\ owned' = [owned EXCEPT ![t] = @ \ {on[t]}]
    /\ old' = old \ {<<t, on[t]>>}
    /\ CallOver(t)
    /\ UNCHANGED <<inFlight, ceiling, gauge>>

\* The call or permit that task t has on pool p, if any.
Engaged(t, p) == p \in owned[t] \/ (stage[t] # "idle" /\ on[t] = p)

\* A request above the hard bound is clamped to it.
SetCeiling(p, c) ==
    /\ ceiling' = [ceiling EXCEPT ![p] = IF c < Hard[p] THEN c ELSE Hard[p]]
    /\ old' = old \cup {<<t, p>> : t \in {u \in Applicant : Engaged(u, p)}}
    /\ UNCHANGED <<permits, inFlight, gauge, owned, stage, on, cap, loaded>>

SetGauge(state) ==
    /\ gauge' = state
    /\ UNCHANGED <<counters, owned, stage, on, cap, loaded, old>>

ApplicantStep(t) ==
    \/ \E p \in Pool : PressureGate(t, p) \/ StartDrop(t, p)
    \/ ReadCeiling(t) \/ ReadInFlight(t) \/ AtCeiling(t) \/ CountIn(t)
    \/ TryAcquireOwned(t) \/ SemaphoreEmpty(t) \/ Rollback(t)
    \/ RateAdmits(t) \/ RateRefuses(t) \/ Uncount(t) \/ GiveBack(t)

AdmissionNext ==
    \/ \E t \in Applicant : ApplicantStep(t)
    \/ \E p \in Pool : \E c \in 0..(Hard[p] + 1) : SetCeiling(p, c)
    \/ \E state \in ResourcePressure : SetGauge(state)

AdmissionSpec == AdmissionInit /\ [][AdmissionNext]_admissionVars

-----------------------------------------------------------------------------
(* Properties *)

\* Tasks whose permit on p is counted in in_flight, or about to be rolled back.
Counted(p) == {t \in Applicant : \/ p \in owned[t] /\ ~(stage[t] = "giveback" /\ on[t] = p)
                                 \/ on[t] = p /\ stage[t] \in {"take", "rollback"}}

Holders(p) == {t \in Applicant : p \in owned[t]}

\* Every variable keeps its type: no counter of CeilingSemaphore underflows
\* or passes the hard bound it was built with.
AdmissionTypeOK ==
    /\ permits \in [Pool -> Nat] /\ \A p \in Pool : permits[p] <= Hard[p]
    /\ inFlight \in [Pool -> Nat] /\ \A p \in Pool : inFlight[p] <= Hard[p]
    /\ ceiling \in [Pool -> Nat] /\ \A p \in Pool : ceiling[p] <= Hard[p]
    /\ gauge \in ResourcePressure
    /\ owned \in [Applicant -> SUBSET Pool]
    /\ stage \in [Applicant -> {"idle", "gated", "load", "exchange", "take", "rollback", "rate", "drop", "giveback"}]
    /\ on \in [Applicant -> Pool \cup {NoPool}]

\* At every instant, between any two atomic steps of any acquire, denial,
\* rate refusal or drop: the semaphore and its holders make up the hard
\* bound, and in_flight counts exactly the calls that passed the exchange.
PoolsConserved ==
    /\ AdmissionTypeOK
    /\ \A p \in Pool : /\ permits[p] + Cardinality(Holders(p)) = Hard[p]
                       /\ inFlight[p] = Cardinality(Counted(p))

\* Lowering a ceiling binds every later call: while more permits are in
\* flight than the ceiling allows, one of them belongs to a call that had
\* begun before the ceiling was last set.
ExcessIsOld ==
    \A p \in Pool : inFlight[p] > ceiling[p] =>
        \E t \in Counted(p) : <<t, p>> \in old
=============================================================================
