------------------------------ MODULE Adaptive ------------------------------
(***************************************************************************)
(* The two periodic loops that steer admission: the resource monitor       *)
(* (server/production/monitor.rs, runtime/machine.rs), which publishes the *)
(* pressure state, and the adaptive controller (runtime/adaptive.rs),      *)
(* which moves the soft ceiling of each knob between a floor and the       *)
(* startup value.  The loops and the load run at their own pace.           *)
(***************************************************************************)
EXTENDS Integers

CONSTANTS Knob,               \* the knobs under control, all fed by one pool's in_flight
          Startup,            \* Startup[k]: effective startup policy of knob k
          Default,            \* Default[k]: built-in default, the source of its floor
          Quantum,            \* Quantum[k]: 64 for counts, 16 for rates
          LoadLevel,          \* how many permits the load may want at a time
          Gate,               \* the knob that is that pool's own ceiling
          MemoryTotal, Usage  \* the memory total and the usages that occur

DWELL_TICKS == 6
SCALE_UP_TICKS == 3
SCALE_DOWN_TICKS == 6
HIGH_UTILIZATION_PERCENT == 85
LOW_UTILIZATION_PERCENT == 40

ASSUME AdaptiveConstants ==
    /\ Gate \in Knob /\ LoadLevel \subseteq Nat /\ 0 \in LoadLevel
    /\ Startup \in [Knob -> Nat \ {0}] /\ Default \in [Knob -> Nat \ {0}]
    /\ Quantum \in [Knob -> Nat \ {0}]
    /\ MemoryTotal \in Nat \ {0} /\ Usage \subseteq Nat

VARIABLES busy,          \* permits held in the pool
          fd,            \* the descriptor budget's pressure
          memory,        \* the monitor's memory_state
          memoryUsed,    \* memory in use
          published,     \* the published pressure
          value,         \* each knob's ceiling
          above, below,  \* each knob's consecutive ticks past a watermark
          since,         \* ticks since its last change, up to DWELL_TICKS
          enforced,      \* what the pool or rate gate behind the knob enforces
          quiet          \* ticks since the enforced ceiling last moved, up to DWELL_TICKS

monitor == <<fd, memory, memoryUsed, published>>
knobs == <<value, above, below, since, enforced, quiet>>
adaptiveVars == <<busy, monitor, knobs>>

Least(a, b) == IF a < b THEN a ELSE b
Most(a, b) == IF a > b THEN a ELSE b

Floor(k) == Most(Least(Default[k], Startup[k]), 1)
Step(k) == Most(((Startup[k] \div 4) \div Quantum[k]) * Quantum[k], Quantum[k])

AdaptiveInit ==
    /\ busy = 0
    /\ fd = "Normal" /\ memory = "Normal" /\ memoryUsed = 0 /\ published = "Normal"
    /\ value = Startup
    /\ above = [k \in Knob |-> 0]
    /\ below = [k \in Knob |-> 0]
    /\ since = [k \in Knob |-> DWELL_TICKS]
    /\ enforced = Startup
    /\ quiet = [k \in Knob |-> DWELL_TICKS]

\* The load changes: the pool admits up to its ceiling, permits already held
\* are released only by their owners.
Demand ==
    /\ \E n \in LoadLevel : busy' = Least(n, Most(enforced[Gate], busy))
    /\ UNCHANGED <<monitor, knobs>>

FdPressure ==
    /\ fd' = IF fd = "Normal" THEN "Pressure" ELSE "Normal"
    /\ UNCHANGED <<busy, memory, memoryUsed, published, knobs>>

MemoryUse ==
    /\ memoryUsed' \in Usage
    /\ UNCHANGED <<busy, fd, memory, published, knobs>>

-----------------------------------------------------------------------------
(* The resource monitor *)

Usable == (MemoryTotal \div 5) * 4
PressureEnter == (Usable \div 4) * 3
PressureExit == MemoryTotal \div 2
CriticalEnter == (MemoryTotal \div 10) * 9
CriticalExit == Usable

Classify(current, bytes) ==
    CASE current = "Normal" /\ bytes >= PressureEnter -> "Pressure"
      [] current = "Pressure" /\ bytes >= CriticalEnter -> "Critical"
      [] current = "Pressure" /\ bytes <= PressureExit -> "Normal"
      [] current = "Critical" /\ bytes <= CriticalExit -> "Pressure"
      [] OTHER -> current

Worse(a, b) == CHOOSE s \in {a, b} :
                  \/ a = b
                  \/ s = "Critical"
                  \/ s = "Pressure" /\ "Critical" \notin {a, b}

Publish(state) ==
    /\ memory' = state
    /\ published' = Worse(fd, state)
    /\ UNCHANGED <<busy, fd, memoryUsed, knobs>>

Sample == Publish(Classify(memory, memoryUsed))

\* An unreadable sample keeps the memory state.
SampleUnreadable == Publish(memory)

-----------------------------------------------------------------------------
(* The adaptive controller *)

\* A mutant: the clamp does not count as a change.
ClampUnrecorded(k) ==
    [value |-> Floor(k), above |-> 0, below |-> 0, since |-> Least(since[k] + 1, DWELL_TICKS)]

\* clamp_to_floor: a knob already at its floor only clears its counters.
Clamp(k) ==
    [value |-> Floor(k), above |-> 0, below |-> 0,
     since |-> IF value[k] = Floor(k) THEN Least(since[k] + 1, DWELL_TICKS) ELSE 0]

Band(k) ==
    IF busy * 100 >= value[k] * HIGH_UTILIZATION_PERCENT THEN "high"
    ELSE IF busy * 100 <= value[k] * LOW_UTILIZATION_PERCENT THEN "low" ELSE "mid"

Above(k) == IF Band(k) = "high" THEN above[k] + 1 ELSE 0
Below(k) == IF Band(k) = "low" THEN below[k] + 1 ELSE 0

DwellElapsed(k) == since[k] + 1 >= DWELL_TICKS

\* A mutant: a step that would pass the hard bound is not taken.
TargetWholeSteps(k) ==
    IF Above(k) < SCALE_UP_TICKS THEN Most(value[k] - Step(k), Floor(k))
    ELSE IF value[k] + Step(k) <= Startup[k] THEN value[k] + Step(k) ELSE value[k]

Target(k) ==
    IF Above(k) >= SCALE_UP_TICKS THEN Least(value[k] + Step(k), Startup[k])
    ELSE Most(value[k] - Step(k), Floor(k))

\* KnobState::tick: a move needs a ripe counter and the dwell; at a bound the
\* ripe counter is cleared without a move.
TickKnob(k) ==
    LET ripe == Above(k) >= SCALE_UP_TICKS \/ Below(k) >= SCALE_DOWN_TICKS
        moves == ripe /\ DwellElapsed(k)
    IN  [value |-> IF moves THEN Target(k) ELSE value[k],
         above |-> IF moves THEN 0 ELSE Above(k),
         below |-> IF moves THEN 0 ELSE Below(k),
         since |-> IF moves /\ Target(k) # value[k] THEN 0
                   ELSE Least(since[k] + 1, DWELL_TICKS)]

\* AdaptiveController::tick: every knob decides, then every change is applied.
ControllerTick ==
    LET next == [k \in Knob |-> IF published = "Critical" THEN Clamp(k) ELSE TickKnob(k)]
    IN  /\ value' = [k \in Knob |-> next[k].value]
        /\ above' = [k \in Knob |-> next[k].above]
        /\ below' = [k \in Knob |-> next[k].below]
        /\ since' = [k \in Knob |-> next[k].since]
        /\ enforced' = [k \in Knob |-> IF next[k].value # value[k] THEN next[k].value ELSE enforced[k]]
        /\ quiet' = [k \in Knob |-> IF next[k].value # value[k] THEN 0 ELSE Least(quiet[k] + 1, DWELL_TICKS)]
        /\ UNCHANGED <<busy, monitor>>

AdaptiveNext ==
    \/ Demand \/ FdPressure \/ MemoryUse
    \/ Sample \/ SampleUnreadable
    \/ ControllerTick

\* Both loops sleep on a timer and always run again; samples are readable
\* again and again.
AdaptiveSpec ==
    /\ AdaptiveInit /\ [][AdaptiveNext]_adaptiveVars
    /\ WF_adaptiveVars(ControllerTick)
    /\ WF_adaptiveVars(Sample)

-----------------------------------------------------------------------------
(* Properties *)

\* Every variable keeps its type; each knob stays between its floor and its
\* startup value, and the pool or rate gate enforces exactly that value.
AdaptiveTypeOK ==
    /\ busy \in Nat
    /\ fd \in {"Normal", "Pressure"}
    /\ memory \in {"Normal", "Pressure", "Critical"} /\ published \in {"Normal", "Pressure", "Critical"}
    /\ \A k \in Knob : value[k] \in Floor(k)..Startup[k] /\ enforced[k] = value[k]
    /\ above \in [Knob -> Nat] /\ below \in [Knob -> Nat]
    /\ since \in [Knob -> 0..DWELL_TICKS]

\* Dwell: outside critical pressure DWELL_TICKS ticks separate two moves of a
\* ceiling, also when the first of them was a critical clamp.
DwellKept ==
    [][\A k \in Knob : enforced'[k] # enforced[k] /\ published # "Critical" =>
          quiet[k] + 1 >= DWELL_TICKS]_adaptiveVars

PoolFull == busy >= (value[Gate] * HIGH_UTILIZATION_PERCENT + 99) \div 100

\* Recovery: when the pool stays full and pressure stays below critical, the
\* ceiling is walked all the way back to the startup value and stays there.
DemandReachesHard ==
    <>[](PoolFull /\ published # "Critical") => <>[](enforced[Gate] = Startup[Gate])

\* What the module comment of runtime/adaptive.rs says of the dial rate: it follows the utilization
\* of the concurrency pool, so outside critical pressure it is not lowered
\* while that pool is at its high watermark.
RateFollowsDialDemand ==
    [][enforced'["DirectPerSecond"] < enforced["DirectPerSecond"] /\ published # "Critical" =>
          busy * 100 < enforced[Gate] * HIGH_UTILIZATION_PERCENT]_adaptiveVars
=============================================================================
