------------------------------- MODULE PathMtu -------------------------------
(***************************************************************************)
(* Path MTU discovery of one sending direction of the native UDP channel  *)
(* (protocol/handoff/udp/pmtu.rs), driven by the endpoint that sends its  *)
(* probes and its data (server/handoff/udp/endpoint.rs).                   *)
(*                                                                         *)
(* Instants are countdowns that Tick lowers; a deadline is reached at 0.   *)
(* The path and the kernel are the environment: the largest packet the     *)
(* path carries may change, any probe may be lost, and the kernel refuses  *)
(* an oversized send (EMSGSIZE) only where ICMP reaches it.                *)
(***************************************************************************)
EXTENDS Integers

CONSTANTS
    MinPlpmtu, BasePlpmtu, MaxPlpmtu,  \* MIN_PLPMTU, BASE_PLPMTU, MAX_PLPMTU
    Granularity, ProbeTimeout, MaxProbes, ConfirmInterval, RaiseInterval,
    MaxPathChanges                     \* bound: changes of the path

ASSUME SizesAssumption ==
    /\ {MinPlpmtu, BasePlpmtu, MaxPlpmtu, Granularity} \subseteq Nat \ {0}
    /\ MinPlpmtu < BasePlpmtu /\ BasePlpmtu < MaxPlpmtu

ASSUME TimersAssumption ==
    /\ {ProbeTimeout, ConfirmInterval, RaiseInterval, MaxPathChanges} \subseteq Nat
    /\ MaxProbes \in Nat \ {0}

VARIABLES
    prober,      \* PmtuProber; phase Search carries high, Complete carries raise
    path,        \* the largest packet the path carries
    icmp,        \* the kernel learns of a smaller path and refuses larger sends
    connected,   \* the socket can report the kernel's path MTU
    pathChanges

pathVars == <<path, icmp, connected, pathChanges>>
mtuVars == <<prober, pathVars>>

Size == MinPlpmtu .. MaxPlpmtu
NoProbe == [size |-> 0]
Lesser(a, b) == IF a < b THEN a ELSE b
Greater(a, b) == IF a > b THEN a ELSE b

Outstanding == [size : Size, attempts : 1 .. MaxProbes, left : 0 .. ProbeTimeout,
                purpose : {"Search", "Confirm"}, arrived : BOOLEAN]

MtuTypeOK ==
    /\ prober \in [current : Size, ceiling : Size, max : Size,
                   phase : {"Fixed", "Search", "Complete"}, high : Size,
                   raise : 0 .. RaiseInterval, confirm : 0 .. ConfirmInterval,
                   validated : BOOLEAN, out : Outstanding \cup {NoProbe}]
    /\ path \in Size /\ pathChanges \in 0 .. MaxPathChanges
    /\ icmp \in BOOLEAN /\ connected \in BOOLEAN

Prober(size, phase, high, confirm, validated) ==
    [current |-> size, ceiling |-> high, max |-> high, phase |-> phase, high |-> high,
     raise |-> 0, confirm |-> confirm, validated |-> validated, out |-> NoProbe]

Discover(ceiling) ==
    Prober(Lesser(BasePlpmtu, ceiling), "Search", ceiling, ConfirmInterval, FALSE)
FixedAt(size) == Prober(size, "Fixed", size, 0, TRUE)

\* prober_for: a configured size, the connected socket's route bound, or the
\* protocol maximum.
MtuInit ==
    /\ path \in Size
    /\ icmp \in BOOLEAN
    /\ connected \in BOOLEAN
    /\ pathChanges = 0
    /\ prober \in {FixedAt(n) : n \in Size}
                  \cup {Discover(c) : c \in IF connected THEN path .. MaxPlpmtu
                                            ELSE {MaxPlpmtu}}

\* launch: the first transmission of a new probe; Send decides whether it arrives.
Launch(p, size, purpose) ==
    [p EXCEPT !.out = [size |-> size, attempts |-> 1, left |-> ProbeTimeout,
                       purpose |-> purpose, arrived |-> FALSE]]

\* Bug: a failed base is retried instead of falling to the floor.
FallBackToBase(failed) == BasePlpmtu
FallBack(failed) == IF failed > BasePlpmtu THEN BasePlpmtu ELSE MinPlpmtu

ProbeLost(p) ==
    LET lost == p.out
        q == [p EXCEPT !.out = NoProbe]
        next == FallBack(p.current)
    IN  IF lost.purpose = "Confirm"
        THEN [q EXCEPT !.current = next, !.phase = "Search", !.validated = FALSE,
                       !.high = Greater(p.current - 1, next), !.confirm = ConfirmInterval]
        ELSE IF p.phase = "Search"
        THEN [q EXCEPT !.high = Lesser(p.high, lost.size - 1)]
        ELSE q

Halfway(low, high) == low + (high - low + 1) \div 2

SearchOn(p) ==
    CASE ~p.validated -> Launch(p, p.current, "Confirm")
      [] p.validated /\ p.high - p.current < Granularity ->
            [p EXCEPT !.phase = "Complete", !.raise = RaiseInterval,
                      !.confirm = ConfirmInterval]
      [] OTHER -> Launch(p, Halfway(p.current, p.high), "Search")

Confirmed(p) ==
    IF p.confirm > 0 THEN p
    ELSE Launch([p EXCEPT !.confirm = ConfirmInterval], p.current, "Confirm")

Completed(p) ==
    IF p.raise > 0 THEN Confirmed(p)
    ELSE LET q == [p EXCEPT !.ceiling = p.max]
         IN  IF q.ceiling - q.current >= Granularity
             THEN Launch([q EXCEPT !.phase = "Search", !.high = q.ceiling],
                         Halfway(q.current, q.ceiling), "Search")
             ELSE Confirmed([q EXCEPT !.raise = RaiseInterval])

NextPhase(p) == IF p.phase = "Search" THEN SearchOn(p) ELSE Completed(p)

\* poll(now): the prober afterwards; a probe is to be sent when out is fresh.
Polled(p) ==
    IF p.out = NoProbe THEN NextPhase(p)
    ELSE IF p.out.attempts < MaxProbes
    THEN [p EXCEPT !.out.attempts = @ + 1, !.out.left = ProbeTimeout]
    ELSE NextPhase(ProbeLost(p))

OnProbeTooBig(p, size) ==
    LET ceiling == Greater(Lesser(p.ceiling, size - 1), p.current)
    IN  [p EXCEPT !.out = NoProbe, !.ceiling = ceiling,
                  !.high = IF p.phase = "Search" THEN Lesser(@, ceiling) ELSE @]

\* next_deadline has been reached.
Due == IF prober.out # NoProbe THEN prober.out.left = 0
       ELSE \/ prober.phase = "Search"
            \/ prober.phase = "Complete" /\ (prober.raise = 0 \/ prober.confirm = 0)

\* poll_probe: poll, send what it returns, report a refused send.
PollProbe ==
    /\ Due
    /\ \E through \in BOOLEAN :
         LET p == Polled(prober)
         IN  prober' = IF p.out = NoProbe THEN p
                       ELSE IF icmp /\ p.out.size > path THEN OnProbeTooBig(p, p.out.size)
                       ELSE [p EXCEPT !.out.arrived = @ \/ (through /\ p.out.size <= path)]
    /\ UNCHANGED pathVars

\* on_probe_ack: only the outstanding probe's identifier and size count.
ProbeAck ==
    /\ prober.out # NoProbe
    /\ prober.out.arrived
    /\ LET q == [prober EXCEPT !.out = NoProbe]
           size == prober.out.size
       IN  prober' = IF prober.out.purpose = "Confirm"
                     THEN [q EXCEPT !.validated = TRUE, !.confirm = ConfirmInterval]
                     ELSE IF size > q.current /\ size <= q.ceiling
                     THEN [q EXCEPT !.current = size] ELSE q
    /\ UNCHANGED pathVars

\* on_send_too_big: the new bound after a data packet of this size was refused.
LimitAfter(attempted) ==
    Greater(MinPlpmtu, Lesser(attempted - 1,
        IF connected THEN path
        ELSE IF attempted > BasePlpmtu THEN BasePlpmtu ELSE MinPlpmtu))

\* send_datagram: a data packet within the limit; one iteration of its retry.
SendRefused(size) ==
    /\ icmp /\ size > path /\ size <= prober.current
    /\ LET ceiling == Lesser(prober.ceiling, LimitAfter(size))
       IN  prober' = [prober EXCEPT
              !.ceiling = ceiling,
              !.current = Lesser(@, ceiling),
              !.high = IF prober.phase = "Search" THEN Lesser(@, ceiling) ELSE @,
              !.out = IF @ # NoProbe /\ @.size > ceiling THEN NoProbe ELSE @]
    /\ UNCHANGED pathVars

Aged(o) == IF o = NoProbe THEN o ELSE [o EXCEPT !.left = Greater(@ - 1, 0)]

\* A wake-up that is due is served before time moves on; the immediate polls
\* of a search take no time.
MtuTick ==
    /\ ~(Due /\ (prober.out # NoProbe \/ prober.phase = "Complete"))
    /\ prober' = [prober EXCEPT
          !.raise = Greater(@ - 1, 0), !.confirm = Greater(@ - 1, 0),
          !.out = Aged(@)]
    /\ UNCHANGED pathVars

PathChanges ==
    /\ pathChanges < MaxPathChanges
    /\ pathChanges' = pathChanges + 1
    /\ path' \in Size \ {path}
    /\ UNCHANGED <<prober, icmp, connected>>

MtuNext == \/ PollProbe \/ ProbeAck \/ MtuTick \/ PathChanges
           \/ \E size \in Size : SendRefused(size)

\* The carrier's loops serve every deadline, and time passes.
MtuFair == WF_mtuVars(PollProbe) /\ WF_mtuVars(MtuTick)

MtuSpec == MtuInit /\ [][MtuNext]_mtuVars /\ MtuFair

(* Where ICMP is filtered, a discovered limit above what the path carries   *)
(* is given up: confirmation probes are lost, the limit falls back to the   *)
(* base and, if need be, to the floor (probe_lost, poll).                   *)
BlackHoleIsLeft ==
    (~icmp /\ prober.phase # "Fixed" /\ prober.current > path) ~> (prober.current <= path)

(* pmtu.rs:123: a path below the starting size is detected within one probe *)
(* budget, because a search first confirms the size it starts from.         *)
LowPathIsDetected ==
    (~prober.validated /\ prober.current > path) ~> (prober.current <= path)
=============================================================================
