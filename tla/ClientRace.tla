----------------------------- MODULE ClientRace -----------------------------
(***************************************************************************)
(* Establishing client sessions over a group of LINEs: the driver           *)
(* (runtime/client.rs) polls a primary and a hedged alternate handshake and *)
(* asks the decision engine (rr-session client_race.rs) for every           *)
(* transition; the group (client/selection.rs) picks the two LINEs and     *)
(* keeps their health in atomics all sessions share.                       *)
(*                                                                         *)
(* A handshake may be ready with a transport or an error at any time.  The *)
(* biased select serves the deadline first, then the primary.              *)
(***************************************************************************)
EXTENDS Integers

CONSTANTS ClientSession, Lines, TripAfter   \* lines.len(), TRIP_AFTER

VARIABLES
    sticky, faults,  \* the group's atomics
    step,            \* session: start, race, blame, praise, over
    pick,            \* session: [primary, alternate] LINE indexes
    polled,          \* session: per candidate pending, ok or error, once polled
    engine,          \* session: ClientRace.states
    terminal,        \* session: ClientRace.terminal
    started,         \* alternate_started
    adopted,         \* session: candidates whose transport the driver took
    blame            \* session: LINEs still to be charged with a fault

raceVars == <<sticky, faults, step, pick, polled, engine, terminal, started, adopted, blame>>
raceLocal == <<pick, polled, engine, terminal, started, adopted>>

LineIndex == 0 .. Lines - 1
Candidate == {"Primary", "Alternate"}

RaceTypeOK ==
    /\ sticky \in LineIndex /\ faults \in [LineIndex -> 0 .. TripAfter]
    /\ step \in [ClientSession -> {"start", "race", "blame", "praise", "over"}]
    /\ pick \in [ClientSession -> [Candidate -> LineIndex]]
    /\ polled \in [ClientSession -> [Candidate -> {"pending", "ok", "error", "seen"}]]
    /\ engine \in [ClientSession -> [Candidate -> {"Unstarted", "Pending", "Failed", "Retired"}]]
    /\ terminal \in [ClientSession -> BOOLEAN] /\ started \in [ClientSession -> BOOLEAN]
    /\ adopted \in [ClientSession -> SUBSET Candidate]
    /\ blame \in [ClientSession -> SUBSET LineIndex]

RaceInit ==
    /\ sticky = 0 /\ faults = [l \in LineIndex |-> 0]
    /\ step = [s \in ClientSession |-> "start"]
    /\ pick = [s \in ClientSession |-> [c \in Candidate |-> 0]]
    /\ polled = [s \in ClientSession |-> [c \in Candidate |-> "pending"]]
    /\ engine = [s \in ClientSession |->
                    [c \in Candidate |-> IF c = "Primary" THEN "Pending" ELSE "Unstarted"]]
    /\ terminal = [s \in ClientSession |-> FALSE]
    /\ started = [s \in ClientSession |-> FALSE]
    /\ adopted = [s \in ClientSession |-> {}]
    /\ blame = [s \in ClientSession |-> {}]

HasAlternate == Lines > 1

\* The first LINE from this one on, in ring order, that has not tripped.
Healthy(from, offsets, otherwise) ==
    LET up == {o \in offsets : faults[(from + o) % Lines] < TripAfter}
    IN  IF up = {} THEN otherwise
        ELSE (from + (CHOOSE o \in up : \A p \in up : o <= p)) % Lines

PickPrimary == Healthy(sticky, LineIndex, sticky)
PickAlternate(primary) == Healthy(primary, 1 .. Lines - 1, (primary + 1) % Lines)

Start(s) ==
    /\ step[s] = "start"
    /\ step' = [step EXCEPT ![s] = "race"]
    /\ pick' = [pick EXCEPT ![s] = [c \in Candidate |->
                   IF c = "Primary" THEN PickPrimary ELSE PickAlternate(PickPrimary)]]
    /\ UNCHANGED <<sticky, faults, polled, engine, terminal, started, adopted, blame>>

\* A polled handshake completes.
Completes(s, c) ==
    /\ step[s] = "race" /\ polled[s][c] = "pending" /\ (c = "Alternate" => started[s])
    /\ \E result \in {"ok", "error"} : polled' = [polled EXCEPT ![s][c] = result]
    /\ UNCHANGED <<sticky, faults, step, pick, engine, terminal, started, adopted, blame>>

\* ClientRace::start_alternate
MayStartAlternate(s) == ~terminal[s] /\ engine[s]["Alternate"] = "Unstarted"
\* ClientRace::adopt and fail accept only a pending candidate of a live race.
Accepts(s, c) == ~terminal[s] /\ engine[s][c] = "Pending"
Retired == [c \in Candidate |-> "Retired"]

\* Bug: a failed candidate is polled again.
UnfinishedForever(s, c) == polled[s][c] \in {"ok", "error", "seen"}
\* The select branch of a candidate whose error has not been recorded.
Unfinished(s, c) == polled[s][c] \in {"ok", "error"}

\* The alternate is served only when the primary's branch is not ready.
Served(s, c) == /\ step[s] = "race" /\ Unfinished(s, c)
                /\ c = "Alternate" => started[s] /\ ~Unfinished(s, "Primary")

Adopt(s, c) ==
    /\ Served(s, c) /\ polled[s][c] # "error"
    /\ adopted' = [adopted EXCEPT ![s] = @ \cup {c}]
    /\ engine' = [engine EXCEPT ![s] = Retired]
    /\ terminal' = [terminal EXCEPT ![s] = TRUE]
    /\ blame' = [blame EXCEPT ![s] = IF c = "Alternate" THEN {pick[s]["Primary"]} ELSE {}]
    /\ step' = [step EXCEPT ![s] = "blame"]
    /\ UNCHANGED <<sticky, faults, pick, polled, started>>

\* A recorded error; when no candidate is left, the attempt fails as a whole.
Fail(s, c) ==
    LET now == [engine[s] EXCEPT ![c] = "Failed"]
        starts == c = "Primary" /\ HasAlternate /\ ~started[s] /\ MayStartAlternate(s)
        next == [now EXCEPT !["Alternate"] = IF starts THEN "Pending" ELSE @]
        other == IF c = "Primary" THEN "Alternate" ELSE "Primary"
        over == ~HasAlternate \/ polled[s][other] = "seen"
    IN  /\ Served(s, c) /\ polled[s][c] = "error"
        /\ polled' = [polled EXCEPT ![s][c] = "seen"]
        /\ started' = [started EXCEPT ![s] = @ \/ starts]
        /\ engine' = [engine EXCEPT ![s] = IF over THEN Retired ELSE next]
        /\ terminal' = [terminal EXCEPT ![s] = over]
        /\ blame' = [blame EXCEPT ![s] = IF over THEN {pick[s][d] : d \in
                        IF HasAlternate THEN Candidate ELSE {"Primary"}} ELSE {}]
        /\ step' = [step EXCEPT ![s] = IF over THEN "blame" ELSE @]
        /\ UNCHANGED <<sticky, faults, pick, adopted>>

Hedge(s) ==
    /\ step[s] = "race" /\ HasAlternate /\ ~started[s]
    /\ started' = [started EXCEPT ![s] = MayStartAlternate(s)]
    /\ engine' = [engine EXCEPT ![s]["Alternate"] = IF MayStartAlternate(s) THEN "Pending" ELSE @]
    /\ UNCHANGED <<sticky, faults, step, pick, polled, terminal, adopted, blame>>

Deadline(s) ==
    /\ step[s] = "race"
    /\ engine' = [engine EXCEPT ![s] = Retired]
    /\ terminal' = [terminal EXCEPT ![s] = TRUE]
    /\ blame' = [blame EXCEPT ![s] = {pick[s][d] : d \in
                    IF HasAlternate THEN Candidate ELSE {"Primary"}}]
    /\ step' = [step EXCEPT ![s] = "blame"]
    /\ UNCHANGED <<sticky, faults, pick, polled, started, adopted>>

\* note_fault, one LINE at a time, then note_success of the winner: two stores.
NoteFault(s, l) ==
    /\ step[s] = "blame" /\ l \in blame[s]
    /\ faults' = [faults EXCEPT ![l] = IF @ < TripAfter THEN @ + 1 ELSE @]
    /\ blame' = [blame EXCEPT ![s] = @ \ {l}]
    /\ UNCHANGED <<sticky, step, raceLocal>>

ClearFaults(s) ==
    /\ step[s] = "blame" /\ blame[s] = {}
    /\ step' = [step EXCEPT ![s] = IF adopted[s] = {} THEN "over" ELSE "praise"]
    /\ faults' = [l \in LineIndex |->
                    IF \E c \in adopted[s] : pick[s][c] = l THEN 0 ELSE faults[l]]
    /\ UNCHANGED <<sticky, raceLocal, blame>>

SetSticky(s) ==
    /\ step[s] = "praise"
    /\ \E c \in adopted[s] : sticky' = pick[s][c]
    /\ step' = [step EXCEPT ![s] = "over"]
    /\ UNCHANGED <<faults, raceLocal, blame>>

RaceNext == \E s \in ClientSession :
    \/ Start(s) \/ Hedge(s) \/ Deadline(s) \/ ClearFaults(s) \/ SetSticky(s)
    \/ \E c \in Candidate : Completes(s, c) \/ Adopt(s, c) \/ Fail(s, c)
    \/ \E l \in LineIndex : NoteFault(s, l)

RaceSpec == RaceInit /\ [][RaceNext]_raceVars

(* Driver and engine agree: whatever the driver is about to report, the     *)
(* engine accepts, so that the expects of select_client_transport cannot    *)
(* fail, a LINE's outcome counts once, and at most one transport of a       *)
(* session is adopted, never of an alternate that was not started.          *)
DriverAgreesWithEngine ==
    \A s \in ClientSession :
        /\ \A c \in Candidate : Served(s, c) => Accepts(s, c)
        /\ started[s] \/ polled[s]["Alternate"] = "pending"
        /\ adopted[s] # {} => \E c \in Candidate : adopted[s] = {c} /\ polled[s][c] = "ok"
=============================================================================
