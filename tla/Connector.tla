------------------------------ MODULE Connector ------------------------------
(***************************************************************************)
(* One destination connect (server/connector.rs): the planned addresses are *)
(* tried one after the other when they are of one family, or raced two at  *)
(* a time with a staggered start when the plan mixes families.  Every       *)
(* attempt carries a permit of the descriptor budget, which other sessions *)
(* share; the permit of a failed attempt is reused for the next one.       *)
(*                                                                         *)
(* A raced attempt is a task of its own: it may finish at any time, also   *)
(* while the race is being aborted.  Which family an address has and what  *)
(* the planner learns from the outcome are left out.                       *)
(***************************************************************************)
EXTENDS Integers, FiniteSets

CONSTANTS MaxAddresses, Budget   \* bound of a plan; units of the descriptor budget

ASSUME ConnectorAssumption == MaxAddresses \in Nat /\ Budget \in Nat

VARIABLES
    addresses,    \* the length of the plan
    mixed,        \* the plan has both families
    at,           \* launch, select, drain or returned
    outcome,      \* what the connect returns: none, connected, io, budget, timeout
    next,         \* addresses tried so far
    attempt,      \* address: none, running, connected, failed (to be joined), gone
    recycled,     \* permits of failed attempts
    launchDue,    \* Instant::now() >= launch_at
    fdBlocked, lastError,
    expired,      \* the deadline has passed
    won,          \* the winner's socket and permit are held
    spare         \* units of the budget nobody holds

connectorVars == <<addresses, mixed, at, outcome, next, attempt, recycled, launchDue,
                   fdBlocked, lastError, expired, won, spare>>

Address == 1 .. MaxAddresses
Unjoined == {"running", "connected", "failed"}
Tasks == {i \in Address : attempt[i] \in Unjoined}
\* Units held for the connect: by its tasks, kept for reuse, and by the result.
Held == Cardinality(Tasks) + recycled + (IF won THEN 1 ELSE 0)

ConnectorTypeOK ==
    /\ addresses \in Address /\ mixed \in BOOLEAN
    /\ at \in {"launch", "select", "drain", "returned"}
    /\ outcome \in {"none", "connected", "io", "budget", "timeout"}
    /\ next \in 0 .. addresses
    /\ attempt \in [Address -> Unjoined \cup {"none", "gone"}]
    /\ recycled \in 0 .. 2 /\ spare \in 0 .. Budget
    /\ launchDue \in BOOLEAN /\ fdBlocked \in BOOLEAN /\ lastError \in BOOLEAN
    /\ expired \in BOOLEAN /\ won \in BOOLEAN

ConnectorInit ==
    /\ addresses \in Address
    /\ mixed \in {m \in BOOLEAN : m => addresses > 1}
    /\ at = "launch" /\ outcome = "none" /\ next = 0
    /\ attempt = [i \in Address |-> "none"]
    /\ recycled = 0 /\ launchDue = TRUE /\ fdBlocked = FALSE /\ lastError = FALSE
    /\ expired = FALSE /\ won = FALSE
    /\ spare \in 0 .. Budget

\* At most two raced attempts, one in a sequential plan.
MayLaunch == /\ next < addresses /\ ~fdBlocked
             /\ IF mixed THEN Cardinality(Tasks) < 2 /\ launchDue ELSE Tasks = {}

\* attempt_permit: a recycled permit first.  The next attempt starts, and the
\* one after it is due after the fallback delay.
LaunchAttempt ==
    /\ at = "launch" /\ MayLaunch /\ recycled + spare > 0
    /\ IF recycled > 0 THEN recycled' = recycled - 1 /\ UNCHANGED spare
       ELSE spare' = spare - 1 /\ UNCHANGED recycled
    /\ next' = next + 1
    /\ attempt' = [attempt EXCEPT ![next + 1] = "running"]
    /\ launchDue' = FALSE
    /\ UNCHANGED <<addresses, mixed, at, outcome, fdBlocked, lastError, expired, won>>

\* Locals are dropped on return: what was kept for reuse goes back.
Return(result) ==
    /\ at' = "returned" /\ outcome' = result
    /\ recycled' = 0 /\ spare' = spare + recycled

NoUnit ==
    /\ at = "launch" /\ MayLaunch /\ recycled + spare = 0
    /\ IF Tasks = {} THEN Return("budget") /\ UNCHANGED fdBlocked
       ELSE fdBlocked' = TRUE /\ UNCHANGED <<at, outcome, recycled, spare>>
    /\ UNCHANGED <<addresses, mixed, next, attempt, launchDue, lastError, expired, won>>

\* The loop goes to its select, or ends with the last error.
LaunchDone ==
    /\ at = "launch" /\ ~MayLaunch
    /\ IF Tasks = {} THEN Return("io")
       ELSE at' = "select" /\ UNCHANGED <<outcome, recycled, spare>>
    /\ UNCHANGED <<addresses, mixed, next, attempt, launchDue, fdBlocked, lastError,
                   expired, won>>

\* Bug: a failure does not bring the next launch forward.
LaunchAfterFailureLater == launchDue
LaunchAfterFailure == TRUE

\* tasks.join_next, or the awaited attempt of a sequential plan.
JoinFailed(i) ==
    /\ at = "select" /\ attempt[i] = "failed"
    /\ attempt' = [attempt EXCEPT ![i] = "gone"]
    /\ recycled' = recycled + 1
    /\ lastError' = TRUE /\ fdBlocked' = FALSE /\ launchDue' = LaunchAfterFailure
    /\ at' = "launch"
    /\ UNCHANGED <<addresses, mixed, outcome, next, expired, won, spare>>

JoinConnected(i) ==
    /\ at = "select" /\ attempt[i] = "connected"
    /\ attempt' = [attempt EXCEPT ![i] = "gone"]
    /\ won' = TRUE /\ outcome' = "connected" /\ at' = "drain"
    /\ UNCHANGED <<addresses, mixed, next, recycled, launchDue, fdBlocked, lastError,
                   expired, spare>>

\* The absolute deadline.  timeout_at prefers a sequential attempt that is ready;
\* the select of a race takes either branch.
DeadlineBranch ==
    /\ at = "select" /\ expired
    /\ mixed \/ \A i \in Tasks : attempt[i] = "running"
    /\ at' = "drain" /\ outcome' = "timeout"
    /\ UNCHANGED <<addresses, mixed, next, attempt, recycled, launchDue, fdBlocked,
                   lastError, expired, won, spare>>

LaunchBranch ==
    /\ at = "select" /\ MayLaunch
    /\ at' = "launch"
    /\ UNCHANGED <<addresses, mixed, outcome, next, attempt, recycled, launchDue, fdBlocked,
                   lastError, expired, won, spare>>

\* abort_and_drain: every task is joined, whatever it had reached by then.
Drain(i) ==
    /\ at = "drain" /\ i \in Tasks
    /\ attempt' = [attempt EXCEPT ![i] = "gone"]
    /\ spare' = spare + 1
    /\ UNCHANGED <<addresses, mixed, at, outcome, next, recycled, launchDue, fdBlocked,
                   lastError, expired, won>>

\* Bug: the losers are aborted but not awaited.
DrainedAnyway == TRUE
Drained == Tasks = {}

DrainEnds ==
    /\ at = "drain" /\ Drained
    /\ Return(outcome)
    /\ UNCHANGED <<addresses, mixed, next, attempt, launchDue, fdBlocked, lastError,
                   expired, won>>

AttemptEnds(i) ==
    /\ attempt[i] = "running"
    /\ \E result \in {"connected", "failed"} : attempt' = [attempt EXCEPT ![i] = result]
    /\ UNCHANGED <<addresses, mixed, at, outcome, next, recycled, launchDue, fdBlocked,
                   lastError, expired, won, spare>>

\* The fallback delay and the deadline.
DelayPasses ==
    /\ at # "returned" /\ ~launchDue
    /\ launchDue' = TRUE
    /\ UNCHANGED <<addresses, mixed, at, outcome, next, attempt, recycled, fdBlocked,
                   lastError, expired, won, spare>>

DeadlinePasses ==
    /\ at # "returned" /\ ~expired
    /\ expired' = TRUE
    /\ UNCHANGED <<addresses, mixed, at, outcome, next, attempt, recycled, launchDue,
                   fdBlocked, lastError, won, spare>>

\* Other sessions take and return units.
Others ==
    /\ spare' \in {spare - 1, spare + 1} \cap 0 .. Budget - Held
    /\ at # "returned"
    /\ UNCHANGED <<addresses, mixed, at, outcome, next, attempt, recycled, launchDue,
                   fdBlocked, lastError, expired, won>>

Driver == \/ LaunchAttempt \/ NoUnit \/ LaunchDone \/ DeadlineBranch \/ LaunchBranch
          \/ DrainEnds
          \/ \E i \in Address : JoinFailed(i) \/ JoinConnected(i) \/ Drain(i)

ConnectorNext == \/ Driver \/ DelayPasses \/ DeadlinePasses \/ Others
                 \/ \E i \in Address : AttemptEnds(i)

ConnectorSpec == ConnectorInit /\ [][ConnectorNext]_connectorVars

(* When the connect returns, nothing of it is left behind but the winner:   *)
(* no attempt is still running, and the units it holds are exactly the one  *)
(* of the returned socket, or none (abort_and_drain before every return).   *)
OnlyTheWinnerRemains ==
    at = "returned" => Tasks = {} /\ Held = (IF outcome = "connected" THEN 1 ELSE 0)

(* A connect reports an I/O error only when it has tried every planned      *)
(* address, and no attempt is outstanding (race_happy_eyeballs,             *)
(* connect_single_family).                                                  *)
PlanIsExhausted == (at = "returned" /\ outcome = "io") => next = addresses /\ lastError
=============================================================================
