------------------------------ MODULE XudpLease ------------------------------
(***************************************************************************)
(* The process-wide GlobalID map of the XUDP associations (server/xudp.rs, *)
(* XudpGlobalMap and XudpGlobalLease).  Associations of many sessions take *)
(* and drop leases on the identifiers their clients name; the map counts   *)
(* the leases, remembers the user who owns an identifier, and keeps an     *)
(* unleased identifier for a grace period.                                 *)
(*                                                                         *)
(* The instant an operation uses is read before it takes the lock, so it   *)
(* may be older than what other associations have done in between.         *)
(***************************************************************************)
EXTENDS Integers, FiniteSets

CONSTANTS Association, User, GlobalId,
          MaxAssociations,   \* XUDP_MAX_ASSOCIATIONS
          Grace,             \* XUDP_ASSOCIATION_IDLE
          MaxClock           \* bound: the last instant

ASSUME LeaseAssumption ==
    /\ IsFiniteSet(Association) /\ IsFiniteSet(GlobalId)
    /\ MaxAssociations \in Nat \ {0} /\ Grace \in Nat \ {0} /\ MaxClock \in Nat

VARIABLES
    globals,    \* inner: per identifier no entry, or [expire, leases, owner]
    assoc,      \* association: closed, opening (now read), held, closing (now read)
    claim,      \* association: the user, the identifier and the instant it uses
    wall,       \* Instant::now()
    idleSince   \* history: the instant read by the holder that released last

leaseVars == <<globals, assoc, claim, wall, idleSince>>

Instants == 0 .. MaxClock
NoEntry == [leases |-> -1]
NoClaim == [now |-> -1]
Entry == [expire : 0 .. MaxClock + Grace, leases : Nat, owner : User]

LeaseTypeOK ==
    /\ globals \in [GlobalId -> Entry \cup {NoEntry}]
    /\ assoc \in [Association -> {"closed", "opening", "held", "closing"}]
    /\ claim \in [Association -> [user : User, id : GlobalId, now : Instants] \cup {NoClaim}]
    /\ wall \in Instants
    /\ idleSince \in [GlobalId -> Instants]

LeaseHolders(id) == {a \in Association : assoc[a] \in {"held", "closing"} /\ claim[a].id = id}

LeaseInit ==
    /\ globals = [id \in GlobalId |-> NoEntry]
    /\ assoc = [a \in Association |-> "closed"]
    /\ claim = [a \in Association |-> NoClaim]
    /\ wall = 0
    /\ idleSince = [id \in GlobalId |-> 0]

\* A client's New frame names an identifier; the session task reads the clock.
OpenAs(a, u, id) ==
    /\ assoc[a] = "closed"
    /\ assoc' = [assoc EXCEPT ![a] = "opening"]
    /\ claim' = [claim EXCEPT ![a] = [user |-> u, id |-> id, now |-> wall]]
    /\ UNCHANGED <<globals, wall, idleSince>>

\* Bug: an expired entry goes even while an association holds it.
PurgedLeased(now) ==
    [id \in GlobalId |-> IF globals[id] # NoEntry /\ now >= globals[id].expire
                         THEN NoEntry ELSE globals[id]]
\* purge_locked
Purged(now) ==
    [id \in GlobalId |->
        IF globals[id] # NoEntry /\ globals[id].leases = 0 /\ now >= globals[id].expire
        THEN NoEntry ELSE globals[id]]

\* acquire; the lease exists before the socket or the carrier is set up, and a
\* setup that fails drops it like any other.
Acquire(a) ==
    LET id == claim[a].id
        live == Purged(claim[a].now)
        present == live[id] # NoEntry
        conflict == present /\ live[id].owner # claim[a].user
        full == ~present /\ Cardinality({i \in GlobalId : live[i] # NoEntry}) >= MaxAssociations
    IN  /\ assoc[a] = "opening"
        /\ assoc' = [assoc EXCEPT ![a] = IF conflict \/ full THEN "closed" ELSE "held"]
        /\ globals' = IF conflict \/ full THEN live
                      ELSE IF present THEN [live EXCEPT ![id].leases = @ + 1]
                      ELSE [live EXCEPT ![id] = [expire |-> claim[a].now + Grace, leases |-> 1,
                                                 owner |-> claim[a].user]]
        /\ claim' = [claim EXCEPT ![a] = IF conflict \/ full THEN NoClaim ELSE @]
        /\ UNCHANGED <<wall, idleSince>>

\* The association ends, or its setup fails: release and Drop read the clock.
BeginClose(a) ==
    /\ assoc[a] = "held"
    /\ assoc' = [assoc EXCEPT ![a] = "closing"]
    /\ claim' = [claim EXCEPT ![a].now = wall]
    /\ UNCHANGED <<globals, wall, idleSince>>

\* release_lease: the last lease starts the grace period.
GraceFrom(entry, now) == IF entry.leases = 1 THEN now + Grace ELSE entry.expire

ReleaseLease(a) ==
    LET id == claim[a].id IN
    /\ assoc[a] = "closing"
    /\ assoc' = [assoc EXCEPT ![a] = "closed"]
    /\ globals' = IF globals[id] = NoEntry THEN globals
                  ELSE [globals EXCEPT ![id].leases = @ - 1,
                                       ![id].expire = GraceFrom(globals[id], claim[a].now)]
    /\ idleSince' = [idleSince EXCEPT ![id] = claim[a].now]
    /\ claim' = [claim EXCEPT ![a] = NoClaim]
    /\ UNCHANGED wall

WallTick == /\ wall < MaxClock
            /\ wall' = wall + 1
            /\ UNCHANGED <<globals, assoc, claim, idleSince>>

LeaseNext ==
    \/ \E a \in Association :
          \/ \E u \in User, id \in GlobalId : OpenAs(a, u, id)
          \/ Acquire(a) \/ BeginClose(a) \/ ReleaseLease(a)
    \/ WallTick

LeaseSpec == LeaseInit /\ [][LeaseNext]_leaseVars

(* An identifier's count is exactly the number of live associations that    *)
(* hold it, and all of them belong to the user who owns it: the unchecked   *)
(* decrement of release_lease cannot wrap, and no other user's association  *)
(* ever shares an identifier.                                               *)
LeasesMatchHolders ==
    \A id \in GlobalId :
        IF globals[id] = NoEntry THEN LeaseHolders(id) = {}
        ELSE /\ globals[id].leases = Cardinality(LeaseHolders(id))
             /\ \A a \in LeaseHolders(id) : claim[a].user = globals[id].owner

(* An identifier leaves its owner only when nobody holds it and the whole   *)
(* grace period is over that runs from the instant read by the holder that  *)
(* released last (acquire, release_lease and purge_locked).                 *)
OwnerKeepsGrace ==
    [][\A id \in GlobalId :
          (globals[id] # NoEntry /\ (globals'[id] = NoEntry \/ globals'[id].owner # globals[id].owner))
             => LeaseHolders(id) = {} /\ wall >= idleSince[id] + Grace]_leaseVars
=============================================================================
