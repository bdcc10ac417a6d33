------------------------------ MODULE DnsFlight ------------------------------
(***************************************************************************)
(* The resolver's cache and its single-flight lookups (server/dns.rs).     *)
(* A request finds a cached answer, joins the lookup in flight for its     *)
(* name, or leads a new one: it takes a lookup permit, claims the name's   *)
(* slot and spawns a task.  The task publishes the answer in the table and *)
(* then broadcasts it; the lock is not held in between.                    *)
(*                                                                         *)
(* A flight is named by the request that leads it.  Cached answers,        *)
(* positive or negative, only differ in being expired or not; which of the *)
(* live ones expires first is left open.  The release profile aborts on a  *)
(* panic, so a flight task never vanishes and its channel never closes.    *)
(***************************************************************************)
EXTENDS Integers, FiniteSets

CONSTANTS Request, Name,
          MaxEntries,  \* bounds.max_entries
          Permits      \* AdmissionKind::DnsLookup

VARIABLES
    slot,    \* the table: "none", "cached", "expired", or the flight in the slot
    ask,     \* request: new, waiting or done
    name,    \* request: the normalised name it asks for
    joined,  \* request: the flight it subscribed to, itself when it leads
    inbox,   \* requests whose receiver holds the outcome
    flight,  \* request: none, lookup, resolved, published or sent
    keep,    \* flight: the outcome is cacheable
    lookups  \* flights whose lookup still holds its permit

dnsVars == <<slot, ask, name, joined, inbox, flight, keep, lookups>>

Cached == {"none", "cached", "expired"}
Nobody == "nobody"

\* A slot's variants are distinct: a flight is not a cached answer.
ASSUME DnsAssumption == Request \cap (Cached \cup {Nobody}) = {}

DnsTypeOK ==
    /\ slot \in [Name -> Cached \cup Request]
    /\ ask \in [Request -> {"new", "waiting", "done"}]
    /\ name \in [Request -> Name]
    /\ joined \in [Request -> Request \cup {Nobody}]
    /\ inbox \subseteq Request /\ lookups \subseteq Request
    /\ flight \in [Request -> {"none", "lookup", "resolved", "published", "sent"}]
    /\ keep \in [Request -> BOOLEAN]

DnsInit ==
    /\ slot = [n \in Name |-> "none"]
    /\ ask = [r \in Request |-> "new"]
    /\ name \in [Request -> Name]
    /\ joined = [r \in Request |-> Nobody]
    /\ inbox = {} /\ lookups = {}
    /\ flight = [r \in Request |-> "none"]
    /\ keep = [r \in Request |-> FALSE]

Entries(table) == {n \in Name : table[n] # "none"}

\* Bug: pressure may take a slot whose lookup is in flight.
VictimsAny(table) == Entries(table)
\* The entries pressure may take: expires_at is None for one in flight.
Victims(table) == {n \in Name : table[n] = "cached"}

\* evict_pressure: the tables it may leave behind.
Evicted(table) ==
    LET fresh == [n \in Name |-> IF table[n] = "expired" THEN "none" ELSE table[n]]
    IN  IF Cardinality(Entries(fresh)) < MaxEntries \/ Victims(fresh) = {} THEN {fresh}
        ELSE {[fresh EXCEPT ![v] = "none"] : v \in Victims(fresh)}

Resolved(r) ==
    /\ ask' = [ask EXCEPT ![r] = "done"]
    /\ joined' = [joined EXCEPT ![r] = Nobody]

\* resolve_class under the lock, one action per arm of its match.
Hit(r) ==
    /\ ask[r] = "new" /\ slot[name[r]] = "cached"
    /\ Resolved(r)
    /\ UNCHANGED <<slot, name, inbox, flight, keep, lookups>>

DropExpired(r) ==
    /\ ask[r] = "new" /\ slot[name[r]] = "expired"
    /\ slot' = [slot EXCEPT ![name[r]] = "none"]
    /\ UNCHANGED <<ask, name, joined, inbox, flight, keep, lookups>>

Join(r) ==
    /\ ask[r] = "new" /\ slot[name[r]] \in Request
    /\ joined' = [joined EXCEPT ![r] = slot[name[r]]]
    /\ ask' = [ask EXCEPT ![r] = "waiting"]
    /\ UNCHANGED <<slot, name, inbox, flight, keep, lookups>>

Denied(r) ==
    /\ ask[r] = "new" /\ slot[name[r]] = "none" /\ Cardinality(lookups) >= Permits
    /\ Resolved(r)
    /\ UNCHANGED <<slot, name, inbox, flight, keep, lookups>>

Lead(r) ==
    /\ ask[r] = "new" /\ slot[name[r]] = "none" /\ Cardinality(lookups) < Permits
    /\ \E table \in IF Cardinality(Entries(slot)) >= MaxEntries THEN Evicted(slot) ELSE {slot} :
          slot' = [table EXCEPT ![name[r]] = r]
    /\ lookups' = lookups \cup {r}
    /\ flight' = [flight EXCEPT ![r] = "lookup"]
    /\ joined' = [joined EXCEPT ![r] = r]
    /\ ask' = [ask EXCEPT ![r] = "waiting"]
    /\ UNCHANGED <<name, inbox, keep>>

\* The backend answers (the permit goes with the lookup), or the leader's
\* budget ends first, while a blocking system lookup may hold its permit on.
LookupEnds(r) ==
    /\ flight[r] = "lookup"
    /\ flight' = [flight EXCEPT ![r] = "resolved"]
    /\ \/ keep' \in {keep, [keep EXCEPT ![r] = TRUE]} /\ lookups' = lookups \ {r}
       \/ keep' = keep /\ lookups' = lookups
    /\ UNCHANGED <<slot, ask, name, joined, inbox>>

BackendReturns(r) ==
    /\ r \in lookups /\ flight[r] # "lookup"
    /\ lookups' = lookups \ {r}
    /\ UNCHANGED <<slot, ask, name, joined, inbox, flight, keep>>

\* insert_bounded, which evicts only if the slot is no longer there, or remove.
Publish(r) ==
    /\ \E table \in IF keep[r] /\ slot[name[r]] = "none"
                       /\ Cardinality(Entries(slot)) >= MaxEntries
                    THEN Evicted(slot) ELSE {slot} :
          slot' = [table EXCEPT ![name[r]] = IF keep[r] THEN "cached" ELSE "none"]
    /\ keep' = [keep EXCEPT ![r] = FALSE]
    /\ UNCHANGED <<ask, name, joined, inbox, lookups>>

\* The broadcast reaches the receivers subscribed so far.
Broadcast(r) ==
    /\ inbox' = inbox \cup {q \in Request : ask[q] = "waiting" /\ joined[q] = r}
    /\ UNCHANGED <<slot, ask, name, joined, keep, lookups>>

\* Bug: the broadcast goes out before the table is updated.
SpawnFlightSwapped(r) ==
    \/ flight[r] = "resolved" /\ Broadcast(r) /\ flight' = [flight EXCEPT ![r] = "sent"]
    \/ flight[r] = "sent" /\ slot[name[r]] = r /\ Publish(r) /\ UNCHANGED flight

\* The end of spawn_flight's task.
SpawnFlight(r) ==
    \/ flight[r] = "resolved" /\ Publish(r) /\ flight' = [flight EXCEPT ![r] = "published"]
    \/ flight[r] = "published" /\ Broadcast(r) /\ flight' = [flight EXCEPT ![r] = "sent"]

Receive(r) ==
    /\ ask[r] = "waiting" /\ r \in inbox
    /\ Resolved(r)
    /\ inbox' = inbox \ {r}
    /\ UNCHANGED <<slot, name, flight, keep, lookups>>

\* The request's own budget ends, or its caller drops it; the flight goes on.
GiveUp(r) ==
    /\ ask[r] = "waiting" /\ r \notin inbox
    /\ Resolved(r)
    /\ UNCHANGED <<slot, name, inbox, flight, keep, lookups>>

Expires(n) ==
    /\ slot[n] = "cached"
    /\ slot' = [slot EXCEPT ![n] = "expired"]
    /\ UNCHANGED <<ask, name, joined, inbox, flight, keep, lookups>>

DnsNext ==
    \/ \E r \in Request :
          \/ Hit(r) \/ DropExpired(r) \/ Join(r) \/ Denied(r) \/ Lead(r)
          \/ LookupEnds(r) \/ BackendReturns(r) \/ SpawnFlight(r)
          \/ Receive(r) \/ GiveUp(r)
    \/ \E n \in Name : Expires(n)

DnsSpec == DnsInit /\ [][DnsNext]_dnsVars

(* Nobody misses the answer: a request that subscribed to a flight has the  *)
(* outcome in its receiver once the flight has sent it, however the request *)
(* fell between the table update and the broadcast.                         *)
SubscribersHear ==
    \A r \in Request : (ask[r] = "waiting" /\ flight[joined[r]] = "sent") => r \in inbox

(* One lookup per name: until it publishes, a flight owns its name's slot,  *)
(* whatever evictions and other flights do, so requests join it and none    *)
(* starts a second one (resolve_class, evict_pressure, insert_bounded).     *)
FlightOwnsSlot ==
    \A r \in Request : flight[r] \in {"lookup", "resolved"} => slot[name[r]] = r
=============================================================================
