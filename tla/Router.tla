------------------------------ MODULE Router ------------------------------
(***************************************************************************)
(* Router::resolve and its caches (crates/router/src/lib.rs), for the      *)
(* lookups of one store hash: the in-memory miss cache, the negative cache *)
(* and the route table in SQLite, the in-memory route cache, and the       *)
(* singleflight map that lets concurrent client lookups share one race.    *)
(* Other store hashes show as evictions.                                   *)
(*                                                                         *)
(* A lookup is a task that other tasks overtake at every await; each       *)
(* action is what it does between two of them, and a database access is an *)
(* action of its own.  A lookup may be dropped at every await (the client  *)
(* disconnects) and the process may restart, which keeps the database and  *)
(* nothing else, and may bring other filters.                              *)
(*                                                                         *)
(* The race itself is the step RaceContract allows; Race shows that the    *)
(* code implements it.                                                     *)
(***************************************************************************)
EXTENDS Integers

CONSTANTS
    Requests,      \* narinfo lookups
    Upstreams,
    Bodies,        \* narinfo bodies
    None,          \* no entry, no body, no flight
    Verifies,      \* Verifies[u]: bodies that parse and match u's keys
    Configs,       \* filter configurations: u -> bodies u's rules let through
    RouteTTL, NegativeTTL, MissTTL,
    Arrivals,      \* hops the lookups come with
    Flaky,         \* upstreams whose health changes
    Lifetimes,     \* what is left of the TTL of rows that others write
    MaxTime,       \* bound on the clock
    MaxRestarts    \* bound on restarts

ASSUME TimeAssumption ==
    /\ RouteTTL \in Nat \ {0}
    /\ NegativeTTL \in Nat \ {0}
    /\ MissTTL \in Nat \ {0}
    /\ MaxTime \in Nat
    /\ MaxRestarts \in Nat

ASSUME SurroundingsAssumption ==
    /\ Arrivals \subseteq {"Client", "Peer", "PeerOfPeer"}
    /\ Flaky \subseteq Upstreams
    /\ Lifetimes \subseteq Nat

ASSUME VettingAssumption ==
    /\ Verifies \in [Upstreams -> SUBSET Bodies]
    /\ Configs \subseteq [Upstreams -> SUBSET Bodies]

ASSUME NoneAssumption ==
    /\ None \notin Requests
    /\ None \notin Bodies
    /\ None \notin Upstreams

VARIABLES
    (* memory of the process *)
    lru,       \* the route cache: whether, whose, what, until when
    miss,      \* the miss cache: until when; 0 is never
    inflight,  \* the flight registered for the hash; flights are named
               \* after the lookup that created them
    lock,      \* lock[f]: the lookup that holds flight f's mutex
    down,      \* upstreams the prober has Down
    allow,     \* the filter configuration
    (* the database *)
    route,     \* the row of the hash
    negative,  \* its negative row: until when; 0 is never
    (* the lookups *)
    pc, hop, arc, second, up, body, ttl, out,
    (* the surroundings *)
    now, restarts,
    (* history *)
    slow,      \* lookups that have seen the clock tick since they last
               \* read or computed a route they are about to store
    closed,    \* flights that a holder has left
    answered   \* answered[f]: until when f's last answer is remembered

memory == <<lru, miss, inflight, lock, down, allow>>
table == <<route, negative>>
task == <<pc, hop, arc, second, up, body, ttl, out>>
clock == <<now, restarts>>
history == <<slow, closed, answered>>
vars == <<memory, table, task, clock, history>>

NoEntry == [up |-> None, body |-> None, ttl |-> 0, exp |-> 0]
NoRow == [up |-> None, body |-> None, ttl |-> 0]

Rows == [up : Upstreams, body : Bodies \cup {None}, ttl : Nat]
Entries == [up : Upstreams, body : Bodies, ttl : Nat, exp : Nat]

Hops == {"Client", "Peer", "PeerOfPeer"}

---------------------------------------------------------------------------

\* The database may be an older process's, or an older release's, whose rows
\* have no body.
Init ==
    /\ lru = NoEntry
    /\ miss = 0
    /\ inflight = None
    /\ lock = [f \in Requests |-> None]
    /\ down = {}
    /\ allow \in Configs
    /\ route \in {NoRow} \cup
                 {[up |-> u, body |-> b, ttl |-> RouteTTL] :
                      u \in Upstreams, b \in Bodies \cup {None}}
    /\ negative = 0
    /\ pc = [r \in Requests |-> "new"]
    /\ hop = [r \in Requests |-> "Client"]
    /\ arc = [r \in Requests |-> None]
    /\ second = [r \in Requests |-> FALSE]
    /\ up = [r \in Requests |-> None]
    /\ body = [r \in Requests |-> None]
    /\ ttl = [r \in Requests |-> 0]
    /\ out = [r \in Requests |-> "none"]
    /\ now = 0
    /\ restarts = 0
    /\ slow = {}
    /\ closed = {}
    /\ answered = [f \in Requests |-> 0]

Goto(r, l) == pc' = [pc EXCEPT ![r] = l]

\* Mutant: the guard is forgotten and the mutex stays locked.
ReleaseNothing(r) == UNCHANGED <<lock, inflight, closed>>

\* Mutant: whatever flight is registered is deregistered.
ReleaseAny(r) ==
    IF arc[r] # None /\ lock[arc[r]] = r
    THEN /\ lock' = [lock EXCEPT ![arc[r]] = None]
         /\ inflight' = None
         /\ closed' = closed \cup {arc[r]}
    ELSE UNCHANGED <<lock, inflight, closed>>

\* InflightGuard and the mutex guard are dropped: the flight is deregistered
\* if it is still the registered one, then the mutex is unlocked.
Release(r) ==
    IF arc[r] # None /\ lock[arc[r]] = r
    THEN /\ lock' = [lock EXCEPT ![arc[r]] = None]
         /\ inflight' = IF inflight = arc[r] THEN None ELSE inflight
         /\ closed' = closed \cup {arc[r]}
    ELSE UNCHANGED <<lock, inflight, closed>>

\* resolve returns: what it served, if anything, is all that is left of it.
Return(r, o, u, b) ==
    /\ Goto(r, "done")
    /\ out' = [out EXCEPT ![r] = o]
    /\ up' = [up EXCEPT ![r] = u]
    /\ body' = [body EXCEPT ![r] = b]
    /\ ttl' = [ttl EXCEPT ![r] = 0]
    /\ arc' = [arc EXCEPT ![r] = None]
    /\ second' = [second EXCEPT ![r] = FALSE]
    /\ Release(r)
    /\ slow' = slow \ {r}
    /\ hop' = [hop EXCEPT ![r] = "Client"]

Serve(r, u, b) == Return(r, "served", u, b)

\* resolve returns an error or is dropped.  Which error a race ends with is
\* the concern of Race.
Fail(r) == Return(r, "failed", None, None)

\* The lookup goes on to l and leaves everything of its own as it is.
Continue(r, l) ==
    /\ Goto(r, l)
    /\ UNCHANGED <<hop, arc, second, up, body, ttl, out, lock, inflight,
                   closed, slow>>

---------------------------------------------------------------------------
(* resolve_cached and valid_cached_route *)

Arrive(r, h) ==
    /\ pc[r] = "new"
    /\ Goto(r, "miss")
    /\ hop' = [hop EXCEPT ![r] = h]
    /\ UNCHANGED <<memory, table, arc, second, up, body, ttl, out, clock,
                   history>>

CheckMiss(r) ==
    /\ pc[r] = "miss"
    /\ \/ /\ now < miss
          /\ Fail(r)
          /\ UNCHANGED miss
       \/ /\ now >= miss
          /\ miss' = 0
          /\ Continue(r, "negative")
    /\ UNCHANGED <<lru, down, allow, table, clock, answered>>

CheckNegative(r) ==
    /\ pc[r] = "negative"
    /\ \/ /\ now < negative
          /\ Fail(r)
       \/ /\ now >= negative
          /\ Continue(r, "lru")
    /\ UNCHANGED <<lru, miss, down, allow, table, clock, answered>>

\* A hit is served as it is.  The code would check the body against the
\* filters again; FiltersHonoured shows that it always passes.
CheckLru(r) ==
    /\ pc[r] = "lru"
    /\ \/ /\ now < lru.exp
          /\ Serve(r, lru.up, lru.body)
          /\ UNCHANGED lru
       \/ /\ now >= lru.exp
          /\ lru' = NoEntry
          /\ Continue(r, "route")
    /\ UNCHANGED <<miss, down, allow, table, clock, answered>>

\* Mutant: the age of the row does not matter.
Usable == route # NoRow /\ route.up \notin down

\* The row is one get_route finds valid, of an upstream that is not Down.
Fresh == route # NoRow /\ now < route.ttl /\ route.up \notin down

\* Mutant: a row is served as it is, like an entry of the route cache.
ReadUnchecked(r) ==
    /\ pc[r] = "route"
    /\ \/ /\ Fresh
          /\ up' = [up EXCEPT ![r] = route.up]
          /\ body' = [body EXCEPT ![r] = route.body]
          /\ ttl' = [ttl EXCEPT ![r] = route.ttl]
          /\ Goto(r, IF route.body # None THEN "fill" ELSE "refetch")
       \/ /\ ~Fresh
          /\ Goto(r, "join")
          /\ UNCHANGED <<up, body, ttl>>
    /\ UNCHANGED <<memory, table, hop, arc, second, out, clock, history>>

\* Mutant: a row without a body needs no more either.
ReadBodiless(r) ==
    /\ pc[r] = "route"
    /\ \/ /\ Fresh
          /\ up' = [up EXCEPT ![r] = route.up]
          /\ body' = [body EXCEPT ![r] = route.body]
          /\ ttl' = [ttl EXCEPT ![r] = route.ttl]
          /\ Goto(r, IF route.body \in allow[route.up] \cup {None}
                     THEN "fill" ELSE "refetch")
       \/ /\ ~Fresh
          /\ Goto(r, "join")
          /\ UNCHANGED <<up, body, ttl>>
    /\ UNCHANGED <<memory, table, hop, arc, second, out, clock, history>>

\* A body that the filters let through needs no more; without one, or with
\* one they turn down, the upstream is asked again.
ReadRoute(r) ==
    /\ pc[r] = "route"
    /\ \/ /\ Fresh
          /\ up' = [up EXCEPT ![r] = route.up]
          /\ body' = [body EXCEPT ![r] = route.body]
          /\ ttl' = [ttl EXCEPT ![r] = route.ttl]
          /\ Goto(r, IF route.body \in allow[route.up]
                     THEN "fill" ELSE "refetch")
       \/ /\ ~Fresh
          /\ Goto(r, "join")
          /\ UNCHANGED <<up, body, ttl>>
    /\ UNCHANGED <<memory, table, hop, arc, second, out, clock, history>>

\* fetch_narinfo, and the filters on what it returns.
Refetch(r) ==
    /\ pc[r] = "refetch"
    /\ \/ \E b \in Verifies[up[r]] \cap allow[up[r]] :
             /\ body' = [body EXCEPT ![r] = b]
             /\ Goto(r, "save")
             /\ UNCHANGED <<up, ttl, slow>>
       \/ /\ up' = [up EXCEPT ![r] = None]
          /\ body' = [body EXCEPT ![r] = None]
          /\ ttl' = [ttl EXCEPT ![r] = 0]
          /\ Goto(r, "join")
          /\ slow' = slow \ {r}
    /\ UNCHANGED <<memory, table, hop, arc, second, out, clock, closed,
                   answered>>

\* set_route, for a refetched body as for a committed winner.  The row is the
\* one read or computed before; it replaces whatever is there by now.
Save(r) ==
    /\ pc[r] = "save"
    /\ route' = [up |-> up[r], body |-> body[r], ttl |-> ttl[r]]
    /\ Goto(r, "fill")
    /\ UNCHANGED <<memory, negative, hop, arc, second, up, body, ttl, out,
                   clock, history>>

\* lru.insert, for a full route_ttl whatever the row has left.
Fill(r) ==
    /\ pc[r] = "fill"
    /\ lru' = [up |-> up[r], body |-> body[r], ttl |-> ttl[r],
               exp |-> now + RouteTTL]
    /\ Serve(r, up[r], body[r])
    /\ answered' = IF second[r]
                   THEN [answered EXCEPT ![arc[r]] = now + RouteTTL]
                   ELSE answered
    /\ UNCHANGED <<miss, down, allow, table, clock>>

---------------------------------------------------------------------------
(* resolve, once the caches have missed *)

\* A lookup that came through two ncro instances goes no further.  A peer's
\* races at once.  A client's joins the registered flight or registers its
\* own, and races when the caches have missed again under the mutex.
Join(r) ==
    /\ pc[r] = "join"
    /\ \/ /\ hop[r] = "PeerOfPeer"
          /\ Fail(r)
       \/ /\ hop[r] = "Peer" \/ second[r]
          /\ Continue(r, "race")
       \/ /\ hop[r] = "Client" /\ ~second[r]
          /\ LET flight == IF inflight = None THEN r ELSE inflight
             IN /\ arc' = [arc EXCEPT ![r] = flight]
                /\ inflight' = flight
          /\ Goto(r, "wait")
          /\ UNCHANGED <<hop, second, up, body, ttl, out, lock, closed, slow>>
    /\ UNCHANGED <<lru, miss, down, allow, table, clock, answered>>

\* Mutant: the caches are not checked again under the mutex.
AcquireAndRace(r) ==
    /\ pc[r] = "wait"
    /\ lock[arc[r]] = None
    /\ lock' = [lock EXCEPT ![arc[r]] = r]
    /\ second' = [second EXCEPT ![r] = TRUE]
    /\ Goto(r, "race")
    /\ UNCHANGED <<lru, miss, inflight, down, allow, table, hop, arc, up,
                   body, ttl, out, clock, history>>

Acquire(r) ==
    /\ pc[r] = "wait"
    /\ lock[arc[r]] = None
    /\ lock' = [lock EXCEPT ![arc[r]] = r]
    /\ second' = [second EXCEPT ![r] = TRUE]
    /\ Goto(r, "miss")
    /\ UNCHANGED <<lru, miss, inflight, down, allow, table, hop, arc, up,
                   body, ttl, out, clock, history>>

\* The race finds u, which serves b; commit_winner has yet to store it.
RaceWins(r, u, b) ==
    /\ pc[r] = "race"
    /\ b \in Verifies[u] \cap allow[u]
    /\ up' = [up EXCEPT ![r] = u]
    /\ body' = [body EXCEPT ![r] = b]
    /\ ttl' = [ttl EXCEPT ![r] = now + RouteTTL]
    /\ Goto(r, "save")
    /\ UNCHANGED <<memory, table, hop, arc, second, out, clock, history>>

\* A client's miss is remembered, in memory first; a peer's is not.
RaceMisses(r) ==
    /\ pc[r] = "race"
    /\ \/ /\ hop[r] = "Client"
          /\ miss' = now + MissTTL
          /\ answered' = [answered EXCEPT ![arc[r]] = now + MissTTL]
          /\ Continue(r, "negate")
       \/ /\ hop[r] # "Client"
          /\ Fail(r)
          /\ UNCHANGED <<miss, answered>>
    /\ UNCHANGED <<lru, down, allow, table, clock>>

RaceFails(r) ==
    /\ pc[r] = "race"
    /\ Fail(r)
    /\ UNCHANGED <<lru, miss, down, allow, table, clock, answered>>

\* set_negative; its error is ignored.
Negate(r) ==
    /\ pc[r] = "negate"
    /\ \/ negative' = now + NegativeTTL
       \/ UNCHANGED negative
    /\ Fail(r)
    /\ UNCHANGED <<lru, miss, down, allow, route, clock, answered>>

---------------------------------------------------------------------------
(* What can happen to a lookup, and to the process *)

\* is_negative, get_route or set_route fails.
DbFails(r) ==
    /\ pc[r] \in {"negative", "route", "save"}
    /\ Fail(r)
    /\ UNCHANGED <<lru, miss, down, allow, table, clock, answered>>

\* The future is dropped at an await, and the guards with it.
Cancel(r) ==
    /\ pc[r] \notin {"new", "done"}
    /\ Fail(r)
    /\ UNCHANGED <<lru, miss, down, allow, table, clock, answered>>

\* Another hash's insert pushes this one out, and with it what answered
\* promised.
Evict ==
    /\ lru # NoEntry \/ miss # 0
    /\ \/ lru' = NoEntry /\ UNCHANGED miss
       \/ miss' = 0 /\ UNCHANGED lru
    /\ answered' = [f \in Requests |-> 0]
    /\ UNCHANGED <<inflight, lock, down, allow, table, task, clock, slow,
                   closed>>

\* evict_if_needed or expire_old_routes deletes the row.
RowDeleted ==
    /\ route # NoRow
    /\ route' = NoRow
    /\ UNCHANGED <<memory, negative, task, clock, history>>

\* Gossip writes a peer's route, or a write of a dropped lookup lands late.
RowArrives(u, b, left) ==
    /\ route' = [up |-> u, body |-> b, ttl |-> now + left]
    /\ UNCHANGED <<memory, negative, task, clock, history>>

HealthChanges(u) ==
    /\ down' = IF u \in down THEN down \ {u} ELSE down \cup {u}
    /\ UNCHANGED <<lru, miss, inflight, lock, allow, table, task, clock,
                   history>>

\* The lookups that hold a route they have not stored yet.
Storing == {r \in Requests : pc[r] \in {"refetch", "save", "fill"}}

\* The narinfo timeouts are far below a tick: no lookup sees two of them
\* between reading a route and storing it.
Tick ==
    /\ now < MaxTime
    /\ slow = {}
    /\ now' = now + 1
    /\ slow' = Storing
    /\ UNCHANGED <<memory, table, task, restarts, closed, answered>>

\* The database survives; the lookups are new ones.
Restart(config) ==
    /\ restarts < MaxRestarts
    /\ restarts' = restarts + 1
    /\ allow' = config
    /\ lru' = NoEntry
    /\ miss' = 0
    /\ inflight' = None
    /\ lock' = [f \in Requests |-> None]
    /\ down' = {}
    /\ pc' = [r \in Requests |-> "new"]
    /\ arc' = [r \in Requests |-> None]
    /\ second' = [r \in Requests |-> FALSE]
    /\ up' = [r \in Requests |-> None]
    /\ body' = [r \in Requests |-> None]
    /\ ttl' = [r \in Requests |-> 0]
    /\ out' = [r \in Requests |-> "none"]
    /\ slow' = {}
    /\ closed' = {}
    /\ answered' = [f \in Requests |-> 0]
    /\ hop' = [r \in Requests |-> "Client"]
    /\ UNCHANGED <<table, now>>

Step(r) ==
    \/ CheckMiss(r)
    \/ CheckNegative(r)
    \/ CheckLru(r)
    \/ ReadRoute(r)
    \/ Refetch(r)
    \/ Save(r)
    \/ Fill(r)
    \/ Join(r)
    \/ Acquire(r)
    \/ \E u \in Upstreams, b \in Bodies : RaceWins(r, u, b)
    \/ RaceMisses(r)
    \/ RaceFails(r)
    \/ Negate(r)
    \/ DbFails(r)

Next ==
    \/ \E r \in Requests, h \in Arrivals : Arrive(r, h)
    \/ \E r \in Requests : Step(r) \/ Cancel(r)
    \/ Evict
    \/ RowDeleted
    \/ \E u \in Upstreams, b \in Bodies \cup {None}, left \in Lifetimes :
           RowArrives(u, b, left)
    \/ \E u \in Flaky : HealthChanges(u)
    \/ Tick
    \/ \E config \in Configs : Restart(config)

\* Every await of a lookup completes: fetches and races have timeouts, the
\* database answers or fails, the mutex is handed to the next in line.
Fairness == \A r \in Requests : WF_vars(Step(r))

Spec == Init /\ [][Next]_vars /\ Fairness

---------------------------------------------------------------------------
(* Properties *)

Labels == {"new", "miss", "negative", "lru", "route", "refetch", "save",
           "fill", "join", "wait", "race", "negate", "done"}
Results == {"none", "served", "failed"}

\* Of the caches, the database and the clock.
StoreTypes ==
    /\ lru \in Entries \cup {NoEntry}
    /\ miss \in Nat
    /\ down \subseteq Upstreams
    /\ allow \in Configs
    /\ route \in Rows \cup {NoRow}
    /\ negative \in Nat
    /\ now \in 0..MaxTime
    /\ restarts \in 0..MaxRestarts
    /\ answered \in [Requests -> Nat]

\* Of the lookups and their flights.
LookupTypes ==
    /\ inflight \in Requests \cup {None}
    /\ lock \in [Requests -> Requests \cup {None}]
    /\ pc \in [Requests -> Labels]
    /\ hop \in [Requests -> Hops]
    /\ arc \in [Requests -> Requests \cup {None}]
    /\ second \in [Requests -> BOOLEAN]
    /\ up \in [Requests -> Upstreams \cup {None}]
    /\ body \in [Requests -> Bodies \cup {None}]
    /\ ttl \in [Requests -> Nat]
    /\ out \in [Requests -> Results]
    /\ slow \subseteq Requests
    /\ closed \subseteq Requests

\* Types, and who may hold what: a waiting lookup has a flight, and so has
\* one that checks again; one about to store has a route.
TypeOK ==
    /\ StoreTypes
    /\ LookupTypes
    /\ \A r \in Requests :
           /\ pc[r] = "wait" \/ second[r] => arc[r] # None
           /\ pc[r] \in {"refetch", "save", "fill"} => up[r] # None
           /\ pc[r] \in {"save", "fill"} => body[r] # None

\* Whatever way a route took, through the race, the database of an earlier
\* process with other filters, a peer's gossip or the route cache, the body
\* served is one that the upstream's filters let through now; and the route
\* cache holds no other, so its own check never fails.
FiltersHonoured ==
    /\ \A r \in Requests : out[r] = "served" => body[r] \in allow[up[r]]
    /\ lru # NoEntry => lru.body \in allow[lru.up]

\* A lookup is under way in flight f.
Aboard(r, f) == arc[r] = f /\ pc[r] \notin {"new", "done"}

\* Client lookups of the hash gather in one flight: a flight that somebody is
\* aboard and nobody has come back from is the registered one, which the next
\* lookup joins, so that there are never two of them.  In particular a lookup
\* that waited on an older flight does not deregister the newer one when it
\* leaves.
OneOpenFlight ==
    \A f \in Requests \ closed :
        (\E r \in Requests : Aboard(r, f)) => inflight = f

\* Singleflight: a lookup that waited for a flight races only if the answer
\* an earlier one of the flight got, a route or a miss, is not remembered any
\* more.
SingleFlight ==
    \A r \in Requests :
        pc[r] = "race" /\ second[r] => answered[arc[r]] <= now

\* The route cache gives a row at most one more route_ttl beyond its own.  It
\* may give it that much: valid_cached_route fills it with a row that has
\* hardly any time left.
ReuseBounded == lru # NoEntry => lru.exp <= lru.ttl + RouteTTL

\* Routes are "reused until their TTL expires" (README.md): what the route
\* cache would serve now has not outlived the TTL it was stored with.  The
\* code does not keep to this.
ReusedWithinTTL == lru # NoEntry /\ now < lru.exp => now < lru.ttl

\* Nobody waits for ever: a lookup that arrives is answered, although it may
\* queue behind others that are dropped while they hold the mutex.
LookupsComplete ==
    \A r \in Requests : pc[r] = "miss" ~> pc[r] \in {"done", "new"}
===========================================================================
