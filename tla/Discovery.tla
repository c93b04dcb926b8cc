----------------------------- MODULE Discovery -----------------------------
(***************************************************************************)
(* The mDNS discovery task (crates/discovery/src/lib.rs) and the part of   *)
(* the prober's table it owns (add_upstream and remove_upstream of         *)
(* crates/health/src/lib.rs).  A peer announces itself with a set of urls; *)
(* urls that are not tracked yet become upstreams, and stop being ones     *)
(* when no peer that is heard of advertises them.  Several peers may       *)
(* advertise one url, a peer may change its urls, and a url may also be a  *)
(* configured upstream, which discovery must not touch.                    *)
(*                                                                         *)
(* The task handles one event at a time but awaits the table's lock for    *)
(* each url: lookups and probes see the table in between, so every await   *)
(* is a step.                                                              *)
(***************************************************************************)
EXTENDS Integers

CONSTANTS
    Names,        \* full service names of peers
    Urls,
    Configured,   \* the upstreams of the configuration
    Expiration    \* age, in ticks, after which a peer is stale

ASSUME ConfiguredAssumption == Configured \subseteq Urls
ASSUME ExpirationAssumption == Expiration \in Nat

VARIABLES
    table,      \* the urls the prober tracks
    by_name,    \* by_name[n]: urls of peer n; {} is a peer not in the map
    age,        \* age[n]: ticks since n was last heard of, capped
    owned,      \* urls that discovery added
    task,       \* idle, add (in resolved) or release
    who,        \* the name being resolved
    urls,       \* what it announces
    previous,   \* what it announced before
    todo        \* urls the current loop has yet to visit

vars == <<table, by_name, age, owned, task, who, urls, previous, todo>>

Advertised == UNION {by_name[n] : n \in Names}
TooOld == Expiration + 1

---------------------------------------------------------------------------

Init ==
    /\ table = Configured
    /\ by_name = [n \in Names |-> {}]
    /\ age = [n \in Names |-> 0]
    /\ owned = {}
    /\ task = "idle"
    /\ who \in Names
    /\ urls = {}
    /\ previous = {}
    /\ todo = {}

\* A ServiceResolved event with a routable address: resolved takes the peer
\* out of the map and goes over the urls that are new.
Resolved(n, announced) ==
    /\ task = "idle"
    /\ announced # {}
    /\ task' = "add"
    /\ who' = n
    /\ urls' = announced
    /\ previous' = by_name[n]
    /\ by_name' = [by_name EXCEPT ![n] = {}]
    /\ todo' = announced \ by_name[n]
    /\ UNCHANGED <<table, age, owned>>

\* Mutant: a url is owned even if it was tracked before.
AddAndOwn(u) ==
    /\ task = "add"
    /\ u \in todo
    /\ todo' = todo \ {u}
    /\ table' = table \cup {u}
    /\ owned' = owned \cup {u}
    /\ UNCHANGED <<by_name, age, task, who, urls, previous>>

\* add_upstream: a url that is tracked already, for a configured upstream or
\* another peer, stays as it is and whose it is.
Add(u) ==
    /\ task = "add"
    /\ u \in todo
    /\ todo' = todo \ {u}
    /\ table' = table \cup {u}
    /\ owned' = IF u \in table THEN owned ELSE owned \cup {u}
    /\ UNCHANGED <<by_name, age, task, who, urls, previous>>

\* The peer is back in the map; what it no longer announces is released.
Added ==
    /\ task = "add"
    /\ todo = {}
    /\ by_name' = [by_name EXCEPT ![who] = urls]
    /\ age' = [age EXCEPT ![who] = 0]
    /\ todo' = previous \ urls
    /\ task' = "release"
    /\ urls' = {}
    /\ previous' = {}
    /\ UNCHANGED <<table, owned, who>>

Stale == {n \in Names : by_name[n] # {} /\ age[n] > Expiration}

\* Mutant: stale peers are forgotten, their urls are not released.
ExpireOnly ==
    /\ task = "idle"
    /\ Stale # {}
    /\ by_name' = [n \in Names |-> IF n \in Stale THEN {} ELSE by_name[n]]
    /\ todo' = {}
    /\ task' = "release"
    /\ UNCHANGED <<table, age, owned, who, urls, previous>>

\* The cleanup tick: stale peers leave the map together, then their urls are
\* released.
Expire ==
    /\ task = "idle"
    /\ Stale # {}
    /\ by_name' = [n \in Names |-> IF n \in Stale THEN {} ELSE by_name[n]]
    /\ todo' = UNION {by_name[n] : n \in Stale}
    /\ task' = "release"
    /\ UNCHANGED <<table, age, owned, who, urls, previous>>

\* Mutant: the peer that goes is the only one asked.
ReleaseShared(u) ==
    /\ task = "release"
    /\ u \in todo
    /\ todo' = todo \ {u}
    /\ table' = IF u \in owned THEN table \ {u} ELSE table
    /\ owned' = owned \ {u}
    /\ UNCHANGED <<by_name, age, task, who, urls, previous>>

\* Mutant: a url that left the table is still owned.
ReleaseKept(u) ==
    /\ task = "release"
    /\ u \in todo
    /\ todo' = todo \ {u}
    /\ table' = IF u \notin Advertised /\ u \in owned
                THEN table \ {u} ELSE table
    /\ UNCHANGED <<by_name, age, owned, task, who, urls, previous>>

Release(u) ==
    /\ task = "release"
    /\ u \in todo
    /\ todo' = todo \ {u}
    /\ \/ /\ u \notin Advertised /\ u \in owned
          /\ owned' = owned \ {u}
          /\ table' = table \ {u}
       \/ /\ u \in Advertised \/ u \notin owned
          /\ UNCHANGED <<table, owned>>
    /\ UNCHANGED <<by_name, age, task, who, urls, previous>>

Released ==
    /\ task = "release"
    /\ todo = {}
    /\ task' = "idle"
    /\ UNCHANGED <<table, by_name, age, owned, who, urls, previous, todo>>

Tick ==
    /\ age' = [n \in Names |-> IF age[n] < TooOld THEN age[n] + 1 ELSE TooOld]
    /\ UNCHANGED <<table, by_name, owned, task, who, urls, previous, todo>>

Handler ==
    \/ \E u \in Urls : Add(u)
    \/ Added
    \/ \E u \in Urls : Release(u)
    \/ Released

Next ==
    \/ \E n \in Names, announced \in SUBSET Urls : Resolved(n, announced)
    \/ Handler
    \/ Expire
    \/ Tick

\* The task finishes the event it handles, time passes, and select! picks
\* its ready branches at random: announcements do not starve the cleanup.
Fairness ==
    /\ WF_vars(Handler)
    /\ SF_vars(Expire)
    /\ WF_vars(Tick)

Spec == Init /\ [][Next]_vars /\ Fairness

---------------------------------------------------------------------------
(* Properties *)

\* Types, and that discovery's own urls are tracked and are not configured.
TypeOK ==
    /\ table \subseteq Urls
    /\ by_name \in [Names -> SUBSET Urls]
    /\ age \in [Names -> 0..TooOld]
    /\ owned = table \ Configured
    /\ task \in {"idle", "add", "release"}
    /\ who \in Names
    /\ urls \subseteq Urls
    /\ previous \subseteq Urls
    /\ todo \subseteq Urls

\* What a peer that is heard of advertises and what is configured can be
\* raced at every moment, also while a peer that shared the url is expired
\* and while the peer itself announces other urls next to it.
Tracked ==
    /\ Configured \cup Advertised \subseteq table
    /\ task = "add" => previous \subseteq table

\* Between two events the prober tracks what is configured and what some
\* peer advertises, and nothing else: no url outlives its last peer.
TableExact == task = "idle" => table = Configured \cup Advertised

\* A discovered url does not stay for ever: unless a peer that has it is
\* heard of again, it is removed.
Forgotten ==
    \A u \in Urls \ Configured :
        u \in table ~> \/ u \notin table
                       \/ \E n \in Names : u \in by_name[n] /\ age[n] = 0
===========================================================================
