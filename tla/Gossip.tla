------------------------------ MODULE Gossip ------------------------------
(***************************************************************************)
(* Routes passed between instances: crates/mesh/src/lib.rs and the routes  *)
(* table of crates/db/src/lib.rs, for instances that list each other as    *)
(* peers.                                                                  *)
(*                                                                         *)
(* Abstractions: a route is a path, the latency it was found with and the  *)
(* time since it was verified; its url and body are Router's.  An age      *)
(* above TTL is not counted any further, so that time has no end.  Clocks  *)
(* agree, keys are kept across restarts, and the table has room (its       *)
(* eviction is RowDeleted of Router).  The size of a packet is the number  *)
(* of its routes.                                                          *)
(***************************************************************************)
EXTENDS Integers, FiniteSets

CONSTANTS
    Nodes,        \* instances
    Peers,        \* Peers[n]: the peers in the configuration of n
    Paths,        \* store paths
    Latencies,    \* Latencies[n][p]: what lookups of p at n find; none, if {}
    TTL,          \* cache.ttl, in ticks
    MaxGossip,    \* MAX_GOSSIP_ROUTES
    PacketRoutes, \* routes that fit into MAX_PACKET_SIZE
    MaxFaults     \* bound on what goes wrong

ASSUME PeersAssumption ==
    /\ IsFiniteSet(Nodes) /\ IsFiniteSet(Paths)
    /\ Peers \in [Nodes -> SUBSET Nodes]

ASSUME NumberAssumption ==
    /\ Latencies \in [Nodes -> [Paths -> SUBSET Nat]]
    /\ TTL \in Nat \ {0} /\ MaxGossip \in Nat \ {0} /\ PacketRoutes \in Nat
    /\ MaxFaults \in Nat

VARIABLES
    held,   \* paths that upstreams have
    rows,   \* the table of each instance
    net,    \* the datagrams under way
    todo,   \* routes of its packet that the listener has not looked at
    chosen, \* the route it has decided to store, if any
    spoken, \* instances that have announced in this interval
    faults  \* lost and repeated packets, failed queries and restarts

vars == <<held, rows, net, todo, chosen, spoken, faults>>

Routes == [path : Paths, lat : Nat, age : 0 .. TTL + 1]
Packets == [from : Nodes, to : Nodes, routes : SUBSET Routes]

Init ==
    /\ held \in SUBSET Paths
    /\ rows = [n \in Nodes |-> {}]
    /\ net = {}
    /\ todo = [n \in Nodes |-> {}]
    /\ chosen = [n \in Nodes |-> {}]
    /\ spoken = {}
    /\ faults = 0

---------------------------------------------------------------------------
(* The table *)

\* ttl > now, and ttl < now.
Live(r) == r.age < TTL
Expired(r) == r.age > TTL

\* Mutant: a second row for the path.
PutBeside(table, r) == table \cup {r}

\* set_route: there is one row for a path.
Put(table, r) == {x \in table : x.path # r.path} \cup {r}

\* list_recent_routes, for one order of the rows verified at the same time.
Recent(table, S) ==
    LET live == {r \in table : Live(r)} IN
    /\ S \subseteq live
    /\ S = live \/ Cardinality(S) = MaxGossip
    /\ Cardinality(S) <= MaxGossip
    /\ \A r \in S, x \in live \ S : r.age <= x.age

\* commit_winner: a lookup found p at an upstream.
Commit(n, p, lat) ==
    /\ p \in held
    /\ rows' = [rows EXCEPT ![n] = Put(@, [path |-> p, lat |-> lat, age |-> 0])]
    /\ UNCHANGED <<held, net, todo, chosen, spoken, faults>>

\* expire_old_routes, every five minutes.
ExpireOldRoutes(n) ==
    /\ \E r \in rows[n] : Expired(r)
    /\ rows' = [rows EXCEPT ![n] = {r \in @ : ~Expired(r)}]
    /\ UNCHANGED <<held, net, todo, chosen, spoken, faults>>

---------------------------------------------------------------------------
(* The mesh *)

\* A round of run_gossip_loop: one datagram to every peer.
Announce(n, S) ==
    /\ n \notin spoken
    /\ spoken' = spoken \cup {n}
    /\ S # {}
    /\ Recent(rows[n], S)
    /\ net' = net \cup {[from |-> n, to |-> m, routes |-> S] : m \in Peers[n]}
    /\ UNCHANGED <<held, rows, todo, chosen, faults>>

Listening(n) == todo[n] = {} /\ chosen[n] = {}

\* The packet is whole, and its key is that of a peer.
Accepted(n, k) ==
    /\ Cardinality(k.routes) <= PacketRoutes
    /\ k.from \in Peers[n]

\* listen_and_serve gets a packet and begins to merge its routes.
Hear(n, k) ==
    /\ Listening(n)
    /\ k \in net
    /\ k.to = n
    /\ todo' = [todo EXCEPT ![n] = IF Accepted(n, k)
                                   THEN {r \in k.routes : Live(r)} ELSE {}]
    /\ UNCHANGED <<held, rows, chosen, spoken>>

Receive(n, k) ==
    /\ Hear(n, k)
    /\ net' = net \ {k}
    /\ UNCHANGED faults

Fault ==
    /\ faults < MaxFaults
    /\ faults' = faults + 1

\* The network delivers a packet that it will deliver again.
ReceiveFirst(n, k) == Fault /\ Hear(n, k) /\ UNCHANGED net

\* A packet is lost.
Lose(k) ==
    /\ Fault
    /\ net' = net \ {k}
    /\ UNCHANGED <<held, rows, todo, chosen, spoken>>

\* merge_routes would rather have r than x.
Beats(r, x) == r.lat < x.lat \/ (r.lat = x.lat /\ r.age < x.age)

\* merge_routes takes the next route of the packet.
Takes(n, r) ==
    /\ chosen[n] = {}
    /\ r \in todo[n]
    /\ \A x \in todo[n] : r.age <= x.age
    /\ todo' = [todo EXCEPT ![n] = @ \ {r}]
    /\ UNCHANGED <<held, rows, net, spoken>>

\* Mutant: only rows that are there are improved.
CompareKnown(n, r) ==
    /\ Takes(n, r)
    /\ chosen' = [chosen EXCEPT ![n] =
           IF \E x \in rows[n] : x.path = r.path /\ Beats(r, x)
           THEN {r} ELSE {}]
    /\ UNCHANGED faults

\* It looks up the row of the path.
Compare(n, r) ==
    /\ Takes(n, r)
    /\ chosen' = [chosen EXCEPT ![n] =
           IF \A x \in rows[n] : x.path = r.path => Beats(r, x)
           THEN {r} ELSE {}]
    /\ UNCHANGED faults

\* get_route fails.
CompareFails(n, r) == Fault /\ Takes(n, r) /\ UNCHANGED chosen

\* Mutant: a route counts as verified by those who hear of it.
StoreRenewed(n, r) ==
    /\ chosen[n] = {r}
    /\ rows' = [rows EXCEPT ![n] = Put(@, [r EXCEPT !.age = 0])]
    /\ chosen' = [chosen EXCEPT ![n] = {}]
    /\ UNCHANGED <<held, net, todo, spoken, faults>>

\* It stores the route, whatever the row of the path is by now.
Store(n, r) ==
    /\ chosen[n] = {r}
    /\ rows' = [rows EXCEPT ![n] = Put(@, r)]
    /\ chosen' = [chosen EXCEPT ![n] = {}]
    /\ UNCHANGED <<held, net, todo, spoken, faults>>

\* set_route fails.
StoreFails(n) ==
    /\ Fault
    /\ chosen[n] # {}
    /\ chosen' = [chosen EXCEPT ![n] = {}]
    /\ UNCHANGED <<held, rows, net, todo, spoken>>

\* The process is stopped and started: the table remains.
Restart(n) ==
    /\ Fault
    /\ ~Listening(n)
    /\ todo' = [todo EXCEPT ![n] = {}]
    /\ chosen' = [chosen EXCEPT ![n] = {}]
    /\ UNCHANGED <<held, rows, net, spoken>>

---------------------------------------------------------------------------
(* The surroundings *)

Older(r) == [r EXCEPT !.age = IF @ <= TTL THEN @ + 1 ELSE @]

\* A gossip interval is over.  Datagrams and merges take far less than one.
Tick ==
    /\ net = {}
    /\ \A n \in Nodes : Listening(n)
    /\ \A n \in Nodes \ spoken : \A r \in rows[n] : ~Live(r)
    /\ rows' = [n \in Nodes |-> {Older(r) : r \in rows[n]}]
    /\ spoken' = {}
    /\ UNCHANGED <<held, net, todo, chosen, faults>>

\* An upstream gets the path, or the last one that has it drops it.
HeldChanges(p) ==
    /\ held' = IF p \in held THEN held \ {p} ELSE held \cup {p}
    /\ UNCHANGED <<rows, net, todo, chosen, spoken, faults>>

\* What an instance does by itself.
Mesh(n) ==
    \/ \E S \in SUBSET rows[n] : Announce(n, S)
    \/ \E k \in net : Receive(n, k)
    \/ \E r \in todo[n] : Compare(n, r)
    \/ \E r \in chosen[n] : Store(n, r)

Next ==
    \/ \E n \in Nodes, p \in Paths : \E lat \in Latencies[n][p] : Commit(n, p, lat)
    \/ \E n \in Nodes : ExpireOldRoutes(n)
    \/ \E n \in Nodes : Mesh(n)
    \/ \E n \in Nodes : \E k \in net : ReceiveFirst(n, k)
    \/ \E k \in net : Lose(k)
    \/ \E n \in Nodes : \E r \in todo[n] : CompareFails(n, r)
    \/ \E n \in Nodes : StoreFails(n) \/ Restart(n)
    \/ Tick
    \/ \E p \in Paths : HeldChanges(p)

\* The loops go round.
Fairness ==
    /\ WF_vars(Tick)
    /\ \A n \in Nodes : WF_vars(ExpireOldRoutes(n)) /\ WF_vars(Mesh(n))

Spec == Init /\ [][Next]_vars /\ Fairness

---------------------------------------------------------------------------
(* Properties *)

OneRowEach(table) ==
    \A r, x \in table : r.path = x.path => r = x

\* Types; a table, and so a packet, has one route for a path.
TypeOK ==
    /\ held \subseteq Paths
    /\ rows \in [Nodes -> SUBSET Routes]
    /\ \A n \in Nodes : OneRowEach(rows[n])
    /\ net \subseteq Packets
    /\ \A k \in net : OneRowEach(k.routes) /\ k.to \in Peers[k.from]
    /\ todo \in [Nodes -> SUBSET Routes]
    /\ chosen \in [Nodes -> SUBSET Routes]
    /\ \A n \in Nodes : Cardinality(chosen[n]) <= 1
    /\ spoken \subseteq Nodes
    /\ faults \in 0..MaxFaults

Knows(n, p) == \E r \in rows[n] : r.path = p /\ Live(r)

\* An instance hears, again and again, of a route that one of its peers keeps
\* knowing, although packets get lost, merges fail, and rows that have expired
\* stand in the way until they are deleted.
Spread ==
    \A n, m \in Nodes : \A p \in Paths :
        m \in Peers[n] /\ n \in Peers[m] =>
            (<>[]Knows(n, p) => []<>Knows(m, p))

\* A path that no upstream has any more is forgotten by the whole mesh: no
\* instance takes hearing of a route for having verified it, so that they do
\* not keep it alive between them.
Forgotten ==
    \A p \in Paths :
        <>[](p \notin held) => <>[](\A n \in Nodes : ~Knows(n, p))
===========================================================================
