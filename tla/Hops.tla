------------------------------- MODULE Hops -------------------------------
(***************************************************************************)
(* ncro instances that have each other as upstreams.  A client's lookup at *)
(* one instance sends requests to others, which may look up and race in    *)
(* their turn (narinfo of crates/server/src/lib.rs, resolve, race,         *)
(* race_group, upstream_gate and commit_winner of                          *)
(* crates/router/src/lib.rs).  The X-Ncro-Hop header says how far a lookup *)
(* has come.  On its way a lookup waits for three things that others hold: *)
(* its flight, a race permit, and the gate of each upstream.               *)
(*                                                                         *)
(* A request has two ends: the attempt of the instance that sends it, and  *)
(* the handler of the one it reaches.  An instance ends its own attempts;  *)
(* the handler goes on until it is through, or notices.                    *)
(*                                                                         *)
(* A lookup is named by the way it came: <<c>> is client c's at Home[c],   *)
(* Append(P, <<n, k>>) the one that lookup P's k-th request to instance n  *)
(* causes there.  A handler may find the path in its caches at any time    *)
(* before it races, but nothing makes it; an upstream that is no instance  *)
(* of ncro is one that does.  What is found there has a body that can be   *)
(* served; fetching it again is not modelled.  Deadlines may pass, but     *)
(* nothing makes them: waiting must end without them.                      *)
(***************************************************************************)
EXTENDS Integers, Sequences, FiniteSets

CONSTANTS
    Nodes,       \* ncro instances, each an upstream of all the others
    Clients,     \* clients, with one lookup each
    Home,        \* Home[c]: the instance c asks
    Hash,        \* Hash[c]: the store hash c asks for
    RaceLimit,   \* max_concurrent_races
    GateLimit,   \* per_upstream_max_inflight
    MaxDepth,    \* bound on the length of a lookup's way
    MaxRequests  \* bound on the requests a lookup sends to one instance

ASSUME ClientsAssumption == Home \in [Clients -> Nodes]

\* Validated in the configuration, the bounds apart.
ASSUME LimitAssumption ==
    /\ RaceLimit \in Nat \ {0}
    /\ GateLimit \in Nat \ {0}
    /\ MaxDepth \in Nat \ {0}
    /\ MaxRequests \in Nat \ {0}

VARIABLES
    handler,   \* handler[P]: idle, arrived, permit (waits for one), group
               \* (about to race one), race, commit (fetches), done
    attempt,   \* attempt[P], the sender's end: none, gate (waits for it),
               \* head, get, over
    hop        \* hop[P]: the hop P came with

vars == <<handler, attempt, hop>>

At(P) == IF Len(P) = 1 THEN Home[P[1]] ELSE P[Len(P)][1]
Parent(P) == SubSeq(P, 1, Len(P) - 1)

\* Requests of an instance; none asks itself.
From(n) == (Nodes \ {n}) \X (1..MaxRequests)

\* Lookups of at most MaxDepth instances.
Ways == UNION {[1..n -> Clients \cup (Nodes \X (1..MaxRequests))] :
                   n \in 1..MaxDepth}
Lookups ==
    {P \in Ways :
        /\ P[1] \in Clients
        /\ \A i \in 2..Len(P) : P[i] \in From(At(SubSeq(P, 1, i - 1)))}

Children == [P \in Lookups |-> {Append(P, r) : r \in From(At(P))} \cap Lookups]

\* The requests that P may yet send, and the next one to each upstream.
Unsent(P) == {Q \in Children[P] : attempt[Q] = "none"}
Due(P) ==
    {Q \in Unsent(P) :
        \A R \in Unsent(P) : At(R) = At(Q) => Q[Len(Q)][2] <= R[Len(R)][2]}

\* A lookup that is being worked on, for whomever.
Open(P) == handler[P] \in {"arrived", "permit", "group", "race", "commit"}

\* A lookup that holds what it waited for.
Running(P) == handler[P] \in {"group", "race", "commit"}

---------------------------------------------------------------------------

Init ==
    /\ handler = [P \in Lookups |-> "idle"]
    /\ attempt = [P \in Lookups |-> "none"]
    /\ hop = [P \in Lookups |-> "Client"]

\* Mutant: a lookup that came from a peer is passed on as a client's.
PassedOnAsPeer(h) == "Peer"

\* The hop a lookup arrives with at the next instance: Hop::outgoing sends
\* "1" or "2", which from_headers reads there.
PassedOn(h) == IF h = "Client" THEN "Peer" ELSE "PeerOfPeer"

Moves(P, s) == handler' = [handler EXCEPT ![P] = s]

Arrive(c) ==
    /\ handler[<<c>>] = "idle"
    /\ Moves(<<c>>, "arrived")
    /\ UNCHANGED <<attempt, hop>>

\* The mutex of the flight, which only client lookups take: nobody else
\* with the hash is past it here.
FlightFree(P) ==
    \A Q \in Lookups \ {P} :
        /\ At(Q) = At(P) /\ Hash[Q[1]] = Hash[P[1]] /\ hop[Q] = "Client"
        => handler[Q] # "permit" /\ ~Running(Q)

\* resolve, up to the race, if no cache knows the path.  A lookup of a peer's
\* peer goes no further; a client's takes its flight and queues for a permit;
\* a peer's races.
Resolve(P) ==
    /\ handler[P] = "arrived"
    /\ \/ /\ hop[P] = "PeerOfPeer"
          /\ Moves(P, "done")
       \/ /\ hop[P] = "Client"
          /\ FlightFree(P)
          /\ Moves(P, "permit")
       \/ /\ hop[P] = "Peer"
          /\ Moves(P, "group")
    /\ UNCHANGED <<attempt, hop>>

\* resolve_cached knows the answer.
Cached(P) ==
    /\ handler[P] = "arrived"
    /\ Moves(P, "done")
    /\ UNCHANGED <<attempt, hop>>

\* The race permits in use at P's instance.
Permits(P) ==
    {Q \in Lookups : At(Q) = At(P) /\ hop[Q] = "Client" /\ Running(Q)}

TakePermit(P) ==
    /\ handler[P] = "permit"
    /\ Cardinality(Permits(P)) < RaceLimit
    /\ Moves(P, "group")
    /\ UNCHANGED <<attempt, hop>>

\* race_group with some of the instances among its upstreams: an attempt for
\* each, in front of its gate.
RaceGroup(P) ==
    /\ handler[P] = "group"
    /\ \E G \in SUBSET Due(P) \ {{}} :
           attempt' = [Q \in Lookups |-> IF Q \in G THEN "gate"
                                         ELSE attempt[Q]]
    /\ Moves(P, "race")
    /\ UNCHANGED hop

\* There is no other group.
NoGroup(P) ==
    /\ handler[P] = "group"
    /\ Moves(P, "done")
    /\ UNCHANGED <<attempt, hop>>

\* Mutant: one gate for each upstream.
SharedGate(Q) ==
    {R \in Lookups :
        /\ attempt[R] = "head"
        /\ At(Parent(R)) = At(Parent(Q))
        /\ At(R) = At(Q)}

\* The permits in use of the gate that attempt Q needs: upstream_gate keeps
\* one for each upstream and hop.
Gate(Q) ==
    {R \in Lookups :
        /\ attempt[R] = "head"
        /\ At(Parent(R)) = At(Parent(Q))
        /\ At(R) = At(Q)
        /\ hop[Parent(R)] = hop[Parent(Q)]}

\* The request of Q reaches its instance.
Reaches(Q) ==
    /\ Moves(Q, "arrived")
    /\ hop' = [hop EXCEPT ![Q] = PassedOn(hop[Parent(Q)])]

Send(Q) ==
    /\ attempt[Q] = "gate"
    /\ Cardinality(Gate(Q)) < GateLimit
    /\ attempt' = [attempt EXCEPT ![Q] = "head"]
    /\ Reaches(Q)

\* The request's sender ends its part: it has the answer, or its timeout
\* passed.
Ends(Q) ==
    /\ attempt[Q] \in {"head", "get"}
    /\ attempt' = [attempt EXCEPT ![Q] = "over"]
    /\ UNCHANGED <<handler, hop>>

Answered(Q) == handler[Q] = "done" /\ Ends(Q)
TimesOut(Q) == handler[Q] # "done" /\ Ends(Q)

\* P's attempts that are under way.
Busy(P) == {Q \in Children[P] : attempt[Q] \in {"gate", "head", "get"}}

\* P drops its attempts, with the gate permits they hold, and will send no
\* other request to the instances N.  Handlers of what was sent go on.
Dropped(P, N) ==
    [Q \in Lookups |->
        IF Q \in Busy(P) \/ (Q \in Children[P] /\ At(Q) \in N) THEN "over"
        ELSE attempt[Q]]

\* The group of the race is through: the next has other upstreams.
NextGroup(P) ==
    /\ handler[P] = "race"
    /\ Moves(P, "group")
    /\ attempt' = Dropped(P, {At(Q) : Q \in Children[P] \ Unsent(P)})
    /\ UNCHANGED hop

\* All attempts have ended and none has won; or the group's deadline passes.
NoneWins(P) == NextGroup(P) /\ Busy(P) = {}
Deadline(P) == NextGroup(P) /\ Busy(P) # {}

\* Mutant: the other attempts are left to themselves.
WinAlone(P) ==
    /\ handler[P] = "race"
    /\ \E Q \in Due(P) :
           /\ attempt' = [attempt EXCEPT ![Q] = "get"]
           /\ handler' = [handler EXCEPT ![P] = "commit", ![Q] = "arrived"]
           /\ hop' = [hop EXCEPT ![Q] = PassedOn(hop[P])]

\* An upstream has the path: the other attempts are dropped, and
\* commit_winner sends it a GET, which passes no gate.
Win(P) ==
    /\ handler[P] = "race"
    /\ \E Q \in Due(P) :
           /\ attempt' = [Dropped(P, {At(Q)}) EXCEPT ![Q] = "get"]
           /\ handler' = [handler EXCEPT ![P] = "commit", ![Q] = "arrived"]
           /\ hop' = [hop EXCEPT ![Q] = PassedOn(hop[P])]

\* The GET has ended: the narinfo is accepted, or the others are raced.
Commit(P) ==
    /\ handler[P] = "commit"
    /\ Busy(P) = {}
    /\ \E s \in {"done", "group"} : Moves(P, s)
    /\ UNCHANGED <<attempt, hop>>

\* P's client has gone, or its handler notices that its request was dropped:
\* it is dropped itself, with its attempts.
Drop(P) ==
    /\ Open(P)
    /\ Len(P) = 1 \/ attempt[P] = "over"
    /\ Moves(P, "done")
    /\ attempt' = Dropped(P, {})
    /\ UNCHANGED hop

Step(P) ==
    \/ Resolve(P)
    \/ TakePermit(P)
    \/ RaceGroup(P)
    \/ NoGroup(P)
    \/ Send(P)
    \/ Answered(P)
    \/ NoneWins(P)
    \/ Commit(P)

Chance(P) ==
    \/ Cached(P)
    \/ TimesOut(P)
    \/ Deadline(P)
    \/ Win(P)
    \/ Drop(P)

Next ==
    \/ \E c \in Clients : Arrive(c)
    \/ \E P \in Lookups : Step(P) \/ Chance(P)

\* While some task can go on, one does: less than the schedulers, the
\* semaphores and the mutexes give, but no lookup goes on for ever.  Nothing
\* makes an upstream have the path, a deadline pass or a handler notice that
\* nobody waits for it.
Fairness == WF_vars(\E P \in Lookups : Step(P))

Spec == Init /\ [][Next]_vars /\ Fairness

---------------------------------------------------------------------------
(* Properties *)

\* Types, and that an instance keeps no attempt, and no permit of a gate,
\* for a race that is over.
TypeOK ==
    /\ handler \in [Lookups -> {"idle", "arrived", "permit", "group", "race",
                                "commit", "done"}]
    /\ attempt \in [Lookups -> {"none", "gate", "head", "get", "over"}]
    /\ hop \in [Lookups -> {"Client", "Peer", "PeerOfPeer"}]
    /\ \A Q \in Lookups :
           /\ attempt[Q] \in {"gate", "head"} => handler[Parent(Q)] = "race"
           /\ attempt[Q] = "get" => handler[Parent(Q)] = "commit"

\* A lookup never goes in circles: at most two instances race for it, and
\* the third one it reaches answers from its caches.
HopsBounded ==
    \A P \in Lookups :
        /\ Running(P) => Len(P) <= 2
        /\ handler[P] # "idle" => Len(P) <= 3

\* Everybody is answered without any deadline: the instances' gates, permits
\* and flights, and what is still held for lookups that were dropped, never
\* make lookups wait for each other in a circle.
LookupsAnswered ==
    \A c \in Clients : handler[<<c>>] = "arrived" ~> handler[<<c>>] = "done"
===========================================================================
