------------------------------ MODULE MCHops ------------------------------
(* Two instances, and clients of both that ask for one hash or another.    *)
(* The more clients come, the fewer lookups meet with a chance: a timeout, *)
(* a hit in a cache, a winner, a client that goes.                         *)
EXTENDS Hops

CONSTANTS left, right,     \* instances
          c1, c2, c3, c4,  \* clients
          same, other      \* store hashes

VARIABLES crowd,    \* the clients that come
          chances   \* the chances left

MCNodes == {left, right}
MCClients == {c1, c2, c3, c4}
MCHome == [c \in Clients |-> IF c \in {c1, c3} THEN left ELSE right]
MCHash == [c \in Clients |-> IF c = c3 THEN other ELSE same]

MCInit ==
    /\ Init
    /\ \/ crowd = {c1, c2} /\ chances = 2             \* gates both ways
       \/ crowd \in {{c1, c3}, {c2, c4}} /\ chances = 1  \* permit, flight
       \/ crowd = {c1, c2, c3} /\ chances = 0

MCNext ==
    /\ \/ (\E c \in crowd : Arrive(c)) /\ UNCHANGED chances
       \/ \E P \in Lookups :
              \/ Step(P) /\ UNCHANGED chances
              \/ chances > 0 /\ Chance(P) /\ chances' = chances - 1
    /\ UNCHANGED crowd

MCSpec == MCInit /\ [][MCNext]_<<vars, crowd, chances>> /\ Fairness
===========================================================================
