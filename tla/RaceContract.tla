--------------------------- MODULE RaceContract ---------------------------
(***************************************************************************)
(* What a narinfo race promises to Router::resolve, with nothing said      *)
(* about priority groups, attempts, deadlines or cooldowns: a lookup over  *)
(* a set of candidates ends with a vetted body of one of them, or with one *)
(* of the errors RouterError names, or is dropped by its caller.           *)
(*                                                                         *)
(* Race.tla is shown to implement it; Router.tla is built on its outcomes. *)
(***************************************************************************)

CONSTANTS
    Upstreams,    \* upstream caches, identified by url
    Bodies,       \* narinfo bodies
    NoUpstream,   \* "no winner"
    Absent,       \* "no body"
    Vetted        \* Vetted[u]: the bodies that pass u's keys and filters

VARIABLES
    racing,       \* a lookup is under way
    candidates,   \* the upstreams it was given
    outcome,      \* how the last lookup ended
    winner,       \* its upstream, if it was accepted
    served        \* and the body it returned

vars == <<racing, candidates, outcome, winner, served>>

\* RouterError, as far as a race can return it.
Errors == {"NotFound", "UpstreamUnavailable", "Db"}

Init ==
    /\ racing = FALSE
    /\ candidates = {}
    /\ outcome = "none"
    /\ winner = NoUpstream
    /\ served = Absent

Begin(C) ==
    /\ ~racing
    /\ racing' = (C # {})
    /\ candidates' = C
    /\ outcome' = IF C = {} THEN "NoCandidates" ELSE "none"
    /\ winner' = NoUpstream
    /\ served' = Absent

Accept(u, b) ==
    /\ racing
    /\ u \in candidates
    /\ b \in Vetted[u]
    /\ racing' = FALSE
    /\ outcome' = "accepted"
    /\ winner' = u
    /\ served' = b
    /\ UNCHANGED candidates

\* An error, or the caller going away before there is an answer.
Fail(e) ==
    /\ racing
    /\ racing' = FALSE
    /\ outcome' = e
    /\ UNCHANGED <<candidates, winner, served>>

End ==
    \/ \E u \in Upstreams, b \in Bodies : Accept(u, b)
    \/ \E e \in Errors \cup {"cancelled"} : Fail(e)

Next ==
    \/ \E C \in SUBSET Upstreams : Begin(C)
    \/ End

Spec == Init /\ [][Next]_vars

===========================================================================
