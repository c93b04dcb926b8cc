----------------------------- MODULE NarHedge -----------------------------
(***************************************************************************)
(* A NAR request (nar, hedge_candidates and hedged_nar of                  *)
(* crates/server/src/lib.rs).  The request starts with the upstream of the *)
(* route, or with the best upstream there is; when that one is slow or     *)
(* fails, further candidates are started, best priority first, and the     *)
(* first successful response is streamed.  When all of them have failed    *)
(* the fallback cache is asked.                                            *)
(*                                                                         *)
(* Candidates of one priority are started in order of latency, which may   *)
(* be any order here.                                                      *)
(***************************************************************************)
EXTENDS Integers, FiniteSets

CONSTANTS
    Upstreams,
    NoUpstream,
    Priority,      \* Priority[u]: the priority in u's health entry
    OptOut,        \* upstreams configured with allow_hedging = false
    MaxInflight    \* bound on the values of max_inflight

ASSUME UpstreamsAssumption ==
    /\ NoUpstream \notin Upstreams
    /\ OptOut \subseteq Upstreams

ASSUME PriorityAssumption == Priority \in [Upstreams -> Int]
ASSUME InflightAssumption == MaxInflight \in Nat \ {0}

VARIABLES
    method, hedging, max_inflight, fallback,   \* the request, the settings
    stage,        \* lookup, hedge, fallback, done
    first,        \* initial: the upstream the request starts with
    candidates,   \* those not started yet
    running,      \* attempts in the JoinSet
    outcome,
    (* history *)
    eligible,     \* tracked, not Down, and with a NAR path for the request
    routed,       \* whether there was a valid row
    asks,         \* asks[u]: attempts started
    answer        \* what came of u's attempt

settings == <<method, hedging, max_inflight, fallback>>
vars == <<settings, stage, first, candidates, running, outcome, eligible,
          routed, asks, answer>>

---------------------------------------------------------------------------

Init ==
    /\ method \in {"GET", "HEAD"}
    /\ hedging \in BOOLEAN
    /\ max_inflight \in 1..MaxInflight
    /\ fallback \in BOOLEAN
    /\ stage = "lookup"
    /\ first = NoUpstream
    /\ candidates = {}
    /\ running = {}
    /\ outcome = "none"
    /\ eligible = {}
    /\ routed = FALSE
    /\ asks = [u \in Upstreams |-> 0]
    /\ answer = [u \in Upstreams |-> "none"]

\* spawn_nar_attempt for the upstreams in S.
Spawn(S) ==
    asks' = [u \in Upstreams |-> IF u \in S THEN asks[u] + 1 ELSE asks[u]]

\* Who may be popped next: the vector is grouped by priority.
Foremost(S) == {u \in S : \A v \in S : Priority[u] <= Priority[v]}

\* hedged_nar begins.  A HEAD starts all the candidates at once.
Hedged(u, others) ==
    /\ stage' = "hedge"
    /\ first' = u
    /\ IF method = "HEAD" /\ hedging
       THEN /\ running' = {u} \cup others
            /\ candidates' = {}
            /\ Spawn({u} \cup others)
       ELSE /\ running' = {u}
            /\ candidates' = others
            /\ Spawn({u})

\* Mutant: the upstream of the route is a candidate once more.
RoutedTwice(u, E) ==
    /\ stage = "lookup"
    /\ Hedged(u, E \ OptOut)
    /\ eligible' = E
    /\ routed' = TRUE
    /\ UNCHANGED <<settings, outcome, answer>>

\* A valid row names u, tracked or not.  The candidates are the others that
\* have the same narinfo, or nobody if the row's does not parse.
Routed(u, E) ==
    /\ stage = "lookup"
    /\ Hedged(u, (E \ OptOut) \ {u})
    /\ eligible' = E
    /\ routed' = TRUE
    /\ UNCHANGED <<settings, outcome, answer>>

\* Mutant: upstreams that opted out stay in the vector.
UnroutedAll(E) ==
    /\ stage = "lookup"
    /\ \E u \in Foremost(E) : Hedged(u, E \ {u})
    /\ eligible' = E
    /\ UNCHANGED <<settings, outcome, routed, answer>>

\* No row: the best candidate goes first, also if it opted out; then the
\* others that opted out are dropped.
Unrouted(E) ==
    /\ stage = "lookup"
    /\ \/ /\ E # {}
          /\ \E u \in Foremost(E) : Hedged(u, (E \ {u}) \ OptOut)
       \/ /\ E = {}
          /\ stage' = "fallback"
          /\ UNCHANGED <<first, candidates, running, asks>>
    /\ eligible' = E
    /\ UNCHANGED <<settings, outcome, routed, answer>>

\* The first attempt with a successful response ends it all.
AttemptWins(u) ==
    /\ stage = "hedge"
    /\ u \in running
    /\ stage' = "done"
    /\ outcome' = "served"
    /\ running' = {}
    /\ candidates' = {}
    /\ answer' = [answer EXCEPT ![u] = "won"]
    /\ UNCHANGED <<settings, first, eligible, routed, asks>>

\* Mutant: the attempt that failed stays in the set.
AttemptLingers(u) ==
    /\ stage = "hedge"
    /\ u \in running
    /\ answer' = [answer EXCEPT ![u] = "failed"]
    /\ \E v \in Foremost(candidates) :
          /\ running' = running \cup {v}
          /\ candidates' = candidates \ {v}
          /\ Spawn({v})
    /\ UNCHANGED <<settings, stage, first, outcome, eligible, routed>>

\* An error, a miss or a timeout: the next candidate takes its place.
AttemptFails(u) ==
    /\ stage = "hedge"
    /\ u \in running
    /\ answer' = [answer EXCEPT ![u] = "failed"]
    /\ \/ \E v \in Foremost(candidates) :
             /\ running' = (running \ {u}) \cup {v}
             /\ candidates' = candidates \ {v}
             /\ Spawn({v})
       \/ /\ candidates = {}
          /\ running' = running \ {u}
          /\ UNCHANGED <<candidates, asks>>
    /\ UNCHANGED <<settings, stage, first, outcome, eligible, routed>>

\* A task that panics is left out and nobody takes its place.
AttemptPanics(u) ==
    /\ stage = "hedge"
    /\ u \in running
    /\ answer' = [answer EXCEPT ![u] = "panicked"]
    /\ running' = running \ {u}
    /\ UNCHANGED <<settings, stage, first, candidates, outcome, eligible,
                   routed, asks>>

\* Mutant: max_inflight is checked against the attempts before this one.
HedgeOneMore ==
    /\ stage = "hedge"
    /\ method # "HEAD" /\ hedging
    /\ Cardinality(running) <= max_inflight
    /\ \E v \in Foremost(candidates) :
          /\ running' = running \cup {v}
          /\ candidates' = candidates \ {v}
          /\ Spawn({v})
    /\ UNCHANGED <<settings, stage, first, outcome, eligible, routed, answer>>

\* Mutant: the timer only runs next to an attempt.
HedgeAlongside ==
    /\ stage = "hedge"
    /\ method # "HEAD" /\ hedging
    /\ running # {}
    /\ Cardinality(running) < max_inflight
    /\ \E v \in Foremost(candidates) :
          /\ running' = running \cup {v}
          /\ candidates' = candidates \ {v}
          /\ Spawn({v})
    /\ UNCHANGED <<settings, stage, first, outcome, eligible, routed, answer>>

\* The hedge timer fires.
Hedge ==
    /\ stage = "hedge"
    /\ method # "HEAD" /\ hedging
    /\ Cardinality(running) < max_inflight
    /\ \E v \in Foremost(candidates) :
          /\ running' = running \cup {v}
          /\ candidates' = candidates \ {v}
          /\ Spawn({v})
    /\ UNCHANGED <<settings, stage, first, outcome, eligible, routed, answer>>

\* Mutant: nothing running is enough.
GiveUpEarly ==
    /\ stage = "hedge"
    /\ running = {}
    /\ stage' = "fallback"
    /\ candidates' = {}
    /\ UNCHANGED <<settings, first, running, outcome, eligible, routed, asks,
                   answer>>

\* hedged_nar returns None.
GiveUp ==
    /\ stage = "hedge"
    /\ running = {} /\ candidates = {}
    /\ stage' = "fallback"
    /\ UNCHANGED <<settings, first, candidates, running, outcome, eligible,
                   routed, asks, answer>>

\* Both branches of select! are disabled: nothing runs and, without hedging,
\* the timer does not either.  The handler panics.
SelectPanics ==
    /\ stage = "hedge"
    /\ running = {} /\ candidates # {}
    /\ method = "HEAD" \/ ~hedging
    /\ stage' = "done"
    /\ outcome' = "panicked"
    /\ candidates' = {}
    /\ UNCHANGED <<settings, first, running, eligible, routed, asks, answer>>

\* The fallback cache, where there is one, has it or not.
Fallback ==
    /\ stage = "fallback"
    /\ stage' = "done"
    /\ outcome' \in (IF fallback THEN {"fallback", "NotFound"}
                                 ELSE {"NotFound"})
    /\ UNCHANGED <<settings, first, candidates, running, eligible, routed,
                   asks, answer>>

\* The client disconnects: the JoinSet is dropped and aborts its attempts.
Cancel ==
    /\ stage # "done"
    /\ stage' = "done"
    /\ outcome' = "cancelled"
    /\ running' = {}
    /\ candidates' = {}
    /\ UNCHANGED <<settings, first, eligible, routed, asks, answer>>

Lookup ==
    \E E \in SUBSET Upstreams :
        \/ \E u \in Upstreams : Routed(u, E)
        \/ Unrouted(E)

Attempt ==
    \E u \in Upstreams :
        AttemptWins(u) \/ AttemptFails(u) \/ AttemptPanics(u)

Next ==
    \/ Lookup
    \/ Attempt
    \/ Hedge
    \/ GiveUp
    \/ SelectPanics
    \/ Fallback
    \/ Cancel

\* Every attempt and every lookup has a timeout, and timers fire; the client
\* need not go away.
Fairness ==
    /\ WF_vars(Lookup)
    /\ WF_vars(Attempt)
    /\ WF_vars(Hedge)
    /\ WF_vars(GiveUp)
    /\ WF_vars(SelectPanics)
    /\ WF_vars(Fallback)

Spec == Init /\ [][Next]_vars /\ Fairness

---------------------------------------------------------------------------
(* Properties *)

Failures == {"failed", "panicked"}

\* Types, and that an attempt runs from the moment it is counted to the
\* moment its answer comes.
TypeOK ==
    /\ method \in {"GET", "HEAD"}
    /\ hedging \in BOOLEAN
    /\ max_inflight \in 1..MaxInflight
    /\ fallback \in BOOLEAN
    /\ stage \in {"lookup", "hedge", "fallback", "done"}
    /\ first \in Upstreams \cup {NoUpstream}
    /\ candidates \subseteq Upstreams
    /\ running \subseteq Upstreams
    /\ outcome \in {"none", "served", "fallback", "NotFound", "panicked",
                    "cancelled"}
    /\ eligible \subseteq Upstreams
    /\ routed \in BOOLEAN
    /\ asks \in [Upstreams -> Nat]
    /\ answer \in [Upstreams -> {"none", "won"} \cup Failures]
    /\ \A u \in running : asks[u] > 0 /\ answer[u] = "none"

\* A download occupies at most max_inflight upstreams at a time, and one if
\* hedging is off, counting the attempts that replace failed ones.
InflightBounded ==
    method = "GET" =>
        Cardinality(running) <= IF hedging THEN max_inflight ELSE 1

\* No upstream is asked twice for one request, however the attempts fail.
AskedOnce == \A u \in Upstreams : asks[u] <= 1

\* An upstream with allow_hedging = false is only ever asked first.
OptOutsNotHedged == \A u \in OptOut : asks[u] > 0 => u = first

\* The fallback cache is asked, and a 404 returned, only when every candidate
\* the request could use has been asked and has failed: the upstream of the
\* route and all the eligible ones that take hedges.
FallbackLast ==
    stage = "fallback" \/ outcome \in {"fallback", "NotFound"} =>
        /\ running = {}
        /\ \A u \in (eligible \ OptOut) \cup ({first} \cap Upstreams) :
               asks[u] > 0 /\ answer[u] \in Failures

\* The request is answered, unless the handler panics or the client leaves.
RequestEnds == <>(stage = "done")
===========================================================================
