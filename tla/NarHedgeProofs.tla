--------------------------- MODULE NarHedgeProofs ---------------------------
(***************************************************************************)
(* The safety properties of NarHedge and of Realisation, for any upstreams,*)
(* priorities, keys and settings: of a NAR request, and of a request of    *)
(* either kind.                                                            *)
(***************************************************************************)
EXTENDS Realisation, FiniteSetTheorems, TLAPS

\* Where the request stands: nothing has been asked before the lookup, and
\* nothing is left over after the hedging.
Stages ==
    /\ stage = "lookup" =>
           /\ \A u \in Upstreams : asks[u] = 0 /\ answer[u] = "none"
           /\ first = NoUpstream
    /\ stage # "hedge" => running = {} /\ candidates = {}
    /\ stage = "hedge" => first \in Upstreams
    /\ stage # "done" => outcome = "none"

\* A candidate that waits has not been asked, and takes hedges.
Waiting ==
    \A u \in candidates :
        /\ asks[u] = 0 /\ answer[u] = "none"
        /\ u \notin OptOut /\ u # first /\ u \notin running

\* While the hedging lasts nobody is forgotten: whoever the request could
\* use waits, runs or has failed.
Accounted ==
    stage = "hedge" =>
        \A u \in (eligible \ OptOut) \cup {first} :
            \/ u \in candidates
            \/ u \in running
            \/ asks[u] > 0 /\ answer[u] \in Failures

\* The inductive invariant but for the number of attempts.
HedgeInv ==
    /\ TypeOK
    /\ Stages
    /\ Waiting
    /\ Accounted
    /\ AskedOnce
    /\ OptOutsNotHedged
    /\ FallbackLast

\* A request that has not begun satisfies the invariant.
LEMMA HedgeInit == Init => HedgeInv
  <1> SUFFICES ASSUME Init PROVE HedgeInv
    OBVIOUS
  <1>1. TypeOK
    <2>1. asks \in [Upstreams -> Nat]
      BY DEF Init
    <2>2. answer \in [Upstreams -> {"none", "won"} \cup Failures]
      BY DEF Init
    <2> QED
      BY <2>1, <2>2 DEF Init, TypeOK
  <1>2. Stages /\ Waiting /\ Accounted
    BY DEF Init, Stages, Waiting, Accounted
  <1>3. AskedOnce /\ OptOutsNotHedged
    BY UpstreamsAssumption DEF Init, AskedOnce, OptOutsNotHedged
  <1>4. FallbackLast
    BY DEF Init, FallbackLast
  <1> QED
    BY <1>1, <1>2, <1>3, <1>4 DEF HedgeInv

\* hedged_nar may begin with any upstream and any others that take hedges.
LEMMA HedgedKeeps ==
    ASSUME HedgeInv, stage = "lookup",
           NEW u \in Upstreams, NEW E \in SUBSET Upstreams,
           Hedged(u, (E \ OptOut) \ {u}),
           eligible' = E, routed' \in BOOLEAN,
           UNCHANGED <<settings, outcome, answer>>
    PROVE  HedgeInv'
  <1> USE UpstreamsAssumption, InflightAssumption
          DEF HedgeInv, TypeOK, Stages, settings, Failures
  <1>1. \A v \in Upstreams : asks[v] = 0 /\ answer[v] = "none"
    OBVIOUS
  <1>2. /\ asks' \in [Upstreams -> Nat]
        /\ \A v \in Upstreams : asks'[v] = IF v \in running' THEN 1 ELSE 0
        /\ running' \cup candidates' = {u} \cup (E \ OptOut)
        /\ running' \cap candidates' = {}
        /\ u \in running'
        /\ running' = {u} \/ candidates' = {}
    <2>1. CASE method = "HEAD" /\ hedging
      BY <1>1, <2>1 DEF Hedged, Spawn
    <2>2. CASE ~(method = "HEAD" /\ hedging)
      BY <1>1, <2>2 DEF Hedged, Spawn
    <2> QED BY <2>1, <2>2
  <1>3. stage' = "hedge" /\ first' = u
    BY DEF Hedged
  <1>4. TypeOK'
    BY <1>1, <1>2, <1>3
  <1>5. Stages' /\ Waiting' /\ Accounted' /\ AskedOnce'
    BY <1>1, <1>2, <1>3 DEF Waiting, Accounted, AskedOnce
  <1>6. OptOutsNotHedged' /\ FallbackLast'
    BY <1>1, <1>2, <1>3
       DEF OptOutsNotHedged, FallbackLast
  <1> QED
    BY <1>4, <1>5, <1>6

\* Every step of the request keeps the invariant.
LEMMA HedgeInvStep == HedgeInv /\ [Next]_vars => HedgeInv'
  <1> SUFFICES ASSUME HedgeInv, [Next]_vars PROVE HedgeInv'
    OBVIOUS
  <1> USE UpstreamsAssumption, InflightAssumption
  <1>1. ASSUME NEW E \in SUBSET Upstreams, NEW u \in Upstreams, Routed(u, E)
        PROVE  HedgeInv'
    BY <1>1, HedgedKeeps DEF Routed
  <1>2. ASSUME NEW E \in SUBSET Upstreams, Unrouted(E)
        PROVE  HedgeInv'
    <2>1. CASE E # {}
      <3>1. PICK u \in Foremost(E) : Hedged(u, (E \ {u}) \ OptOut)
        BY <1>2, <2>1 DEF Unrouted
      <3>2. u \in Upstreams /\ (E \ {u}) \ OptOut = (E \ OptOut) \ {u}
        BY DEF Foremost
      <3> QED
        BY <1>2, <3>1, <3>2, HedgedKeeps
           DEF Unrouted, HedgeInv, TypeOK
    <2>2. CASE E = {}
      BY <1>2, <2>2
         DEF Unrouted, Hedged, HedgeInv, TypeOK, Stages, Waiting, Accounted,
             AskedOnce, OptOutsNotHedged, FallbackLast,
             settings, Failures
    <2> QED BY <2>1, <2>2
  <1> USE DEF HedgeInv, TypeOK, Stages, Waiting, Accounted, AskedOnce,
              OptOutsNotHedged, FallbackLast, settings,
              Failures
  <1>3. ASSUME NEW u \in Upstreams, AttemptWins(u)
        PROVE  HedgeInv'
    BY <1>3 DEF AttemptWins
  <1>4. ASSUME NEW u \in Upstreams, AttemptFails(u)
        PROVE  HedgeInv'
    <2>1. CASE candidates = {}
      BY <1>4, <2>1 DEF AttemptFails, Foremost
    <2>2. ASSUME NEW v \in Foremost(candidates),
                 running' = (running \ {u}) \cup {v},
                 candidates' = candidates \ {v},
                 Spawn({v})
          PROVE  HedgeInv'
      BY <1>4, <2>2 DEF AttemptFails, Foremost, Spawn
    <2> QED BY <1>4, <2>1, <2>2 DEF AttemptFails
  <1>5. ASSUME NEW u \in Upstreams, AttemptPanics(u)
        PROVE  HedgeInv'
    BY <1>5 DEF AttemptPanics
  <1>6. CASE Hedge
    <2>1. PICK v \in Foremost(candidates) :
              /\ running' = running \cup {v}
              /\ candidates' = candidates \ {v}
              /\ Spawn({v})
      BY <1>6 DEF Hedge
    <2> QED BY <1>6, <2>1 DEF Hedge, Foremost, Spawn
  <1>7. CASE GiveUp
    BY <1>7 DEF GiveUp
  <1>8. CASE SelectPanics
    BY <1>8 DEF SelectPanics
  <1>9. CASE Fallback
    BY <1>9 DEF Fallback
  <1>10. CASE Cancel
    BY <1>10 DEF Cancel
  <1>11. CASE UNCHANGED vars
    BY <1>11 DEF vars
  <1> QED
    BY <1>1, <1>2, <1>3, <1>4, <1>5, <1>6, <1>7, <1>8, <1>9, <1>10, <1>11
       DEF Next, Lookup, Attempt

\* The invariant holds of every request.
THEOREM HedgeInvariant == Spec => []HedgeInv
  <1>1. Init => HedgeInv
    BY HedgeInit
  <1>2. HedgeInv /\ [Next]_vars => HedgeInv'
    BY HedgeInvStep
  <1> QED
    BY <1>1, <1>2, PTL DEF Spec

\* Type correctness, for any number of upstreams.
THEOREM HedgeTypeCorrect == Spec => []TypeOK
  BY HedgeInvariant, PTL DEF HedgeInv

\* However attempts fail, panic and are replaced, nobody is asked twice.
THEOREM HedgeAskedOnce == Spec => []AskedOnce
  BY HedgeInvariant, PTL DEF HedgeInv

\* allow_hedging = false is honoured on every path into hedged_nar.
THEOREM HedgeOptOuts == Spec => []OptOutsNotHedged
  BY HedgeInvariant, PTL DEF HedgeInv

\* The fallback cache is the last resort of nar.
THEOREM HedgeFallbackLast == Spec => []FallbackLast
  BY HedgeInvariant, PTL DEF HedgeInv

---------------------------------------------------------------------------
(* The number of attempts *)

Limit == IF hedging THEN max_inflight ELSE 1

\* A download has finitely many attempts under way, and at most Limit.
InflightInv ==
    method = "GET" => IsFiniteSet(running) /\ Cardinality(running) <= Limit

\* An attempt that replaces another does not add to the number.
LEMMA Replaced ==
    ASSUME NEW S, IsFiniteSet(S), NEW u \in S, NEW v
    PROVE  /\ IsFiniteSet((S \ {u}) \cup {v})
           /\ Cardinality((S \ {u}) \cup {v}) <= Cardinality(S)
  <1>1. /\ IsFiniteSet(S \ {u})
        /\ Cardinality(S \ {u}) = Cardinality(S) - 1
    BY FS_RemoveElement
  <1>2. /\ IsFiniteSet((S \ {u}) \cup {v})
        /\ \/ Cardinality((S \ {u}) \cup {v}) = Cardinality(S \ {u}) + 1
           \/ Cardinality((S \ {u}) \cup {v}) = Cardinality(S \ {u})
    BY <1>1, FS_AddElement
  <1>3. Cardinality(S) \in Nat
    BY FS_CardinalityType
  <1> QED
    BY <1>1, <1>2, <1>3

\* Only the timer and a failure start attempts once hedged_nar has begun; the
\* one looks at the limit first and the other makes room.
LEMMA InflightStep ==
    HedgeInv /\ InflightInv /\ [Next]_vars => InflightInv'
  <1> SUFFICES ASSUME HedgeInv, InflightInv, [Next]_vars, method' = "GET"
               PROVE  IsFiniteSet(running') /\ Cardinality(running') <= Limit'
    BY DEF InflightInv
  <1>0. method = "GET" /\ Limit' = Limit
    <2>1. UNCHANGED settings
      BY DEF Next, Lookup, Attempt, Routed, Unrouted, AttemptWins,
             AttemptFails, AttemptPanics, Hedge, GiveUp, SelectPanics,
             Fallback, Cancel, vars
    <2> QED
      BY <2>1 DEF settings, Limit
  <1>1. Limit \in Nat /\ 1 <= Limit
    BY InflightAssumption DEF HedgeInv, TypeOK, Limit
  <1>2. IsFiniteSet(running) /\ Cardinality(running) <= Limit
    BY <1>0 DEF InflightInv
  <1>3. IsFiniteSet({}) /\ Cardinality({}) = 0
    BY FS_EmptySet
  <1>4. ASSUME NEW u, NEW others, Hedged(u, others)
        PROVE  IsFiniteSet(running') /\ Cardinality(running') <= Limit'
    <2>1. running' = {u}
      BY <1>0, <1>4 DEF Hedged
    <2> QED
      BY <1>0, <1>1, <2>1, FS_Singleton
  <1>5. ASSUME NEW u \in Upstreams, AttemptFails(u)
        PROVE  IsFiniteSet(running') /\ Cardinality(running') <= Limit'
    <2>1. u \in running
      BY <1>5 DEF AttemptFails
    <2>2. CASE running' = running \ {u}
      <3>1. /\ IsFiniteSet(running')
            /\ Cardinality(running') = Cardinality(running) - 1
        BY <1>2, <2>1, <2>2, FS_RemoveElement
      <3> QED
        BY <1>0, <1>1, <1>2, <3>1, FS_CardinalityType
    <2>3. CASE \E v \in Foremost(candidates) :
                 running' = (running \ {u}) \cup {v}
      <3>1. PICK v : running' = (running \ {u}) \cup {v}
        BY <2>3
      <3>2. /\ IsFiniteSet(running')
            /\ Cardinality(running') <= Cardinality(running)
        BY <1>2, <2>1, <3>1, Replaced
      <3> QED
        BY <1>0, <1>1, <1>2, <3>2, FS_CardinalityType
    <2> QED
      BY <1>5, <2>2, <2>3 DEF AttemptFails
  <1>6. ASSUME NEW u \in Upstreams, AttemptPanics(u)
        PROVE  IsFiniteSet(running') /\ Cardinality(running') <= Limit'
    <2>1. u \in running /\ running' = running \ {u}
      BY <1>6 DEF AttemptPanics
    <2>2. /\ IsFiniteSet(running')
          /\ Cardinality(running') = Cardinality(running) - 1
      BY <1>2, <2>1, FS_RemoveElement
    <2> QED
      BY <1>0, <1>1, <1>2, <2>2, FS_CardinalityType
  <1>7. CASE Hedge
    <2>1. Cardinality(running) < Limit
      BY <1>7 DEF Hedge, Limit
    <2>2. PICK v : running' = running \cup {v}
      BY <1>7 DEF Hedge
    <2>3. /\ IsFiniteSet(running')
          /\ \/ Cardinality(running') = Cardinality(running)
             \/ Cardinality(running') = Cardinality(running) + 1
      BY <1>2, <2>2, FS_AddElement
    <2> QED
      BY <1>0, <1>1, <1>2, <2>1, <2>3, FS_CardinalityType
  <1>8. CASE running' = {}
    BY <1>0, <1>1, <1>3, <1>8
  <1>9. CASE running' = running
    BY <1>0, <1>2, <1>9
  <1> QED
    BY <1>4, <1>5, <1>6, <1>7, <1>8, <1>9
       DEF Next, Lookup, Attempt, Routed, Unrouted, AttemptWins, GiveUp,
           SelectPanics, Fallback, Cancel, vars

\* max_inflight bounds a download, whatever the number of upstreams and the
\* order in which the timer, failures and panics come.
THEOREM HedgeInflightBounded == Spec => []InflightBounded
  <1>1. Init => InflightInv
    BY FS_EmptySet, InflightAssumption DEF Init, InflightInv, Limit
  <1>2. InflightInv => InflightBounded
    BY DEF InflightInv, InflightBounded, Limit
  <1>3. HedgeInv /\ InflightInv /\ [Next]_vars => InflightInv'
    BY InflightStep
  <1> QED
    BY <1>1, <1>2, <1>3, HedgeInvariant, PTL DEF Spec

---------------------------------------------------------------------------
(* Realisations: the answers are counted right *)

Answers == {"found", "missing", "failed"}
Denials(f) == {u \in Sources : f[u] = "missing"}
Answered(f) == {u \in Sources : f[u] # "none"}

\* The counters of the handler count answers: asked those that have come and
\* those that are to come, misses the denials among them.
CountInv ==
    /\ attempts \subseteq Upstreams
    /\ asked \in Nat
    /\ said \in [Sources -> Answers \cup {"none"}]
    /\ misses = Cardinality(Denials(said))
    /\ \A u \in attempts : said[u] = "none"
    /\ request \in {"nar", "realisation"}
    /\ request = "nar" => attempts = {}
    /\ request = "realisation" =>
           /\ stage \in {"lookup", "hedge"} => said["fallback"] = "none"
           /\ stage = "lookup" =>
                  asked = 0 /\ attempts = {} /\ Answered(said) = {}
           /\ stage = "fallback" => attempts = {}
           /\ stage \in {"hedge", "fallback"} =>
                  asked = Cardinality(attempts) + Cardinality(Answered(said))

LEMMA SourcesFinite ==
    /\ IsFiniteSet(Sources)
    /\ \A S : S \subseteq Sources => IsFiniteSet(S) /\ Cardinality(S) \in Nat
<1>1. IsFiniteSet(Sources)
  BY SourcesAssumption, FS_AddElement DEF Sources
<1>2. ASSUME NEW S, S \subseteq Sources
      PROVE  IsFiniteSet(S) /\ Cardinality(S) \in Nat
  BY <1>1, <1>2, FS_Subset, FS_CardinalityType
<1> QED
  BY <1>1, <1>2

\* One more source answers.
LEMMA OneMoreElement ==
    ASSUME NEW S, S \subseteq Sources, NEW u \in Sources, u \notin S
    PROVE  Cardinality(S \cup {u}) = Cardinality(S) + 1
  BY SourcesFinite, FS_AddElement

LEMMA OneMoreAnswer ==
    ASSUME said \in [Sources -> Answers \cup {"none"}], NEW u \in Sources,
           said[u] = "none", NEW a \in Answers,
           said' = [said EXCEPT ![u] = a],
           misses = Cardinality(Denials(said)),
           misses' = IF a = "missing" THEN misses + 1 ELSE misses
    PROVE  /\ said' \in [Sources -> Answers \cup {"none"}]
           /\ Cardinality(Answered(said')) = Cardinality(Answered(said)) + 1
           /\ misses' = Cardinality(Denials(said'))
<1>1. said' \in [Sources -> Answers \cup {"none"}]
  OBVIOUS
<1>2. /\ Answered(said) \subseteq Sources /\ Denials(said) \subseteq Sources
      /\ u \notin Answered(said) /\ u \notin Denials(said)
  BY DEF Answered, Denials
<1>3. Answered(said') = Answered(said) \cup {u}
  BY DEF Answered, Answers
<1>4. a = "missing" => Denials(said') = Denials(said) \cup {u}
  BY DEF Denials
<1>5. a # "missing" => Denials(said') = Denials(said)
  BY DEF Denials
<1>6. /\ Cardinality(Answered(said) \cup {u}) = Cardinality(Answered(said)) + 1
      /\ Cardinality(Denials(said) \cup {u}) = Cardinality(Denials(said)) + 1
  BY <1>2, OneMoreElement
<1>7. CASE a = "missing"
  BY <1>1, <1>3, <1>4, <1>6, <1>7
<1>8. CASE a # "missing"
  BY <1>1, <1>3, <1>5, <1>6, <1>8
<1> QED
  BY <1>7, <1>8

\* An attempt leaves the set.
LEMMA OneAttemptLess ==
    ASSUME NEW S, S \subseteq Upstreams, NEW u \in S
    PROVE  /\ Cardinality(S \ {u}) = Cardinality(S) - 1
           /\ Cardinality(S) \in Nat
<1>1. S \subseteq Sources
  BY DEF Sources
<1> QED
  BY <1>1, SourcesFinite, FS_RemoveElement

LEMMA NoneAnswered ==
    /\ Answered([u \in Sources |-> "none"]) = {}
    /\ Denials([u \in Sources |-> "none"]) = {}
    /\ Cardinality({}) = 0
  BY FS_EmptySet DEF Answered, Denials

LEMMA CountInit == ServerInit => CountInv
  BY NoneAnswered DEF ServerInit, CountInv, Init, Answers, Sources

LEMMA CountStep == CountInv /\ [ServerNext]_serverVars => CountInv'
<1> SUFFICES ASSUME CountInv, [ServerNext]_serverVars
             PROVE  CountInv'
  OBVIOUS
<1> USE DEF CountInv
<1>1. /\ Upstreams \subseteq Sources /\ "fallback" \in Sources
      /\ misses \in Nat
      /\ Cardinality(Answered(said)) \in Nat
      /\ Cardinality(attempts) \in Nat
      /\ Cardinality({}) = 0
  <2>1. /\ Denials(said) \subseteq Sources /\ Answered(said) \subseteq Sources
        /\ Upstreams \subseteq Sources /\ "fallback" \in Sources
    BY DEF Denials, Answered, Sources
  <2> QED
    BY <2>1, SourcesFinite, FS_EmptySet
<1>2. CASE Nar /\ Next
  BY <1>2 DEF Nar, realisationVars, trace
<1>3. CASE Refuse
  BY <1>3 DEF Refuse, Respond, trace
<1>4. ASSUME NEW up \in SUBSET Upstreams, Ask(up)
      PROVE  CountInv'
  <2>1. attempts' \subseteq Upstreams /\ attempts' \subseteq Sources
    BY <1>4, <1>1, PublishersAssumption DEF Ask
  <2>2. Cardinality(attempts') \in Nat
    BY <2>1, SourcesFinite
  <2>3. /\ request' = "realisation" /\ stage' = "hedge"
        /\ said' = said /\ misses' = misses
        /\ asked' = Cardinality(attempts')
        /\ Answered(said) = {} /\ said["fallback"] = "none"
    BY <1>4 DEF Ask, trace
  <2>4. \A u \in attempts' : said'[u] = "none"
    BY <2>1, <2>3 DEF Answered
  <2> QED
    BY <1>1, <2>1, <2>2, <2>3, <2>4
<1>5. ASSUME NEW u \in Upstreams, u \in attempts, NEW a \in Answers,
             stage = "hedge",
             said' = [said EXCEPT ![u] = a],
             misses' = IF a = "missing" THEN misses + 1 ELSE misses,
             asked' = asked, UNCHANGED trace,
             \/ stage' = "done" /\ attempts' = {}
             \/ stage' = "hedge" /\ attempts' = attempts \ {u}
      PROVE  CountInv'
  <2>1. request = "realisation" /\ request' = request
    BY <1>5 DEF trace
  <2>2. u \in Sources /\ said[u] = "none" /\ u # "fallback"
    BY <1>5, <1>1, SourcesAssumption
  <2>3. /\ said' \in [Sources -> Answers \cup {"none"}]
        /\ Cardinality(Answered(said')) = Cardinality(Answered(said)) + 1
        /\ misses' = Cardinality(Denials(said'))
    BY <1>5, <2>2, OneMoreAnswer
  <2>4. /\ Cardinality(attempts \ {u}) = Cardinality(attempts) - 1
        /\ said'["fallback"] = "none"
    BY <1>5, <1>1, <2>1, <2>2, OneAttemptLess
  <2>5. attempts' \subseteq Upstreams /\ \A v \in attempts' : said'[v] = "none"
    BY <1>5, <1>1, <2>2
  <2>6. CASE stage' = "done" /\ attempts' = {}
    BY <1>5, <2>1, <2>3, <2>5, <2>6
  <2>7. CASE stage' = "hedge" /\ attempts' = attempts \ {u}
    <3>1. asked' = Cardinality(attempts') + Cardinality(Answered(said'))
      BY <1>5, <1>1, <2>1, <2>3, <2>4, <2>7
    <3> QED
      BY <1>5, <2>1, <2>3, <2>4, <2>5, <2>7, <3>1
  <2> QED
    BY <1>5, <2>6, <2>7
<1>6. CASE Reply
  <2>1. PICK u \in Upstreams : \/ \E body \in Bodies : Found(u, body)
                              \/ Missing(u)
                              \/ Failed(u)
    BY <1>6 DEF Reply
  <2>2. CASE \E body \in Bodies : Found(u, body)
    BY <2>2, <1>5 DEF Found, Respond, Answers
  <2>3. CASE Missing(u)
    BY <2>3, <1>5 DEF Missing, Answers
  <2>4. CASE Failed(u)
    BY <2>4, <1>5 DEF Failed, Answers
  <2> QED
    BY <2>1, <2>2, <2>3, <2>4
<1>7. CASE AskFallback
  <2>1. request = "realisation" /\ stage = "hedge" /\ attempts = {}
    BY <1>7 DEF AskFallback
  <2>2. CASE ~fallback
    BY <1>7, <2>1, <2>2 DEF AskFallback, trace
  <2>3. CASE fallback
    <3>1. PICK a \in Answers :
             /\ said' = [said EXCEPT !["fallback"] = a]
             /\ misses' = IF a = "missing" THEN misses + 1 ELSE misses
             /\ stage' \in {"done", "fallback"} /\ attempts' = {}
      BY <1>7, <2>1, <2>3 DEF AskFallback, Respond, Answers
    <3>2. asked' = asked + 1 /\ UNCHANGED trace
      BY <1>7, <2>3 DEF AskFallback
    <3>3. /\ said' \in [Sources -> Answers \cup {"none"}]
          /\ Cardinality(Answered(said')) = Cardinality(Answered(said)) + 1
          /\ misses' = Cardinality(Denials(said'))
      BY <3>1, <1>1, <2>1, OneMoreAnswer
    <3>4. /\ request' = "realisation" /\ asked' \in Nat
          /\ asked' = Cardinality(attempts') + Cardinality(Answered(said'))
      BY <3>1, <3>2, <3>3, <1>1, <2>1 DEF trace
    <3> QED
      BY <3>1, <3>3, <3>4
  <2> QED
    BY <2>2, <2>3
<1>8. CASE Remember
  BY <1>8 DEF Remember, Respond, trace
<1>9. CASE Leave
  BY <1>9 DEF Leave, Respond, trace
<1>10. CASE UNCHANGED serverVars
  BY <1>10 DEF serverVars, realisationVars, trace, vars
<1> QED
  BY <1>2, <1>3, <1>4, <1>6, <1>7, <1>8, <1>9, <1>10 DEF ServerNext, Realise

\* When all answers are in and all are denials, nobody has said anything else.
LEMMA AllDenied ==
    ASSUME CountInv, request = "realisation", stage = "fallback",
           misses = asked
    PROVE  /\ \A u \in Sources : said[u] \in {"none", "missing"}
           /\ Cardinality({u \in Sources : said[u] = "missing"}) = asked
<1>1. /\ Denials(said) \in SUBSET Answered(said)
      /\ Answered(said) \subseteq Sources
  BY DEF Denials, Answered
<1>2. Cardinality(Denials(said)) = Cardinality(Answered(said))
  BY <1>1, SourcesFinite, FS_EmptySet DEF CountInv
<1>3. Denials(said) = Answered(said)
  BY <1>1, <1>2, SourcesFinite, FS_Subset
<1> QED
  BY <1>2, <1>3 DEF Denials, Answered, CountInv

\* For any upstreams, keys and answers, in any order and with a client that
\* may leave at any time: what the handler remembers as missing, everybody it
\* asked has denied.
THEOREM NegativeJustifiedTheorem == ServerSpec => NegativeJustified
<1>1. ServerInit => CountInv
  BY CountInit
<1>2. CountInv /\ [ServerNext]_serverVars => CountInv'
  BY CountStep
<1>3. ServerInit => negative \in BOOLEAN
  BY DEF ServerInit
<1>4. negative \in BOOLEAN /\ [ServerNext]_serverVars =>
         (negative \in BOOLEAN)'
  <2>1. [ServerNext]_serverVars => negative' = negative \/ negative' \in BOOLEAN
    BY DEF ServerNext, Realise, Reply, Nar, realisationVars, serverVars, trace,
           Refuse, Ask, Found, Missing, Failed, AskFallback, Leave, Remember
  <2> QED
    BY <2>1, Zenon
<1>5. CountInv /\ negative \in BOOLEAN /\ [ServerNext]_serverVars =>
         [negative' # negative =>
              /\ hop = "Client"
              /\ \A u \in Sources : said[u] \in {"none", "missing"}
              /\ Cardinality({u \in Sources : said[u] = "missing"})
                     = asked]_negative
  <2> SUFFICES ASSUME CountInv, negative \in BOOLEAN,
                      [ServerNext]_serverVars, negative' # negative
               PROVE  /\ hop = "Client"
                      /\ \A u \in Sources : said[u] \in {"none", "missing"}
                      /\ Cardinality({u \in Sources : said[u] = "missing"})
                             = asked
    OBVIOUS
  <2>1. Remember
    BY DEF ServerNext, Realise, Reply, Nar, realisationVars, serverVars, trace,
           Refuse, Ask, Found, Missing, Failed, AskFallback, Leave
  <2>2. /\ request = "realisation" /\ stage = "fallback"
        /\ hop = "Client" /\ misses = asked
    <3>1. negative' = (negative \/ (hop = "Client" /\ misses = asked))
      BY <2>1, Zenon DEF Remember
    <3>2. hop = "Client" /\ misses = asked
      BY <3>1, Zenon
    <3> QED
      BY <2>1, <3>2 DEF Remember
  <2> QED
    BY <2>2, AllDenied
<1> QED
  BY <1>1, <1>2, <1>3, <1>4, <1>5, PTL DEF ServerSpec, NegativeJustified

---------------------------------------------------------------------------
(* Requests of either kind *)

\* A realisation leaves NarHedge's part of the state as it begins, but for
\* the stage and the outcome.
Untouched ==
    /\ fallback \in BOOLEAN
    /\ method = "GET" /\ hedging = FALSE /\ max_inflight = 1
    /\ stage \in {"lookup", "hedge", "fallback", "done"}
    /\ outcome \in {"none", "served", "fallback", "NotFound", "cancelled"}
    /\ first = NoUpstream
    /\ candidates = {} /\ running = {} /\ eligible = {}
    /\ routed = FALSE
    /\ asks = [u \in Upstreams |-> 0]
    /\ answer = [u \in Upstreams |-> "none"]

ServerInv ==
    /\ request = "nar" => HedgeInv /\ InflightInv
    /\ request = "realisation" => Untouched

LEMMA ServerInitInv == ServerInit => ServerInv
<1> SUFFICES ASSUME ServerInit
             PROVE  (HedgeInv /\ InflightInv) /\ (request = "realisation" => Untouched)
  BY DEF ServerInv
<1>1. HedgeInv
  BY HedgeInit DEF ServerInit
<1>2. InflightInv
  BY FS_EmptySet, InflightAssumption DEF ServerInit, Init, InflightInv, Limit
<1>3. ASSUME request = "realisation"
      PROVE  Untouched
  <2>1. hedging = FALSE
    BY <1>3, Zenon DEF ServerInit, Init
  <2> QED
    BY <1>3, <2>1 DEF ServerInit, Init, Untouched
<1> QED
  BY <1>1, <1>2, <1>3

\* A step of a NAR request is NarHedge's; one of a realisation touches the
\* stage and the outcome only.
LEMMA ServerStepInv ==
    CountInv /\ ServerInv /\ [ServerNext]_serverVars => ServerInv'
<1> SUFFICES ASSUME CountInv, ServerInv, [ServerNext]_serverVars
             PROVE  ServerInv'
  OBVIOUS
<1>1. request' = request
  BY DEF ServerNext, Realise, Reply, Nar, realisationVars, serverVars, trace,
         Refuse, Ask, Found, Missing, Failed, AskFallback, Leave, Remember
<1>2. CASE request = "nar"
  <2>1. [Next]_vars
    BY <1>2 DEF ServerNext, Realise, Reply, Nar, serverVars, CountInv,
         Refuse, Ask, Found, Missing, Failed, AskFallback, Leave, Remember
  <2> QED
    BY <1>1, <1>2, <2>1, HedgeInvStep, InflightStep DEF ServerInv
<1>3. CASE request = "realisation"
  <2>1. /\ NarUnchanged
        /\ stage' \in {stage, "hedge", "fallback", "done"}
        /\ outcome' \in {outcome, "served", "fallback", "NotFound", "cancelled"}
    BY <1>3 DEF ServerNext, Realise, Reply, Nar, serverVars, vars, NarUnchanged,
         Refuse, Ask, Found, Missing, Failed, AskFallback, Leave, Remember,
         Respond
  <2>2. Untouched
    BY <1>3 DEF ServerInv
  <2>3. Untouched'
    BY <2>1, <2>2 DEF Untouched, NarUnchanged, settings
  <2> QED
    BY <1>1, <1>3, <2>3 DEF ServerInv
<1> QED
  BY <1>1, <1>2, <1>3 DEF CountInv

\* The properties of a NAR request hold of whatever the server is asked for:
\* the handler of realisations shares the state and breaks none of them.
THEOREM ServerSafe ==
    ServerSpec => [](/\ TypeOK /\ InflightBounded /\ AskedOnce
                     /\ OptOutsNotHedged /\ FallbackLast)
<1>1. ServerInit => CountInv /\ ServerInv
  BY CountInit, ServerInitInv
<1>2. CountInv /\ ServerInv /\ [ServerNext]_serverVars => CountInv' /\ ServerInv'
  BY CountStep, ServerStepInv
<1>3. CountInv /\ ServerInv =>
         /\ TypeOK /\ InflightBounded /\ AskedOnce
         /\ OptOutsNotHedged /\ FallbackLast
  <2> SUFFICES ASSUME CountInv, ServerInv
               PROVE  /\ TypeOK /\ InflightBounded /\ AskedOnce
                      /\ OptOutsNotHedged /\ FallbackLast
    OBVIOUS
  <2>1. CASE request = "nar"
    BY <2>1 DEF ServerInv, HedgeInv, InflightInv, InflightBounded, Limit
  <2>2. CASE request = "realisation"
    <3>1. Untouched
      BY <2>2 DEF ServerInv
    <3>2. TypeOK
      <4>1. asks \in [Upstreams -> Nat]
        BY <3>1 DEF Untouched
      <4>2. answer \in [Upstreams -> {"none", "won"} \cup Failures]
        BY <3>1 DEF Untouched
      <4>3. hedging \in BOOLEAN /\ routed \in BOOLEAN /\ fallback \in BOOLEAN
        BY <3>1, Zenon DEF Untouched
      <4> QED
        BY <3>1, <4>1, <4>2, <4>3, InflightAssumption DEF Untouched, TypeOK
    <3>3. InflightBounded
      BY <3>1, FS_EmptySet DEF Untouched, InflightBounded
    <3>4. AskedOnce /\ OptOutsNotHedged
      BY <3>1, UpstreamsAssumption DEF Untouched, AskedOnce, OptOutsNotHedged
    <3>5. FallbackLast
      BY <3>1, UpstreamsAssumption DEF Untouched, FallbackLast
    <3> QED
      BY <3>2, <3>3, <3>4, <3>5
  <2> QED
    BY <2>1, <2>2 DEF CountInv
<1> QED
  BY <1>1, <1>2, <1>3, PTL DEF ServerSpec
===========================================================================
