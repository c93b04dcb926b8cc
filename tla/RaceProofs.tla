---------------------------- MODULE RaceProofs ----------------------------
(* Proofs that Race keeps its invariants and implements RaceContract, for  *)
(* every set of upstreams, every priority and every filter.                *)
EXTENDS Race, TLAPS

(***************************************************************************)
(* What the bookkeeping of a race under way means.  Exhausted and Verdict  *)
(* only speak of finished races, so they are not inductive: these parts    *)
(* carry the reason from group to group.                                   *)
(***************************************************************************)

\* The candidates nobody has asked are exactly the ones still waiting.
AskedOrWaiting ==
    phase # "idle" =>
        /\ effective # {}
        /\ \A u \in effective : (answer[u] = "unasked") <=> (u \in waiting)

\* The group is empty between groups, and attempts only run in a race, for
\* candidates that have not answered yet.
GroupInUse ==
    /\ phase \in {"idle", "pick"} => group = {}
    /\ phase # "race" => running = {}
    /\ group \cap waiting = {}
    /\ \A u \in running : answer[u] = "silent"

\* The one HEAD success that is not yet decided is the winner's, and the
\* attempts it aborted are those of its group.
OneWinner ==
    phase # "idle" =>
        \A u \in effective :
            /\ answer[u] = "yes" => phase = "commit" /\ u = winner
            /\ answer[u] = "aborted" => phase = "commit" /\ u \in group

\* any_not_found stands for the candidates done with, not_founds for the
\* group being raced.
MissesCounted ==
    phase # "idle" =>
        /\ any_not_found <=> \E u \in effective \ group : answer[u] = "no"
        /\ phase = "race" =>
               (not_founds > 0 <=> \E u \in group : answer[u] = "no")

RaceInv ==
    /\ TypeOK
    /\ AskedOrWaiting
    /\ GroupInUse
    /\ OneWinner
    /\ MissesCounted
    /\ Exhausted
    /\ Verdict
    /\ PriorityRespected

---------------------------------------------------------------------------

\* A new lookup starts from a clean slate.
LEMMA StartKeeps ==
    ASSUME RaceInv,
           NEW C \in SUBSET Upstreams,
           NEW known \in SUBSET C,
           Start(C, known)
    PROVE  RaceInv'
<1> USE DEF RaceInv
<1>1. TypeOK'
  BY PriorityAssumption DEF Start, TypeOK, GroupInUse, Answers, world
<1>2. AskedOrWaiting' /\ GroupInUse' /\ OneWinner' /\ MissesCounted'
      /\ Exhausted' /\ Verdict' /\ PriorityRespected'
  BY DEF Start, AskedOrWaiting, GroupInUse, OneWinner, MissesCounted,
     Exhausted, Verdict, PriorityRespected
<1>3. QED BY <1>1, <1>2

\* The foremost waiting candidates become the group: nobody waits ahead of
\* them, which is what PriorityRespected needs.
LEMMA NextGroupKeeps ==
    ASSUME RaceInv,
           NextGroup
    PROVE  RaceInv'
<1> USE DEF RaceInv
<1>1. TypeOK'
  BY DEF NextGroup, Spawn, Foremost, TypeOK, Answers, world
<1>2. AskedOrWaiting'
  BY DEF NextGroup, Spawn, Foremost, AskedOrWaiting, TypeOK
<1>3. GroupInUse'
  BY DEF NextGroup, Spawn, Foremost, GroupInUse, TypeOK
<1>4. OneWinner'
  BY DEF NextGroup, Spawn, Foremost, OneWinner, TypeOK
<1>5. MissesCounted'
  BY DEF NextGroup, Spawn, Foremost, MissesCounted, GroupInUse,
     AskedOrWaiting, TypeOK
<1>6. PriorityRespected'
  BY DEF NextGroup, Spawn, Foremost, PriorityRespected, OneWinner,
     AskedOrWaiting, Answers, TypeOK
<1>7. Exhausted' /\ Verdict'
  BY DEF NextGroup, Spawn, Foremost, Exhausted, Verdict
<1>8. QED BY <1>1, <1>2, <1>3, <1>4, <1>5, <1>6, <1>7

\* A success is the winner's, and empties the JoinSet.
LEMMA HeadWinsKeeps ==
    ASSUME RaceInv,
           NEW u \in Upstreams,
           HeadWins(u)
    PROVE  RaceInv'
<1> USE DEF RaceInv
<1>1. TypeOK'
  BY DEF HeadWins, TypeOK, Answers, world
<1>2. AskedOrWaiting'
  BY DEF HeadWins, AskedOrWaiting, GroupInUse, TypeOK
<1>3. MissesCounted'
  BY DEF HeadWins, MissesCounted, TypeOK
<1>4. PriorityRespected'
  BY DEF HeadWins, PriorityRespected, GroupInUse, TypeOK
<1>5. GroupInUse' /\ OneWinner' /\ Exhausted' /\ Verdict'
  BY DEF HeadWins, GroupInUse, OneWinner, Exhausted, Verdict, TypeOK
<1>6. QED BY <1>1, <1>2, <1>3, <1>4, <1>5

\* A 404 is counted where MissesCounted looks for it.
LEMMA HeadMissesKeeps ==
    ASSUME RaceInv,
           NEW u \in Upstreams,
           HeadMisses(u)
    PROVE  RaceInv'
<1> USE DEF RaceInv
<1>1. TypeOK'
  BY DEF HeadMisses, TypeOK, Answers, world
<1>2. AskedOrWaiting'
  BY DEF HeadMisses, AskedOrWaiting, GroupInUse
<1>3. MissesCounted'
  BY DEF HeadMisses, MissesCounted, TypeOK
<1>4. PriorityRespected'
  BY DEF HeadMisses, PriorityRespected, GroupInUse
<1>5. GroupInUse' /\ OneWinner' /\ Exhausted' /\ Verdict'
  BY DEF HeadMisses, GroupInUse, OneWinner, Exhausted, Verdict
<1>6. QED BY <1>1, <1>2, <1>3, <1>4, <1>5

\* A failed attempt was silent until now, so no 404 is lost.
LEMMA HeadFailsKeeps ==
    ASSUME RaceInv,
           NEW u \in Upstreams,
           NEW panicked \in BOOLEAN,
           HeadFails(u, panicked)
    PROVE  RaceInv'
<1> USE DEF RaceInv
<1>1. TypeOK'
  BY DEF HeadFails, TypeOK, Answers, world
<1>2. AskedOrWaiting'
  BY DEF HeadFails, AskedOrWaiting, GroupInUse
<1>3. MissesCounted'
  BY DEF HeadFails, MissesCounted, GroupInUse
<1>4. PriorityRespected'
  BY DEF HeadFails, PriorityRespected, GroupInUse
<1>5. GroupInUse' /\ OneWinner' /\ Exhausted' /\ Verdict'
  BY DEF HeadFails, GroupInUse, OneWinner, Exhausted, Verdict
<1>6. QED BY <1>1, <1>2, <1>3, <1>4, <1>5

\* The group's 404s move from not_founds to any_not_found.
LEMMA GroupEndsKeeps ==
    ASSUME RaceInv,
           GroupEnds
    PROVE  RaceInv'
<1> USE DEF RaceInv
<1>1. TypeOK'
  BY DEF GroupEnds, TypeOK, world
<1>2. MissesCounted'
  BY DEF GroupEnds, MissesCounted, TypeOK
<1>3. AskedOrWaiting' /\ GroupInUse' /\ OneWinner' /\ Exhausted' /\
      Verdict' /\ PriorityRespected'
  BY DEF GroupEnds, AskedOrWaiting, GroupInUse, OneWinner, Exhausted,
     Verdict, PriorityRespected
<1>4. QED BY <1>1, <1>2, <1>3

\* An accepted winner ends the lookup.
LEMMA CommitAcceptsKeeps ==
    ASSUME RaceInv,
           CommitAccepts
    PROVE  RaceInv'
<1> USE DEF RaceInv
<1>1. TypeOK'
  BY DEF CommitAccepts, TypeOK, GroupInUse, world
<1>2. AskedOrWaiting' /\ GroupInUse' /\ OneWinner' /\ MissesCounted'
      /\ Exhausted' /\ Verdict' /\ PriorityRespected'
  BY DEF CommitAccepts, AskedOrWaiting, GroupInUse, OneWinner,
     MissesCounted, Exhausted, Verdict, PriorityRespected
<1>3. QED BY <1>1, <1>2

\* A refused winner leaves the group with a "no".
LEMMA CommitRefusedKeeps ==
    ASSUME RaceInv,
           CommitRefused
    PROVE  RaceInv'
<1> USE DEF RaceInv
<1>1. TypeOK'
  BY DEF CommitRefused, Retry, Spawn, TypeOK, GroupInUse, Answers, world
<1>2. AskedOrWaiting'
  BY DEF CommitRefused, Retry, Spawn, AskedOrWaiting, GroupInUse, TypeOK
<1>3. GroupInUse'
  BY DEF CommitRefused, Retry, Spawn, GroupInUse, TypeOK
<1>4. OneWinner'
  BY DEF CommitRefused, Retry, Spawn, OneWinner, TypeOK
<1>5. MissesCounted'
  BY DEF CommitRefused, Retry, Spawn, MissesCounted, TypeOK
<1>6. PriorityRespected'
  BY DEF CommitRefused, Retry, Spawn, PriorityRespected, GroupInUse,
     AskedOrWaiting, TypeOK
<1>7. Exhausted' /\ Verdict'
  BY DEF CommitRefused, Retry, Spawn, Exhausted, Verdict
<1>8. QED BY <1>1, <1>2, <1>3, <1>4, <1>5, <1>6, <1>7

\* A winner that cannot be reached leaves the group without a verdict.
LEMMA CommitNetFailsKeeps ==
    ASSUME RaceInv,
           CommitNetFails
    PROVE  RaceInv'
<1> USE DEF RaceInv
<1>1. TypeOK'
  BY DEF CommitNetFails, Retry, Spawn, TypeOK, GroupInUse, Answers, world
<1>2. AskedOrWaiting'
  BY DEF CommitNetFails, Retry, Spawn, AskedOrWaiting, GroupInUse, TypeOK
<1>3. GroupInUse'
  BY DEF CommitNetFails, Retry, Spawn, GroupInUse, TypeOK
<1>4. OneWinner'
  BY DEF CommitNetFails, Retry, Spawn, OneWinner, TypeOK
<1>5. MissesCounted'
  BY DEF CommitNetFails, Retry, Spawn, MissesCounted, TypeOK
<1>6. PriorityRespected'
  BY DEF CommitNetFails, Retry, Spawn, PriorityRespected, GroupInUse,
     AskedOrWaiting, TypeOK
<1>7. Exhausted' /\ Verdict'
  BY DEF CommitNetFails, Retry, Spawn, Exhausted, Verdict
<1>8. QED BY <1>1, <1>2, <1>3, <1>4, <1>5, <1>6, <1>7

\* A database error ends the lookup without a verdict.
LEMMA CommitDbFailsKeeps ==
    ASSUME RaceInv,
           CommitDbFails
    PROVE  RaceInv'
<1> USE DEF RaceInv
<1>1. TypeOK'
  BY DEF CommitDbFails, Ends, TypeOK, world
<1>2. AskedOrWaiting' /\ GroupInUse' /\ OneWinner' /\ MissesCounted'
      /\ Exhausted' /\ Verdict' /\ PriorityRespected'
  BY DEF CommitDbFails, Ends, AskedOrWaiting, GroupInUse, OneWinner,
     MissesCounted, Exhausted, Verdict, PriorityRespected
<1>3. QED BY <1>1, <1>2

\* The verdict: everybody was asked, and any_not_found is what they said.
LEMMA FinishKeeps ==
    ASSUME RaceInv,
           Finish
    PROVE  RaceInv'
<1> USE DEF RaceInv
<1>1. TypeOK'
  BY DEF Finish, Ends, TypeOK, world
<1>2. Exhausted'
  BY DEF Finish, Ends, Exhausted, OneWinner, AskedOrWaiting, Answers, TypeOK
<1>3. Verdict'
  BY DEF Finish, Ends, Verdict, MissesCounted, GroupInUse
<1>4. AskedOrWaiting' /\ GroupInUse' /\ OneWinner' /\ MissesCounted'
      /\ PriorityRespected'
  BY DEF Finish, Ends, AskedOrWaiting, GroupInUse, OneWinner,
     MissesCounted, PriorityRespected
<1>5. QED BY <1>1, <1>2, <1>3, <1>4

\* A dropped lookup ends without a verdict.
LEMMA CancelKeeps ==
    ASSUME RaceInv,
           Cancel
    PROVE  RaceInv'
<1> USE DEF RaceInv
<1>1. TypeOK'
  BY DEF Cancel, Ends, TypeOK, world
<1>2. AskedOrWaiting' /\ GroupInUse' /\ OneWinner' /\ MissesCounted'
      /\ Exhausted' /\ Verdict' /\ PriorityRespected'
  BY DEF Cancel, Ends, AskedOrWaiting, GroupInUse, OneWinner,
     MissesCounted, Exhausted, Verdict, PriorityRespected
<1>3. QED BY <1>1, <1>2

\* Cooldowns are read only when a lookup starts.
LEMMA CooldownExpiresKeeps ==
    ASSUME RaceInv,
           NEW u \in Upstreams,
           CooldownExpires(u)
    PROVE  RaceInv'
<1> USE DEF RaceInv
<1>1. TypeOK'
  BY DEF CooldownExpires, TypeOK, world
<1>2. AskedOrWaiting' /\ GroupInUse' /\ OneWinner' /\ MissesCounted'
      /\ Exhausted' /\ Verdict' /\ PriorityRespected'
  BY DEF CooldownExpires, AskedOrWaiting, GroupInUse, OneWinner,
     MissesCounted, Exhausted, Verdict, PriorityRespected
<1>3. QED BY <1>1, <1>2

\* The race remembers answers, not contents.
LEMMA UpstreamChangesKeeps ==
    ASSUME RaceInv,
           NEW u \in Upstreams,
           NEW b \in Bodies \cup {Absent},
           UpstreamChanges(u, b)
    PROVE  RaceInv'
<1> USE DEF RaceInv
<1>1. TypeOK'
  BY BoundAssumption DEF UpstreamChanges, TypeOK
<1>2. AskedOrWaiting' /\ GroupInUse' /\ OneWinner' /\ MissesCounted'
      /\ Exhausted' /\ Verdict' /\ PriorityRespected'
  BY DEF UpstreamChanges, AskedOrWaiting, GroupInUse, OneWinner,
     MissesCounted, Exhausted, Verdict, PriorityRespected
<1>3. QED BY <1>1, <1>2

---------------------------------------------------------------------------

\* Nothing has been asked yet.
LEMMA InitInv == ASSUME Init PROVE RaceInv
<1> USE DEF Init
<1>1. TypeOK
  <2>1. /\ changes \in 0..MaxChanges
        /\ prio \in [Upstreams -> Int]
        /\ answer \in [Upstreams -> Answers]
    BY PriorityAssumption, BoundAssumption DEF Answers
  <2>2. QED
    BY <2>1 DEF TypeOK
<1>2. AskedOrWaiting /\ GroupInUse /\ OneWinner /\ MissesCounted
  BY DEF AskedOrWaiting, GroupInUse, OneWinner, MissesCounted
<1>3. Exhausted /\ Verdict /\ PriorityRespected
  BY DEF Exhausted, Verdict, PriorityRespected
<1>4. QED BY <1>1, <1>2, <1>3 DEF RaceInv

\* The invariant depends on the variables alone.
LEMMA StutterKeeps == ASSUME RaceInv, UNCHANGED vars PROVE RaceInv'
<1> USE DEF RaceInv, vars
<1>1. TypeOK'
  BY DEF TypeOK
<1>2. AskedOrWaiting' /\ GroupInUse' /\ OneWinner' /\ MissesCounted'
  BY DEF AskedOrWaiting, GroupInUse, OneWinner, MissesCounted
<1>3. Exhausted' /\ Verdict' /\ PriorityRespected'
  BY DEF Exhausted, Verdict, PriorityRespected
<1>4. QED BY <1>1, <1>2, <1>3

\* One case per action of the race.
LEMMA NextKeeps == RaceInv /\ [Next]_vars => RaceInv'
<1> SUFFICES ASSUME RaceInv, [Next]_vars PROVE RaceInv'
  OBVIOUS
<1>1. CASE \E C \in SUBSET Upstreams : \E known \in SUBSET C : Start(C, known)
  BY <1>1, StartKeeps
<1>2. CASE NextGroup
  BY <1>2, NextGroupKeeps
<1>3. CASE Attempt
  BY <1>3, HeadWinsKeeps, HeadMissesKeeps, HeadFailsKeeps DEF Attempt
<1>4. CASE GroupEnds
  BY <1>4, GroupEndsKeeps
<1>5. CASE Commit
  BY <1>5, CommitAcceptsKeeps, CommitRefusedKeeps, CommitNetFailsKeeps,
     CommitDbFailsKeeps DEF Commit
<1>6. CASE Finish
  BY <1>6, FinishKeeps
<1>7. CASE Cancel
  BY <1>7, CancelKeeps
<1>8. CASE \E u \in Upstreams : CooldownExpires(u)
  BY <1>8, CooldownExpiresKeeps
<1>9. CASE \E u \in Upstreams, b \in Bodies \cup {Absent} : UpstreamChanges(u, b)
  BY <1>9, UpstreamChangesKeeps
<1>10. CASE UNCHANGED vars
  BY <1>10, StutterKeeps
<1>11. QED
  BY <1>1, <1>2, <1>3, <1>4, <1>5, <1>6, <1>7, <1>8, <1>9, <1>10 DEF Next

\* The inductive invariant holds in every reachable state of a race.
THEOREM RaceInvariant == Spec => []RaceInv
<1>1. Init => RaceInv
  BY InitInv
<1>2. RaceInv /\ [Next]_vars => RaceInv'
  BY NextKeeps
<1>3. QED
  BY <1>1, <1>2, PTL DEF Spec

\* The candidate sets of race and race_group always nest as TypeOK says.
THEOREM RaceTypeCorrect == Spec => []TypeOK
  BY RaceInvariant, PTL DEF RaceInv

\* race never gives up while a candidate is unasked or a HEAD success of it
\* undecided.
THEOREM RaceExhaustive == Spec => []Exhausted
  BY RaceInvariant, PTL DEF RaceInv

\* race answers NotFound exactly when a candidate said so, and
\* UpstreamUnavailable only when none did.
THEOREM RaceVerdict == Spec => []Verdict
  BY RaceInvariant, PTL DEF RaceInv

\* No upstream is contacted ahead of one with a better priority.
THEOREM RacePriority == Spec => []PriorityRespected
  BY RaceInvariant, PTL DEF RaceInv

---------------------------------------------------------------------------
(* Refinement: a race is one Begin, steps the contract does not see, and    *)
(* one Accept or Fail.                                                      *)

\* No winner is reported and no body served by a race that was not accepted.
Reported ==
    /\ outcome # "accepted" => served = Absent
    /\ phase # "idle" => outcome = "none"

\* Reported is inductive on top of the types.
LEMMA ReportedInvariant == Spec => []Reported
<1>1. Init => Reported
  BY DEF Init, Reported
<1>2. TypeOK /\ Reported /\ [Next]_vars => Reported'
  <2> SUFFICES ASSUME TypeOK, Reported, [Next]_vars PROVE Reported'
    OBVIOUS
  <2> USE DEF Reported
  <2>1. CASE \E C \in SUBSET Upstreams : \E known \in SUBSET C : Start(C, known)
    BY <2>1 DEF Start
  <2>2. CASE NextGroup
    BY <2>2 DEF NextGroup, Spawn
  <2>3. CASE Attempt
    BY <2>3 DEF Attempt, HeadWins, HeadMisses, HeadFails
  <2>4. CASE GroupEnds
    BY <2>4 DEF GroupEnds
  <2>5. CASE CommitAccepts
    BY <2>5 DEF CommitAccepts
  <2>6. CASE CommitRefused \/ CommitNetFails
    BY <2>6 DEF CommitRefused, CommitNetFails, Retry, Spawn
  <2>7. CASE CommitDbFails \/ Finish \/ Cancel
    BY <2>7 DEF CommitDbFails, Finish, Cancel, Ends
  <2>8. CASE \/ \E u \in Upstreams : CooldownExpires(u)
             \/ \E u \in Upstreams, b \in Bodies \cup {Absent} :
                    UpstreamChanges(u, b)
    BY <2>8 DEF CooldownExpires, UpstreamChanges
  <2>9. CASE UNCHANGED vars
    BY <2>9 DEF vars
  <2>10. QED
    BY <2>1, <2>2, <2>3, <2>4, <2>5, <2>6, <2>7, <2>8, <2>9
    DEF Next, Commit
<1>3. QED
  BY <1>1, <1>2, RaceTypeCorrect, PTL DEF Spec

\* Every step of a race is a step of the contract, or invisible to it.
LEMMA StepRefines ==
    ASSUME TypeOK, Reported, [Next]_vars
    PROVE  [Contract!Next]_(Contract!vars)
<1> USE DEF TypeOK, Reported, Contract!vars
<1>1. ASSUME NEW C \in SUBSET Upstreams, NEW known \in SUBSET C,
             Start(C, known)
      PROVE  Contract!Begin(C)
  BY <1>1 DEF Start, Contract!Begin
<1>2. CASE NextGroup
  BY <1>2 DEF NextGroup, Spawn
<1>3. CASE Attempt
  BY <1>3 DEF Attempt, HeadWins, HeadMisses, HeadFails
<1>4. CASE GroupEnds
  BY <1>4 DEF GroupEnds
<1>5. CASE CommitAccepts
  <2>1. winner \in candidates /\ holds[winner] \in Bodies
    BY <1>5, VettingAssumption DEF CommitAccepts, Vetted
  <2>2. Contract!Accept(winner, holds[winner])
    BY <1>5, <2>1 DEF CommitAccepts, Contract!Accept
  <2>3. QED
    BY <2>1, <2>2 DEF Contract!Next, Contract!End
<1>6. CASE CommitRefused \/ CommitNetFails
  BY <1>6 DEF CommitRefused, CommitNetFails, Retry, Spawn
<1>7. CASE CommitDbFails
  <2>1. Contract!Fail("Db")
    BY <1>7 DEF CommitDbFails, Ends, Contract!Fail
  <2>2. QED BY <2>1 DEF Contract!Next, Contract!End, Contract!Errors
<1>8. CASE Finish
  <2>1. Contract!Fail("NotFound") \/ Contract!Fail("UpstreamUnavailable")
    BY <1>8 DEF Finish, Ends, Contract!Fail
  <2>2. QED BY <2>1 DEF Contract!Next, Contract!End, Contract!Errors
<1>9. CASE Cancel
  <2>1. Contract!Fail("cancelled")
    BY <1>9 DEF Cancel, Ends, Contract!Fail
  <2>2. QED BY <2>1 DEF Contract!Next, Contract!End
<1>10. CASE \/ \E u \in Upstreams : CooldownExpires(u)
            \/ \E u \in Upstreams, b \in Bodies \cup {Absent} :
                   UpstreamChanges(u, b)
  BY <1>10 DEF CooldownExpires, UpstreamChanges
<1>11. CASE UNCHANGED vars
  BY <1>11 DEF vars
<1>12. QED
  BY <1>1, <1>2, <1>3, <1>4, <1>5, <1>6, <1>7, <1>8, <1>9, <1>10, <1>11
  DEF Next, Commit, Contract!Next

\* Router::race, with its groups, retries and cooldowns, does what
\* Router::resolve needs of it: it implements RaceContract.
THEOREM RaceImplementsContract == Spec => ContractSpec
<1>1. Init => Contract!Init
  BY DEF Init, Contract!Init
<1>2. QED
  BY <1>1, StepRefines, RaceTypeCorrect, ReportedInvariant, PTL
  DEF Spec, ContractSpec, Contract!Spec

===========================================================================
