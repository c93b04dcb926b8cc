------------------------------- MODULE Race -------------------------------
(***************************************************************************)
(* Router::race, race_group, commit_winner and the cooldown map            *)
(* (crates/router/src/lib.rs): how one lookup, whose caches all missed,    *)
(* finds an upstream.  Candidates that are not cooling down are grouped by *)
(* priority; the groups are tried in order; within a group a HEAD goes to  *)
(* every candidate at once and the first success is committed, by fetching *)
(* the body and vetting it.  A winner that cannot be committed leaves the  *)
(* group and the rest of the group is raced again.                         *)
(*                                                                         *)
(* The module follows one lookup after another, so that a race meets the   *)
(* cooldowns the earlier ones left.  What the upstreams hold changes under *)
(* the race: between the HEAD and the GET in particular.                   *)
(***************************************************************************)
EXTENDS Integers

CONSTANTS
    Upstreams,        \* upstream caches, identified by url
    Bodies,           \* narinfo bodies an upstream may serve for the hash
    NoUpstream,       \* "no winner"
    Absent,           \* "the upstream does not have the path"
    Priority,         \* Priority[u]: the priority in u's health entry
    MissingPriority,  \* i32::MAX, for an upstream without a health entry
    Verifies,         \* Verifies[u]: bodies that parse and match u's keys
    Accepts,          \* Accepts[u]: bodies u's filter rules let through
    MaxChanges        \* bound on the changes of the upstreams' contents

ASSUME PriorityAssumption ==
    /\ Priority \in [Upstreams -> Int]
    /\ MissingPriority \in Int
    /\ \A u \in Upstreams : Priority[u] <= MissingPriority

ASSUME VettingAssumption ==
    /\ Verifies \in [Upstreams -> SUBSET Bodies]
    /\ Accepts \in [Upstreams -> SUBSET Bodies]

ASSUME NullAssumption ==
    /\ NoUpstream \notin Upstreams
    /\ Absent \notin Bodies

ASSUME BoundAssumption == MaxChanges \in Nat

VARIABLES
    holds,          \* what each upstream answers for the hash
    changes,        \* how often that changed
    cooldown,       \* upstream_cooldown: the urls cooling down
    phase,          \* idle, pick (between groups), race, commit
    candidates,     \* the argument of race
    effective,      \* effective_candidates
    prio,           \* the priority each candidate was grouped under
    waiting,        \* candidates of the groups not yet tried
    group,          \* group_candidates
    running,        \* attempts in the JoinSet
    net_errs,
    not_founds,
    winner,
    any_not_found,
    outcome,        \* how the last lookup ended
    served,         \* the body it returned
    answer          \* history: the last thing each candidate said

world == <<holds, changes>>
vars == <<holds, changes, cooldown, phase, candidates, effective, prio,
          waiting, group, running, net_errs, not_founds, winner,
          any_not_found, outcome, served, answer>>

Vetted == [u \in Upstreams |-> Verifies[u] \cap Accepts[u]]

---------------------------------------------------------------------------

Init ==
    /\ holds \in [Upstreams -> Bodies \cup {Absent}]
    /\ changes = 0
    /\ cooldown = {}
    /\ phase = "idle"
    /\ candidates = {}
    /\ effective = {}
    /\ prio = [u \in Upstreams |-> MissingPriority]
    /\ waiting = {}
    /\ group = {}
    /\ running = {}
    /\ net_errs = 0
    /\ not_founds = 0
    /\ winner = NoUpstream
    /\ any_not_found = FALSE
    /\ outcome = "none"
    /\ served = Absent
    /\ answer = [u \in Upstreams |-> "unasked"]

\* race is called with candidates C; the upstreams in known have a health
\* entry.  Candidates that are cooling down are left out, unless all are.
Start(C, known) ==
    /\ phase = "idle"
    /\ LET filtered == C \ cooldown
           chosen == IF filtered = {} THEN C ELSE filtered
       IN /\ effective' = chosen
          /\ waiting' = chosen
    /\ candidates' = C
    /\ prio' = [u \in Upstreams |->
                  IF u \in known THEN Priority[u] ELSE MissingPriority]
    /\ phase' = IF C = {} THEN "idle" ELSE "pick"
    /\ outcome' = IF C = {} THEN "NoCandidates" ELSE "none"
    /\ any_not_found' = FALSE
    /\ winner' = NoUpstream
    /\ served' = Absent
    /\ answer' = [u \in Upstreams |-> "unasked"]
    /\ UNCHANGED <<world, cooldown, group, running, net_errs, not_founds>>

\* race_group begins: one HEAD attempt for every candidate in g.
Spawn(g, said) ==
    /\ phase' = "race"
    /\ group' = g
    /\ running' = g
    /\ net_errs' = 0
    /\ not_founds' = 0
    /\ answer' = [u \in Upstreams |-> IF u \in g THEN "silent" ELSE said[u]]

\* Mutant: the group of the highest number goes first.
Hindmost == {u \in waiting : \A v \in waiting : prio[u] >= prio[v]}

\* The candidates of the lowest priority number among those still waiting.
Foremost == {u \in waiting : \A v \in waiting : prio[u] <= prio[v]}

NextGroup ==
    /\ phase = "pick"
    /\ waiting # {}
    /\ Spawn(Foremost, answer)
    /\ waiting' = waiting \ Foremost
    /\ UNCHANGED <<world, cooldown, candidates, effective, prio, winner,
                   any_not_found, outcome, served>>

\* Mutant: the loop breaks without handing over who won.
WinnerForgotten(u) ==
    /\ phase = "race"
    /\ u \in running
    /\ holds[u] # Absent
    /\ phase' = "commit"
    /\ running' = {}
    /\ answer' = [answer EXCEPT ![u] = "yes"]
    /\ net_errs' = 0
    /\ not_founds' = 0
    /\ UNCHANGED <<world, cooldown, candidates, effective, prio, waiting,
                   group, winner, any_not_found, outcome, served>>

\* A HEAD succeeds: the loop breaks, the other attempts are aborted and
\* what they had answered is forgotten.
HeadWins(u) ==
    /\ phase = "race"
    /\ u \in running
    /\ holds[u] # Absent
    /\ winner' = u
    /\ phase' = "commit"
    /\ running' = {}
    /\ answer' = [v \in Upstreams |-> IF v = u THEN "yes"
                                     ELSE IF v \in running THEN "aborted"
                                     ELSE answer[v]]
    /\ net_errs' = 0
    /\ not_founds' = 0
    /\ UNCHANGED <<world, cooldown, candidates, effective, prio, waiting,
                   group, any_not_found, outcome, served>>

HeadMisses(u) ==
    /\ phase = "race"
    /\ u \in running
    /\ holds[u] = Absent
    /\ running' = running \ {u}
    /\ not_founds' = not_founds + 1
    /\ answer' = [answer EXCEPT ![u] = "no"]
    /\ UNCHANGED <<world, cooldown, phase, candidates, effective, prio,
                   waiting, group, net_errs, winner, any_not_found, outcome,
                   served>>

\* A network error starts the upstream's cooldown; a panicked attempt is
\* counted the same way but nobody knows whose it was.
HeadFails(u, panicked) ==
    /\ phase = "race"
    /\ u \in running
    /\ running' = running \ {u}
    /\ net_errs' = net_errs + 1
    /\ cooldown' = IF panicked THEN cooldown ELSE cooldown \cup {u}
    /\ answer' = [answer EXCEPT ![u] = "failed"]
    /\ UNCHANGED <<world, phase, candidates, effective, prio, waiting, group,
                   not_founds, winner, any_not_found, outcome, served>>

\* Mutant: a group without a winner is a miss, whatever the reason.
SilenceIsAMiss ==
    /\ phase = "race"
    /\ phase' = "pick"
    /\ running' = {}
    /\ group' = {}
    /\ any_not_found' = TRUE
    /\ net_errs' = 0
    /\ not_founds' = 0
    /\ UNCHANGED <<world, cooldown, candidates, effective, prio, waiting,
                   winner, outcome, served, answer>>

\* The deadline passes, or no attempt is left.  Only a 404 counts as an
\* answer: a group that failed or kept silent is left without a verdict.
GroupEnds ==
    /\ phase = "race"
    /\ phase' = "pick"
    /\ running' = {}
    /\ group' = {}
    /\ any_not_found' = (any_not_found \/ not_founds > 0)
    /\ net_errs' = 0
    /\ not_founds' = 0
    /\ UNCHANGED <<world, cooldown, candidates, effective, prio, waiting,
                   winner, outcome, served, answer>>

---------------------------------------------------------------------------
(* commit_winner *)

\* Mutant: the refused winner ends the whole group.
GiveUpGroup(said) ==
    /\ phase' = "pick"
    /\ group' = {}
    /\ answer' = said
    /\ UNCHANGED <<running, net_errs, not_founds>>

\* Mutant: the refused winner stays in the group.
RetryEverybody(said) == Spawn(group, said)

\* Back in race's while loop, without the winner.
Retry(said) ==
    LET rest == group \ {winner}
    IN \/ /\ rest # {}
          /\ Spawn(rest, said)
       \/ /\ rest = {}
          /\ phase' = "pick"
          /\ group' = {}
          /\ answer' = said
          /\ UNCHANGED <<running, net_errs, not_founds>>

\* Mutant: the body is verified but the filters are not consulted.
CommitUnfiltered ==
    /\ phase = "commit"
    /\ holds[winner] \in Verifies[winner]
    /\ phase' = "idle"
    /\ outcome' = "accepted"
    /\ served' = holds[winner]
    /\ group' = {}
    /\ waiting' = {}
    /\ any_not_found' = FALSE
    /\ UNCHANGED <<world, cooldown, candidates, effective, prio, running,
                   net_errs, not_founds, winner, answer>>

CommitAccepts ==
    /\ phase = "commit"
    /\ holds[winner] \in Vetted[winner]
    /\ phase' = "idle"
    /\ outcome' = "accepted"
    /\ served' = holds[winner]
    /\ group' = {}
    /\ waiting' = {}
    /\ any_not_found' = FALSE
    /\ UNCHANGED <<world, cooldown, candidates, effective, prio, running,
                   net_errs, not_founds, winner, answer>>

\* A 404 on the GET, a body that does not parse or verify, or one that the
\* filters turn down.
CommitRefused ==
    /\ phase = "commit"
    /\ holds[winner] \notin Vetted[winner]
    /\ any_not_found' = TRUE
    /\ Retry([answer EXCEPT ![winner] = "no"])
    /\ winner' = NoUpstream
    /\ UNCHANGED <<world, cooldown, candidates, effective, prio, waiting,
                   outcome, served>>

CommitNetFails ==
    /\ phase = "commit"
    /\ cooldown' = cooldown \cup {winner}
    /\ Retry([answer EXCEPT ![winner] = "failed"])
    /\ winner' = NoUpstream
    /\ UNCHANGED <<world, candidates, effective, prio, waiting,
                   any_not_found, outcome, served>>

\* How a lookup ends without a result.
Ends(e) ==
    /\ phase' = "idle"
    /\ outcome' = e
    /\ group' = {}
    /\ running' = {}
    /\ waiting' = {}
    /\ winner' = NoUpstream
    /\ any_not_found' = FALSE
    /\ net_errs' = 0
    /\ not_founds' = 0
    /\ UNCHANGED <<world, cooldown, candidates, effective, prio, served,
                   answer>>

\* set_route fails: the one error that race does not retry.
CommitDbFails ==
    /\ phase = "commit"
    /\ holds[winner] \in Vetted[winner]
    /\ Ends("Db")

Finish ==
    /\ phase = "pick"
    /\ waiting = {}
    /\ Ends(IF any_not_found THEN "NotFound" ELSE "UpstreamUnavailable")

\* The client disconnects and the future is dropped at an await point.
Cancel ==
    /\ phase # "idle"
    /\ Ends("cancelled")

---------------------------------------------------------------------------
(* The surroundings *)

CooldownExpires(u) ==
    /\ u \in cooldown
    /\ cooldown' = cooldown \ {u}
    /\ UNCHANGED <<world, phase, candidates, effective, prio, waiting, group,
                   running, net_errs, not_founds, winner, any_not_found,
                   outcome, served, answer>>

UpstreamChanges(u, b) ==
    /\ changes < MaxChanges
    /\ b # holds[u]
    /\ changes' = changes + 1
    /\ holds' = [holds EXCEPT ![u] = b]
    /\ UNCHANGED <<cooldown, phase, candidates, effective, prio, waiting,
                   group, running, net_errs, not_founds, winner,
                   any_not_found, outcome, served, answer>>

Commit == CommitAccepts \/ CommitRefused \/ CommitNetFails \/ CommitDbFails

Attempt ==
    \E u \in Upstreams :
        \/ HeadWins(u)
        \/ HeadMisses(u)
        \/ \E panicked \in BOOLEAN : HeadFails(u, panicked)

Next ==
    \/ \E C \in SUBSET Upstreams : \E known \in SUBSET C : Start(C, known)
    \/ NextGroup
    \/ Attempt
    \/ GroupEnds
    \/ Commit
    \/ Finish
    \/ Cancel
    \/ \E u \in Upstreams : CooldownExpires(u)
    \/ \E u \in Upstreams, b \in Bodies \cup {Absent} : UpstreamChanges(u, b)

\* The deadline always fires and every fetch has a timeout; nothing makes a
\* client ask again, an attempt answer before the deadline, or a client leave.
Fairness ==
    /\ WF_vars(NextGroup)
    /\ WF_vars(GroupEnds)
    /\ WF_vars(Commit)
    /\ WF_vars(Finish)

Spec == Init /\ [][Next]_vars /\ Fairness

---------------------------------------------------------------------------
(* Properties *)

Answers == {"unasked", "silent", "aborted", "no", "failed", "yes"}

\* The types, and how the sets of candidates nest: an attempt belongs to the
\* group, groups are drawn from the candidates, a winner from its group.
TypeOK ==
    /\ holds \in [Upstreams -> Bodies \cup {Absent}]
    /\ changes \in 0..MaxChanges
    /\ cooldown \subseteq Upstreams
    /\ phase \in {"idle", "pick", "race", "commit"}
    /\ candidates \subseteq Upstreams
    /\ effective \subseteq candidates
    /\ prio \in [Upstreams -> Int]
    /\ waiting \subseteq effective
    /\ group \subseteq effective
    /\ running \subseteq group
    /\ net_errs \in Nat
    /\ not_founds \in Nat
    /\ winner \in Upstreams \cup {NoUpstream}
    /\ phase = "commit" => winner \in group
    /\ any_not_found \in BOOLEAN
    /\ outcome \in {"none", "accepted", "NotFound", "UpstreamUnavailable",
                    "Db", "NoCandidates", "cancelled"}
    /\ served \in Bodies \cup {Absent}
    /\ answer \in [Upstreams -> Answers]

\* race gives up only when it has nobody left to ask: after NotFound or
\* UpstreamUnavailable there was a candidate, and every effective candidate had
\* a request in this lookup that ran to its answer or its deadline.  None was
\* passed over for want of a health entry, none whose attempt was aborted for a
\* winner that was then turned down is left at that, and no HEAD success is
\* left undecided.
Exhausted ==
    phase = "idle" /\ outcome \in {"NotFound", "UpstreamUnavailable"} =>
        /\ effective # {}
        /\ \A u \in effective : answer[u] \in {"silent", "no", "failed"}

\* NotFound, which the caller remembers as a miss, is never concluded from
\* silence or network errors alone: some candidate's last word was "no".  And
\* UpstreamUnavailable, which sends the caller to the fallback cache, means
\* that no candidate's last word was.
Verdict ==
    phase = "idle" =>
        /\ outcome = "NotFound" => \E u \in effective : answer[u] = "no"
        /\ outcome = "UpstreamUnavailable" =>
               \A u \in effective : answer[u] # "no"

\* A candidate is contacted only when every candidate of a better priority
\* has had its chance in this lookup: it was asked, it is not being asked any
\* more, and it is not a winner under commit.  This is what race is written
\* to do; docs/configuration.md says that priority "is not a strict ordering
\* mechanism", which is not true of it.
PriorityRespected ==
    \A u, v \in effective :
        /\ answer[u] # "unasked"
        /\ prio[v] < prio[u]
        => /\ answer[v] \in {"silent", "no", "failed"}
           /\ v \notin running \cup group

\* The race keeps the promise resolve builds on; see RaceContract.
Contract == INSTANCE RaceContract WITH
    racing <- phase # "idle",
    winner <- IF outcome = "accepted" THEN winner ELSE NoUpstream

ContractSpec == Contract!Spec

\* Every race ends, although a group is raced again after each winner that
\* could not be committed.
RaceTerminates == (phase # "idle") ~> (phase = "idle")
===========================================================================
