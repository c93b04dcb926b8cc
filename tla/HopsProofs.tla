----------------------------- MODULE HopsProofs -----------------------------
(***************************************************************************)
(* Proofs about Hops, for any instances, clients and limits, and ways of   *)
(* any length.                                                             *)
(***************************************************************************)
EXTENDS Hops, FiniteSetTheorems, WellFoundedInduction, TLAPS

(* The ways of lookups *)

\* What a way is made of.
Places == Clients \cup (Nodes \X (1..MaxRequests))

LEMMA WayShape ==
    ASSUME NEW P
    PROVE  P \in Ways <=> /\ P \in Seq(Places)
                          /\ Len(P) \in 1..MaxDepth
<1>1. ASSUME P \in Ways
      PROVE  P \in Seq(Places) /\ Len(P) \in 1..MaxDepth
  <2>1. PICK n \in 1..MaxDepth : P \in [1..n -> Places]
    BY <1>1 DEF Ways, Places
  <2>2. n \in Nat /\ P = [i \in 1..n |-> P[i]]
    BY <2>1, LimitAssumption
  <2> QED
    BY <2>1, <2>2
<1>2. ASSUME P \in Seq(Places), Len(P) \in 1..MaxDepth
      PROVE  P \in Ways
  <2>1. P \in [1..Len(P) -> Places]
    BY <1>2
  <2> QED
    BY <1>2, <2>1 DEF Ways, Places
<1> QED
  BY <1>1, <1>2

LEMMA Lengths == \A n \in Nat : 1 <= n => (n # 1 <=> n > 1)
  OBVIOUS

LEMMA LookupShape ==
    ASSUME NEW P \in Lookups
    PROVE  /\ P \in Seq(Places)
           /\ Len(P) \in Nat /\ 1 <= Len(P) /\ Len(P) <= MaxDepth
           /\ P[1] \in Clients
  BY WayShape, LimitAssumption DEF Lookups

\* The lookup of a client has come no way.
LEMMA ClientLookup ==
    ASSUME NEW c \in Clients
    PROVE  <<c>> \in Lookups /\ Len(<<c>>) = 1
<1> DEFINE P == <<c>>
<1>1. P \in Seq(Places) /\ Len(P) = 1 /\ P[1] = c
  BY DEF Places
<1> HIDE DEF P
<1>2. P \in Ways
  <2>1. Len(P) \in 1..MaxDepth
    BY <1>1, LimitAssumption
  <2> QED
    BY <1>1, <2>1, WayShape
<1>3. P \in Lookups
  <2>1. 2..Len(P) = {}
    BY <1>1
  <2> QED
    BY <1>1, <1>2, <2>1, Zenon DEF Lookups
<1> QED
  BY <1>1, <1>3 DEF P

LEMMA ParentLookup ==
    ASSUME NEW P \in Lookups, Len(P) > 1
    PROVE  /\ Parent(P) \in Lookups
           /\ Len(Parent(P)) = Len(P) - 1
           /\ P \in Children[Parent(P)]
<1> DEFINE Q == SubSeq(P, 1, Len(P) - 1)
<1>1. P \in Seq(Places) /\ Len(P) \in 2..MaxDepth
  BY LookupShape, LimitAssumption
<1>2. /\ Q \in Seq(Places)
      /\ Len(Q) = Len(P) - 1
      /\ \A i \in 1..Len(Q) : Q[i] = P[i]
  BY <1>1, LimitAssumption
<1>3. Q \in Ways
  <2>1. Len(Q) \in 1..MaxDepth
    BY <1>1, <1>2, LimitAssumption
  <2> HIDE DEF Q
  <2> QED
    BY <1>2, <2>1, WayShape
<1>4. \A i \in 2..Len(Q) : SubSeq(Q, 1, i - 1) = SubSeq(P, 1, i - 1)
  <2> SUFFICES ASSUME NEW i \in 2..Len(Q)
               PROVE  SubSeq(Q, 1, i - 1) = SubSeq(P, 1, i - 1)
    OBVIOUS
  <2>1. /\ SubSeq(Q, 1, i - 1) = [j \in 1..(i - 1) |-> Q[j]]
        /\ SubSeq(P, 1, i - 1) = [j \in 1..(i - 1) |-> P[j]]
    BY <1>1, <1>2, LimitAssumption
  <2>2. \A j \in 1..(i - 1) : Q[j] = P[j]
    BY <1>2, <1>1, LimitAssumption
  <2> QED
    BY <2>1, <2>2
<1>5. Q \in Lookups
  <2> HIDE DEF Q
  <2>1. /\ Q[1] = P[1]
        /\ \A i \in 2..Len(Q) : i \in 2..Len(P) /\ Q[i] = P[i]
    BY <1>1, <1>2, LimitAssumption
  <2> QED
    BY <1>3, <1>4, <2>1 DEF Lookups
<1>6. P[Len(P)] \in From(At(Q))
  <2>1. Len(P) \in 2..Len(P)
    BY <1>1, LimitAssumption
  <2> QED
    BY <1>1, <2>1 DEF Lookups
<1>7. P = Append(Q, P[Len(P)])
  BY <1>1, <1>2, LimitAssumption
<1>8. P \in Children[Q]
  <2> HIDE DEF Q
  <2> QED
    BY <1>5, <1>6, <1>7 DEF Children
<1> QED
  BY <1>2, <1>5, <1>8 DEF Parent

LEMMA ChildLookup ==
    ASSUME NEW P \in Lookups, NEW Q \in Children[P]
    PROVE  Q \in Lookups /\ Len(Q) = Len(P) + 1 /\ Parent(Q) = P
<1>1. PICK r \in From(At(P)) : Q = Append(P, r)
  BY DEF Children
<1>2. P \in Seq(Places) /\ r \in Places
  BY LookupShape DEF From, Places
<1>3. Len(Q) = Len(P) + 1 /\ SubSeq(Q, 1, Len(Q) - 1) = P
  BY <1>1, <1>2
<1> QED
  BY <1>3 DEF Children, Parent

---------------------------------------------------------------------------
(* The hop tells how far a lookup has come *)

HopAt(n) == IF n = 1 THEN "Client" ELSE IF n = 2 THEN "Peer" ELSE "PeerOfPeer"

UnderWay == {"gate", "head", "get"}

\* The header is right wherever a lookup has arrived, and a client's lookup
\* has none: so only the first two instances race.  A handler is idle until
\* its request is sent.
WayInv(P) ==
    /\ Len(P) = 1 => hop[P] = "Client" /\ attempt[P] = "none"
    /\ handler[P] # "idle" => hop[P] = HopAt(Len(P)) /\ Len(P) <= 3
    /\ handler[P] = "permit" => Len(P) = 1
    /\ Running(P) => Len(P) <= 2
    /\ attempt[P] \in {"none", "gate"} /\ Len(P) > 1 => handler[P] = "idle"
    /\ attempt[P] \in {"head", "get"} => handler[P] # "idle"

HopsInv == TypeOK /\ \A P \in Lookups : WayInv(P)

\* What is said of the values of the variables only.
Types ==
    /\ handler \in [Lookups -> {"idle", "arrived", "permit", "group", "race",
                                "commit", "done"}]
    /\ attempt \in [Lookups -> {"none", "gate", "head", "get", "over"}]
    /\ hop \in [Lookups -> {"Client", "Peer", "PeerOfPeer"}]

\* An attempt under way is one of a lookup that races or commits.
AttemptInv(Q) ==
    /\ attempt[Q] \in {"gate", "head"} => handler[Parent(Q)] = "race"
    /\ attempt[Q] = "get" => handler[Parent(Q)] = "commit"

LEMMA TypeParts == TypeOK <=> Types /\ \A Q \in Lookups : AttemptInv(Q)
  BY DEF TypeOK, Types, AttemptInv

LEMMA HopsInit == Init => HopsInv
<1> SUFFICES ASSUME Init PROVE HopsInv
  OBVIOUS
<1>1. \A P \in Lookups : handler[P] = "idle" /\ hop[P] = "Client"
                         /\ attempt[P] = "none" /\ ~Running(P)
  BY DEF Init, Running
<1>2. TypeOK
  BY <1>1 DEF Init, TypeOK
<1> QED
  BY <1>1, <1>2 DEF HopsInv, WayInv

\* Who is above an attempt.
LEMMA Above ==
    ASSUME HopsInv, NEW Q \in Lookups, attempt[Q] \in UnderWay
    PROVE  /\ Len(Q) > 1 /\ Len(Q) \in Nat
           /\ Parent(Q) \in Lookups
           /\ Len(Parent(Q)) = Len(Q) - 1
           /\ Q \in Children[Parent(Q)]
           /\ Q \in Busy(Parent(Q))
           /\ handler[Parent(Q)] \in {"race", "commit"}
           /\ Len(Q) <= 3
           /\ hop[Parent(Q)] = HopAt(Len(Q) - 1)
<1>1. Len(Q) # 1
  BY DEF HopsInv, WayInv, UnderWay
<1>2. Len(Q) \in Nat /\ 1 <= Len(Q)
  BY LookupShape
<1>3. Len(Q) > 1
  BY <1>1, <1>2, Lengths, Zenon
<1>4. /\ Parent(Q) \in Lookups /\ Len(Parent(Q)) = Len(Q) - 1
      /\ Q \in Children[Parent(Q)]
  BY <1>3, ParentLookup
<1>5. handler[Parent(Q)] \in {"race", "commit"}
  BY DEF HopsInv, TypeOK, UnderWay
<1>6. Len(Parent(Q)) <= 2 /\ hop[Parent(Q)] = HopAt(Len(Parent(Q)))
  BY <1>4, <1>5 DEF HopsInv, WayInv, Running
<1> QED
  BY <1>2, <1>3, <1>4, <1>5, <1>6 DEF Busy, UnderWay

LEMMA Below ==
    ASSUME NEW P \in Lookups, NEW Q \in Children[P]
    PROVE  /\ Q \in Lookups /\ Q # P /\ Parent(Q) = P
           /\ Len(P) \in Nat /\ 1 <= Len(P)
           /\ Len(Q) = Len(P) + 1 /\ Len(Q) > 1 /\ Len(Q) # 1
<1>1. Q \in Lookups /\ Len(Q) = Len(P) + 1 /\ Parent(Q) = P
  BY ChildLookup
<1>2. Len(P) \in Nat /\ 1 <= Len(P)
  BY LookupShape
<1> QED
  BY <1>1, <1>2

\* A request to be sent has no handler yet.
LEMMA DueIdle ==
    ASSUME HopsInv, NEW P \in Lookups, NEW Q \in Due(P)
    PROVE  Q \in Children[P] /\ attempt[Q] = "none" /\ handler[Q] = "idle"
<1>1. Q \in Children[P] /\ attempt[Q] = "none"
  BY DEF Due, Unsent
<1>2. Q \in Lookups /\ Len(Q) > 1
  BY <1>1, Below
<1> QED
  BY <1>1, <1>2 DEF HopsInv, WayInv

LEMMA HopPassedOn ==
    \A n \in Nat : 1 <= n /\ n <= 2 =>
        PassedOn(HopAt(n)) = HopAt(n + 1) /\ n + 1 <= 3
  BY DEF PassedOn, HopAt

\* A handler goes on that has no attempts under way.
LEMMA GoesOnKeeps ==
    ASSUME HopsInv, NEW P \in Lookups,
           NEW s \in {"arrived", "permit", "group", "done"},
           Moves(P, s), UNCHANGED <<attempt, hop>>,
           Busy(P) = {},
           handler[P] = "idle" => Len(P) = 1,
           s = "permit" => Len(P) = 1,
           s = "group" => Len(P) <= 2
    PROVE  HopsInv'
<1>1. Types'
  BY DEF Moves, HopsInv, TypeOK, Types
<1>2. handler'[P] = s /\ \A Q \in Lookups \ {P} : handler'[Q] = handler[Q]
  BY DEF Moves, HopsInv, TypeOK
<1>3. ASSUME NEW Q \in Lookups PROVE AttemptInv(Q)'
  <2>1. CASE attempt[Q] \in UnderWay
    <3>1. Parent(Q) \in Lookups /\ Parent(Q) # P
      BY <2>1, Above
    <3> QED
      BY <1>2, <3>1 DEF AttemptInv, HopsInv, TypeOK
  <2>2. CASE attempt[Q] \notin UnderWay
    BY <2>2 DEF AttemptInv, UnderWay
  <2> QED BY <2>1, <2>2
<1>4. ASSUME NEW Q \in Lookups PROVE WayInv(Q)'
  <2>1. CASE Q = P
    <3>1. WayInv(P)
      BY DEF HopsInv
    <3>2. hop[P] = HopAt(Len(P)) /\ Len(P) <= 3
      <4>1. CASE Len(P) = 1
        BY <3>1, <4>1 DEF WayInv, HopAt
      <4>2. CASE handler[P] # "idle"
        BY <3>1, <4>2 DEF WayInv
      <4> QED BY <4>1, <4>2
    <3>3. attempt[P] \in {"none", "gate"} /\ Len(P) > 1 => FALSE
      <4> SUFFICES ASSUME attempt[P] \in {"none", "gate"}, Len(P) > 1
                   PROVE  FALSE
        OBVIOUS
      <4>1. Len(P) = 1
        BY <3>1 DEF WayInv
      <4> QED BY <4>1
    <3> QED
      BY <1>2, <2>1, <3>1, <3>2, <3>3 DEF WayInv, Running
  <2>2. CASE Q # P
    BY <1>2, <2>2 DEF HopsInv, WayInv, Running
  <2> QED BY <2>1, <2>2
<1> QED
  BY <1>1, <1>3, <1>4, TypeParts DEF HopsInv, TypeOK, Types, AttemptInv

LEMMA RaceGroupKeeps ==
    ASSUME HopsInv, NEW P \in Lookups, RaceGroup(P)
    PROVE  HopsInv'
<1>1. PICK G \in SUBSET Due(P) :
         attempt' = [Q \in Lookups |-> IF Q \in G THEN "gate" ELSE attempt[Q]]
  BY DEF RaceGroup
<1>2. /\ handler[P] = "group" /\ handler'[P] = "race" /\ hop' = hop
      /\ \A Q \in Lookups \ {P} : handler'[Q] = handler[Q]
  BY DEF RaceGroup, Moves, HopsInv, TypeOK
<1>3. Types'
  BY <1>1 DEF RaceGroup, Moves, HopsInv, TypeOK, Types
<1>4. ASSUME NEW Q \in G
      PROVE  /\ Q \in Children[P] /\ Q \in Lookups /\ Q # P /\ Parent(Q) = P
             /\ Len(Q) # 1 /\ attempt'[Q] = "gate" /\ handler'[Q] = "idle"
  BY <1>1, <1>2, DueIdle, Below
<1>5. ASSUME NEW Q \in Lookups PROVE AttemptInv(Q)'
  <2>1. CASE Q \in G
    BY <1>2, <1>4, <2>1 DEF AttemptInv
  <2>2. CASE Q \notin G /\ attempt[Q] \in UnderWay
    <3>1. Parent(Q) \in Lookups /\ handler[Parent(Q)] # "group"
      BY <2>2, Above
    <3>2. handler'[Parent(Q)] = handler[Parent(Q)]
      BY <1>2, <3>1
    <3> QED
      BY <1>1, <2>2, <3>2 DEF AttemptInv, HopsInv, TypeOK
  <2>3. CASE Q \notin G /\ attempt[Q] \notin UnderWay
    BY <1>1, <2>3 DEF AttemptInv, UnderWay
  <2> QED BY <2>1, <2>2, <2>3
<1>6. ASSUME NEW Q \in Lookups PROVE WayInv(Q)'
  <2>1. CASE Q \in G
    BY <1>2, <1>4, <2>1 DEF WayInv, Running
  <2>2. CASE Q \notin G
    <3>1. attempt'[Q] = attempt[Q] /\ WayInv(Q)
      BY <1>1, <2>2 DEF HopsInv
    <3>2. Running(Q)' => Running(Q)
      BY <1>2 DEF Running
    <3> QED
      BY <1>2, <3>1, <3>2 DEF WayInv
  <2> QED BY <2>1, <2>2
<1> QED
  BY <1>3, <1>5, <1>6, TypeParts DEF HopsInv, TypeOK, Types, AttemptInv

\* What every request sent has in common: Q's handler begins.
LEMMA ReachesWay ==
    ASSUME HopsInv, NEW Q \in Lookups, NEW P \in Lookups, Q \in Children[P],
           Running(P),
           handler'[Q] = "arrived", hop'[Q] = PassedOn(hop[P]),
           attempt'[Q] \in {"head", "get"}
    PROVE  WayInv(Q)'
<1>1. /\ Len(P) \in Nat /\ 1 <= Len(P) /\ Len(Q) = Len(P) + 1 /\ Len(Q) # 1
  BY Below
<1>2. Len(P) <= 2 /\ hop[P] = HopAt(Len(P))
  BY DEF HopsInv, WayInv, Running
<1>3. hop'[Q] = HopAt(Len(Q)) /\ Len(Q) <= 3
  BY <1>1, <1>2, HopPassedOn
<1> QED
  BY <1>1, <1>3 DEF WayInv, Running

LEMMA SendKeeps ==
    ASSUME HopsInv, NEW Q \in Lookups, Send(Q)
    PROVE  HopsInv'
<1> DEFINE P == Parent(Q)
<1>1. /\ attempt[Q] = "gate" /\ attempt'[Q] = "head" /\ handler'[Q] = "arrived"
      /\ hop'[Q] = PassedOn(hop[P])
      /\ \A R \in Lookups \ {Q} : /\ handler'[R] = handler[R]
                                  /\ attempt'[R] = attempt[R]
                                  /\ hop'[R] = hop[R]
  BY DEF Send, Reaches, Moves, HopsInv, TypeOK
<1>2. P \in Lookups /\ Q \in Children[P] /\ P # Q /\ handler[P] = "race"
  <2>1. P \in Lookups /\ Q \in Children[P]
    BY <1>1, Above DEF UnderWay
  <2>2. handler[P] = "race"
    BY <1>1 DEF HopsInv, TypeOK
  <2> QED BY <2>1, <2>2, Below
<1>3. handler[Q] = "idle"
  BY <1>1, Above DEF HopsInv, WayInv, UnderWay
<1>4. Types'
  BY DEF Send, Reaches, Moves, PassedOn, HopsInv, TypeOK, Types
<1> HIDE DEF P
<1>5. ASSUME NEW R \in Lookups PROVE AttemptInv(R)'
  <2>1. CASE R = Q
    BY <1>1, <1>2, <2>1 DEF AttemptInv, P
  <2>2. CASE R # Q /\ attempt[R] \in UnderWay
    <3>1. Parent(R) \in Lookups /\ Parent(R) # Q
      BY <1>3, <2>2, Above
    <3> QED
      BY <1>1, <2>2, <3>1 DEF AttemptInv, HopsInv, TypeOK
  <2>3. CASE R # Q /\ attempt[R] \notin UnderWay
    BY <1>1, <2>3 DEF AttemptInv, UnderWay
  <2> QED BY <2>1, <2>2, <2>3
<1>6. ASSUME NEW R \in Lookups PROVE WayInv(R)'
  <2>1. CASE R = Q
    BY <1>1, <1>2, <2>1, ReachesWay DEF Running
  <2>2. CASE R # Q
    BY <1>1, <2>2 DEF HopsInv, WayInv, Running
  <2> QED BY <2>1, <2>2
<1> QED
  BY <1>4, <1>5, <1>6, TypeParts DEF HopsInv, TypeOK, Types, AttemptInv

LEMMA EndsKeeps ==
    ASSUME HopsInv, NEW Q \in Lookups, Ends(Q)
    PROVE  HopsInv'
<1>1. Types'
  BY DEF Ends, HopsInv, TypeOK, Types
<1>2. /\ handler' = handler /\ hop' = hop
      /\ attempt'[Q] = "over" /\ attempt[Q] \in {"head", "get"}
      /\ \A R \in Lookups \ {Q} : attempt'[R] = attempt[R]
  BY DEF Ends, HopsInv, TypeOK
<1>3. ASSUME NEW R \in Lookups PROVE AttemptInv(R)'
  BY <1>2 DEF AttemptInv, HopsInv, TypeOK
<1>4. ASSUME NEW R \in Lookups PROVE WayInv(R)'
  BY <1>2 DEF HopsInv, WayInv, Running
<1> QED
  BY <1>1, <1>3, <1>4, TypeParts DEF HopsInv, TypeOK, Types, AttemptInv

\* What an instance drops is its own.
LEMMA DroppedParts ==
    ASSUME HopsInv, NEW P \in Lookups, NEW N
    PROVE  /\ Dropped(P, N) \in [Lookups -> {"none", "gate", "head", "get",
                                             "over"}]
           /\ \A Q \in Lookups :
                 \/ Dropped(P, N)[Q] = "over" /\ Q \in Children[P]
                 \/ /\ Dropped(P, N)[Q] = attempt[Q]
                    /\ attempt[Q] \in UnderWay => Parent(Q) # P
<1>1. Dropped(P, N) \in [Lookups -> {"none", "gate", "head", "get", "over"}]
  BY DEF Dropped, HopsInv, TypeOK
<1>2. ASSUME NEW Q \in Lookups
      PROVE  \/ Dropped(P, N)[Q] = "over" /\ Q \in Children[P]
             \/ /\ Dropped(P, N)[Q] = attempt[Q]
                /\ attempt[Q] \in UnderWay => Parent(Q) # P
  <2>1. CASE Q \in Busy(P) \/ (Q \in Children[P] /\ At(Q) \in N)
    BY <2>1 DEF Dropped, Busy
  <2>2. CASE ~(Q \in Busy(P) \/ (Q \in Children[P] /\ At(Q) \in N))
    <3>1. Dropped(P, N)[Q] = attempt[Q]
      BY <2>2 DEF Dropped
    <3>2. attempt[Q] \in UnderWay => Parent(Q) # P
      BY <2>2, Above
    <3> QED BY <3>1, <3>2
  <2> QED BY <2>1, <2>2
<1> QED BY <1>1, <1>2

\* A handler drops its attempts and goes on without them.
LEMMA DropsKeep ==
    ASSUME HopsInv, NEW P \in Lookups, NEW N, NEW s \in {"group", "done"},
           Moves(P, s), attempt' = Dropped(P, N), UNCHANGED hop,
           Open(P), s = "group" => Running(P)
    PROVE  HopsInv'
<1>1. Types'
  BY DroppedParts DEF Moves, HopsInv, TypeOK, Types
<1>2. handler'[P] = s /\ \A Q \in Lookups \ {P} : handler'[Q] = handler[Q]
  BY DEF Moves, HopsInv, TypeOK
<1>3. \A Q \in Lookups :
         \/ attempt'[Q] = "over" /\ Q \in Children[P]
         \/ /\ attempt'[Q] = attempt[Q]
            /\ attempt[Q] \in UnderWay => Parent(Q) # P
  BY DroppedParts
<1>4. ASSUME NEW Q \in Lookups PROVE AttemptInv(Q)'
  <2>1. CASE attempt'[Q] \in UnderWay
    <3>1. attempt'[Q] = attempt[Q] /\ Parent(Q) # P
      BY <1>3, <2>1 DEF UnderWay
    <3>2. Parent(Q) \in Lookups
      BY <2>1, <3>1, Above
    <3> QED
      BY <1>2, <3>1, <3>2 DEF AttemptInv, HopsInv, TypeOK
  <2>2. CASE attempt'[Q] \notin UnderWay
    BY <2>2 DEF AttemptInv, UnderWay
  <2> QED BY <2>1, <2>2
<1>5. ASSUME NEW Q \in Lookups PROVE WayInv(Q)'
  <2>1. WayInv(Q) /\ hop'[Q] = hop[Q]
    BY DEF HopsInv
  <2>2. /\ handler'[Q] # "idle" <=> handler[Q] # "idle"
        /\ handler'[Q] = "permit" => handler[Q] = "permit"
        /\ Running(Q)' => Running(Q)
    BY <1>2 DEF Open, Running
  <2>3. CASE attempt'[Q] = attempt[Q]
    BY <2>1, <2>2, <2>3 DEF WayInv
  <2>4. CASE attempt'[Q] = "over" /\ Q \in Children[P]
    <3>1. Len(Q) # 1
      BY <2>4, Below
    <3> QED
      BY <2>1, <2>2, <2>4, <3>1 DEF WayInv
  <2> QED BY <1>3, <2>3, <2>4
<1> QED
  BY <1>1, <1>4, <1>5, TypeParts DEF HopsInv, TypeOK, Types, AttemptInv

LEMMA WinKeeps ==
    ASSUME HopsInv, NEW P \in Lookups, Win(P)
    PROVE  HopsInv'
<1>1. PICK Q \in Due(P) :
         /\ attempt' = [Dropped(P, {At(Q)}) EXCEPT ![Q] = "get"]
         /\ handler' = [handler EXCEPT ![P] = "commit", ![Q] = "arrived"]
         /\ hop' = [hop EXCEPT ![Q] = PassedOn(hop[P])]
  BY DEF Win
<1>2. /\ Q \in Children[P] /\ Q \in Lookups /\ Q # P /\ Parent(Q) = P
      /\ handler[Q] = "idle" /\ handler[P] = "race"
  BY DueIdle, Below DEF Win
<1>3. /\ handler'[P] = "commit" /\ handler'[Q] = "arrived"
      /\ hop'[Q] = PassedOn(hop[P])
      /\ \A R \in Lookups \ {Q} : hop'[R] = hop[R]
      /\ \A R \in Lookups \ {P, Q} : handler'[R] = handler[R]
  BY <1>1, <1>2 DEF HopsInv, TypeOK
<1>4. /\ attempt'[Q] = "get"
      /\ \A R \in Lookups \ {Q} :
            \/ attempt'[R] = "over" /\ R \in Children[P]
            \/ /\ attempt'[R] = attempt[R]
               /\ attempt[R] \in UnderWay => Parent(R) # P
  BY <1>1, <1>2, DroppedParts
<1>5. Types'
  <2>1. handler' \in [Lookups -> {"idle", "arrived", "permit", "group", "race",
                                  "commit", "done"}]
    BY <1>1, <1>2 DEF HopsInv, TypeOK
  <2>2. attempt' \in [Lookups -> {"none", "gate", "head", "get", "over"}]
    BY <1>1, <1>2, DroppedParts
  <2>3. hop' \in [Lookups -> {"Client", "Peer", "PeerOfPeer"}]
    BY <1>1, <1>2 DEF HopsInv, TypeOK, PassedOn
  <2> QED BY <2>1, <2>2, <2>3 DEF Types
<1>6. ASSUME NEW R \in Lookups PROVE AttemptInv(R)'
  <2>1. CASE R = Q
    BY <1>2, <1>3, <1>4, <2>1 DEF AttemptInv
  <2>2. CASE R # Q /\ attempt'[R] \in UnderWay
    <3>1. attempt'[R] = attempt[R] /\ Parent(R) # P
      BY <1>4, <2>2 DEF UnderWay
    <3>2. Parent(R) \in Lookups /\ Parent(R) # Q
      BY <1>2, <2>2, <3>1, Above
    <3> QED
      BY <1>3, <3>1, <3>2 DEF AttemptInv, HopsInv, TypeOK
  <2>3. CASE R # Q /\ attempt'[R] \notin UnderWay
    BY <2>3 DEF AttemptInv, UnderWay
  <2> QED BY <2>1, <2>2, <2>3
<1>7. ASSUME NEW R \in Lookups PROVE WayInv(R)'
  <2>1. CASE R = Q
    BY <1>2, <1>3, <1>4, <2>1, ReachesWay DEF Running
  <2>2. CASE R # Q
    <3>1. WayInv(R) /\ hop'[R] = hop[R]
      BY <1>3, <2>2 DEF HopsInv
    <3>2. /\ handler'[R] # "idle" <=> handler[R] # "idle"
          /\ handler'[R] = "permit" => handler[R] = "permit"
          /\ Running(R)' => Running(R)
      BY <1>2, <1>3, <2>2 DEF Running
    <3>3. CASE attempt'[R] = attempt[R]
      BY <3>1, <3>2, <3>3 DEF WayInv
    <3>4. CASE attempt'[R] = "over" /\ R \in Children[P]
      <4>1. Len(R) # 1
        BY <3>4, Below
      <4> QED
        BY <3>1, <3>2, <3>4, <4>1 DEF WayInv
    <3> QED BY <1>4, <2>2, <3>3, <3>4
  <2> QED BY <2>1, <2>2
<1> QED
  BY <1>5, <1>6, <1>7, TypeParts DEF HopsInv, TypeOK, Types, AttemptInv

\* Only a race or a commit has attempts under way.
LEMMA NothingBusy ==
    ASSUME HopsInv, NEW P \in Lookups, handler[P] \notin {"race", "commit"}
    PROVE  Busy(P) = {}
<1> SUFFICES ASSUME NEW Q \in Busy(P) PROVE FALSE
  OBVIOUS
<1>1. Q \in Children[P] /\ attempt[Q] \in UnderWay
  BY DEF Busy, UnderWay
<1>2. Q \in Lookups /\ Parent(Q) = P
  BY <1>1, Below
<1> QED
  BY <1>1, <1>2, Above

LEMMA HopsStep == HopsInv /\ [Next]_vars => HopsInv'
<1> SUFFICES ASSUME HopsInv, [Next]_vars
             PROVE  HopsInv'
  OBVIOUS
<1>1. ASSUME NEW c \in Clients, Arrive(c)
      PROVE  HopsInv'
  <2> DEFINE P == <<c>>
  <2>1. P \in Lookups /\ Len(P) = 1
    BY ClientLookup
  <2>2. handler[P] = "idle" /\ Moves(P, "arrived") /\ UNCHANGED <<attempt, hop>>
    BY <1>1 DEF Arrive
  <2> HIDE DEF P
  <2>3. Busy(P) = {}
    BY <2>1, <2>2, NothingBusy
  <2> QED
    BY <2>1, <2>2, <2>3, GoesOnKeeps
<1>2. ASSUME NEW P \in Lookups, Resolve(P)
      PROVE  HopsInv'
  <2>1. handler[P] = "arrived" /\ UNCHANGED <<attempt, hop>>
    BY <1>2 DEF Resolve
  <2>2. Len(P) \in Nat /\ 1 <= Len(P) /\ hop[P] = HopAt(Len(P))
    BY <2>1, LookupShape DEF HopsInv, WayInv
  <2>3. Busy(P) = {}
    BY <2>1, NothingBusy
  <2>4. CASE hop[P] = "PeerOfPeer" /\ Moves(P, "done")
    BY <2>1, <2>3, <2>4, GoesOnKeeps
  <2>5. CASE hop[P] = "Client" /\ Moves(P, "permit")
    <3>1. Len(P) = 1
      BY <2>2, <2>5 DEF HopAt
    <3> QED
      BY <2>1, <2>3, <2>5, <3>1, GoesOnKeeps
  <2>6. CASE hop[P] = "Peer" /\ Moves(P, "group")
    <3>1. Len(P) = 2
      BY <2>2, <2>6 DEF HopAt
    <3>2. Len(P) <= 2
      BY <3>1
    <3> QED
      BY <2>1, <2>3, <2>6, <3>2, GoesOnKeeps
  <2> QED
    BY <1>2, <2>4, <2>5, <2>6 DEF Resolve
<1>3. ASSUME NEW P \in Lookups, TakePermit(P)
      PROVE  HopsInv'
  <2>1. handler[P] = "permit" /\ Moves(P, "group") /\ UNCHANGED <<attempt, hop>>
    BY <1>3 DEF TakePermit
  <2>2. Busy(P) = {}
    BY <2>1, NothingBusy
  <2>3. Len(P) = 1
    BY <2>1 DEF HopsInv, WayInv
  <2>4. Len(P) <= 2
    BY <2>3
  <2> QED
    BY <2>1, <2>2, <2>4, GoesOnKeeps
<1>4. ASSUME NEW P \in Lookups, Cached(P) \/ NoGroup(P)
      PROVE  HopsInv'
  <2>1. /\ handler[P] \in {"arrived", "group"} /\ Moves(P, "done")
        /\ UNCHANGED <<attempt, hop>>
    BY <1>4 DEF Cached, NoGroup
  <2>2. Busy(P) = {}
    BY <2>1, NothingBusy
  <2> QED
    BY <2>1, <2>2, GoesOnKeeps
<1>5. ASSUME NEW P \in Lookups, Commit(P)
      PROVE  HopsInv'
  <2>1. PICK s \in {"done", "group"} : Moves(P, s)
    BY <1>5 DEF Commit
  <2>2. handler[P] = "commit" /\ Busy(P) = {} /\ UNCHANGED <<attempt, hop>>
    BY <1>5 DEF Commit
  <2>3. Len(P) <= 2
    BY <2>2 DEF HopsInv, WayInv, Running
  <2> QED
    BY <2>1, <2>2, <2>3, GoesOnKeeps
<1>6. ASSUME NEW P \in Lookups, NextGroup(P) \/ Drop(P)
      PROVE  HopsInv'
  <2>1. CASE NextGroup(P)
    BY <2>1, DropsKeep DEF NextGroup, Open, Running
  <2>2. CASE Drop(P)
    BY <2>2, DropsKeep DEF Drop
  <2> QED BY <1>6, <2>1, <2>2
<1>7. CASE UNCHANGED vars
  BY <1>7 DEF vars, HopsInv, TypeOK, WayInv, Running
<1> QED
  BY <1>1, <1>2, <1>3, <1>4, <1>5, <1>6, <1>7, RaceGroupKeeps, SendKeeps,
     EndsKeeps, WinKeeps
  DEF Next, Step, Chance, Answered, TimesOut, NoneWins, Deadline

THEOREM HopsInvariant == Spec => []HopsInv
<1>1. Init => HopsInv
  BY HopsInit
<1>2. HopsInv /\ [Next]_vars => HopsInv'
  BY HopsStep
<1> QED
  BY <1>1, <1>2, PTL DEF Spec

\* An instance keeps no attempt, and no permit of a gate, for a race that was
\* won, timed out or was dropped, however many instances are in a circle.
THEOREM HopsTypeCorrect == Spec => []TypeOK
  BY HopsInvariant, PTL DEF HopsInv

\* At most two instances race for a lookup and the third is the last it
\* reaches, however long a way the instances' upstreams allow.
THEOREM HopsBoundedTheorem == Spec => []HopsBounded
<1>1. HopsInv => HopsBounded
  BY DEF HopsInv, WayInv, HopsBounded
<1> QED
  BY <1>1, HopsInvariant, PTL

---------------------------------------------------------------------------
(* The semaphores *)

\* max_concurrent_races of an instance, and per_upstream_max_inflight of the
\* gate that an instance keeps for an upstream and a hop.
LimitsKept ==
    \A P \in Lookups :
        /\ Cardinality(Permits(P)) <= RaceLimit
        /\ Cardinality(Gate(P)) <= GateLimit

Within(S, limit) == IsFiniteSet(S) /\ Cardinality(S) <= limit

LEMMA Fewer ==
    ASSUME NEW limit \in Nat, NEW S, Within(S, limit), NEW T \in SUBSET S
    PROVE  Within(T, limit)
<1>1. IsFiniteSet(T) /\ Cardinality(T) <= Cardinality(S)
  BY FS_Subset DEF Within
<1> QED
  BY <1>1, FS_CardinalityType DEF Within

LEMMA OneMore ==
    ASSUME NEW limit \in Nat, NEW S, IsFiniteSet(S), Cardinality(S) < limit,
           NEW x, NEW T \in SUBSET (S \cup {x})
    PROVE  Within(T, limit)
<1>1. /\ IsFiniteSet(S \cup {x})
      /\ \/ Cardinality(S \cup {x}) = Cardinality(S)
         \/ Cardinality(S \cup {x}) = Cardinality(S) + 1
  BY FS_AddElement
<1>2. Within(S \cup {x}, limit)
  BY <1>1, FS_CardinalityType DEF Within
<1> QED
  BY <1>2, Fewer

LEMMA NoneWithin ==
    ASSUME NEW limit \in Nat
    PROVE  Within({}, limit)
  BY FS_EmptySet DEF Within

\* The sets of permits that are in use.  A gate is named by an attempt that
\* has passed it: the hop of one that has not may still change.
LimitsInv ==
    \A P \in Lookups :
        /\ Within(Permits(P), RaceLimit)
        /\ attempt[P] = "head" => Within(Gate(P), GateLimit)

LEMMA SameGate ==
    ASSUME NEW Q \in Lookups, NEW R \in Gate(Q)
    PROVE  R \in Lookups /\ attempt[R] = "head" /\ Gate(R) = Gate(Q)
  BY DEF Gate

LEMMA GateWithin ==
    ASSUME LimitsInv, NEW Q \in Lookups
    PROVE  Within(Gate(Q), GateLimit)
<1>1. CASE Gate(Q) = {}
  BY <1>1, NoneWithin, LimitAssumption
<1>2. CASE Gate(Q) # {}
  <2>1. PICK R \in Gate(Q) : TRUE
    BY <1>2
  <2> QED
    BY <2>1, SameGate DEF LimitsInv
<1> QED
  BY <1>1, <1>2

\* Races of clients begin with a permit.
LEMMA PermitsStep ==
    ASSUME HopsInv, LimitsInv, [Next]_vars, NEW R \in Lookups
    PROVE  Within(Permits(R)', RaceLimit)
<1> USE DEF Running
<1>1. ASSUME NEW P \in Lookups, TakePermit(P)
      PROVE  Within(Permits(R)', RaceLimit)
  <2>1. \A Q \in Lookups \ {P} : handler'[Q] = handler[Q]
    BY <1>1 DEF TakePermit, Moves, HopsInv, TypeOK
  <2>2. hop' = hop
    BY <1>1 DEF TakePermit
  <2>3. CASE At(R) = At(P)
    <3>1. Permits(R) = Permits(P)
      BY <2>3 DEF Permits
    <3>2. Permits(R)' \in SUBSET (Permits(R) \cup {P})
      BY <2>1, <2>2 DEF Permits
    <3>3. IsFiniteSet(Permits(R)) /\ Cardinality(Permits(R)) < RaceLimit
      BY <1>1, <3>1 DEF TakePermit, LimitsInv, Within
    <3> QED
      BY <3>2, <3>3, OneMore, LimitAssumption
  <2>4. CASE At(R) # At(P)
    <3>1. Permits(R)' \in SUBSET Permits(R)
      BY <2>1, <2>2, <2>4 DEF Permits
    <3> QED
      BY <3>1, Fewer, LimitAssumption DEF LimitsInv
  <2> QED
    BY <2>3, <2>4
<1>2. ASSUME \A Q \in Lookups : hop'[Q] = "Client" /\ Running(Q)' =>
                                   hop[Q] = "Client" /\ Running(Q)
      PROVE  Within(Permits(R)', RaceLimit)
  <2>1. Permits(R)' \in SUBSET Permits(R)
    BY <1>2 DEF Permits
  <2> QED
    BY <2>1, Fewer, LimitAssumption DEF LimitsInv
<1>3. ASSUME NEW P \in Lookups, NEW s, Moves(P, s), hop' = hop,
             \/ s \in {"arrived", "permit", "done"}
             \/ s \in {"group", "race"} /\ Running(P)
             \/ s = "group" /\ hop[P] = "Peer"
      PROVE  Within(Permits(R)', RaceLimit)
  <2>1. handler'[P] = s /\ \A Q \in Lookups \ {P} : handler'[Q] = handler[Q]
    BY <1>3 DEF Moves, HopsInv, TypeOK
  <2> QED
    BY <1>2, <1>3, <2>1
<1>4. ASSUME NEW c \in Clients, Arrive(c)
      PROVE  Within(Permits(R)', RaceLimit)
  BY <1>3, <1>4, ClientLookup DEF Arrive
<1>5. ASSUME NEW P \in Lookups, Resolve(P) \/ Cached(P)
      PROVE  Within(Permits(R)', RaceLimit)
  BY <1>3, <1>5 DEF Resolve, Cached
<1>6. ASSUME NEW P \in Lookups,
             RaceGroup(P) \/ NoGroup(P) \/ NextGroup(P) \/ Drop(P)
      PROVE  Within(Permits(R)', RaceLimit)
  BY <1>3, <1>6 DEF RaceGroup, NoGroup, NextGroup, Drop
<1>7. ASSUME NEW P \in Lookups, Commit(P)
      PROVE  Within(Permits(R)', RaceLimit)
  BY <1>3, <1>7 DEF Commit
<1>8. ASSUME NEW Q \in Lookups, Send(Q)
      PROVE  Within(Permits(R)', RaceLimit)
  BY <1>2, <1>8 DEF Send, Reaches, Moves, HopsInv, TypeOK
<1>9. ASSUME NEW Q \in Lookups, Ends(Q)
      PROVE  Within(Permits(R)', RaceLimit)
  BY <1>2, <1>9 DEF Ends
<1>10. ASSUME NEW P \in Lookups, Win(P)
       PROVE  Within(Permits(R)', RaceLimit)
  <2>1. PICK Q \in Due(P) :
           /\ handler' = [handler EXCEPT ![P] = "commit", ![Q] = "arrived"]
           /\ hop' = [hop EXCEPT ![Q] = PassedOn(hop[P])]
    BY <1>10 DEF Win
  <2>2. Q \in Lookups /\ Q # P /\ handler[P] = "race"
    BY <1>10, DueIdle, Below DEF Win
  <2>3. /\ handler'[Q] = "arrived" /\ handler'[P] = "commit"
        /\ \A X \in Lookups \ {Q} : hop'[X] = hop[X]
        /\ \A X \in Lookups \ {P, Q} : handler'[X] = handler[X]
    BY <2>1, <2>2 DEF HopsInv, TypeOK
  <2> QED
    BY <1>2, <2>2, <2>3
<1>11. CASE UNCHANGED vars
  BY <1>2, <1>11 DEF vars
<1> QED
  BY <1>1, <1>4, <1>5, <1>6, <1>7, <1>8, <1>9, <1>10, <1>11
  DEF Next, Step, Chance, Answered, TimesOut, NoneWins, Deadline

\* Whoever has an attempt under way keeps its hop.
LEMMA HopStays ==
    ASSUME HopsInv, [Next]_vars, NEW P \in Lookups, handler[P] # "idle"
    PROVE  hop'[P] = hop[P]
<1>1. ASSUME NEW Q \in Lookups, NEW h, hop' = [hop EXCEPT ![Q] = h],
             handler[Q] = "idle"
      PROVE  hop'[P] = hop[P]
  BY <1>1 DEF HopsInv, TypeOK
<1>2. ASSUME NEW Q \in Lookups, Send(Q)
      PROVE  hop'[P] = hop[P]
  <2>1. handler[Q] = "idle"
    BY <1>2, Above DEF Send, HopsInv, WayInv, UnderWay
  <2> QED
    BY <1>1, <1>2, <2>1 DEF Send, Reaches
<1>3. ASSUME NEW R \in Lookups, Win(R)
      PROVE  hop'[P] = hop[P]
  <2>1. PICK Q \in Due(R) : hop' = [hop EXCEPT ![Q] = PassedOn(hop[R])]
    BY <1>3 DEF Win
  <2>2. Q \in Lookups /\ handler[Q] = "idle"
    BY DueIdle, Below
  <2> QED
    BY <1>1, <2>1, <2>2
<1>4. ASSUME hop' = hop PROVE hop'[P] = hop[P]
  BY <1>4
<1> QED
  BY <1>2, <1>3, <1>4
  DEF Next, Step, Chance, Arrive, Resolve, Cached, TakePermit, RaceGroup,
      NoGroup, Answered, TimesOut, Ends, NoneWins, Deadline, NextGroup, Commit,
      Drop, vars

\* Attempts begin with a permit of their gate.
LEMMA GatesStep ==
    ASSUME HopsInv, LimitsInv, [Next]_vars,
           NEW R \in Lookups, attempt'[R] = "head"
    PROVE  Within(Gate(R)', GateLimit)
<1>0. ASSUME NEW X \in Lookups, attempt[X] \in UnderWay
      PROVE  hop'[Parent(X)] = hop[Parent(X)]
  BY <1>0, Above, HopStays
<1>1. ASSUME NEW Q \in Lookups, Send(Q)
      PROVE  Within(Gate(R)', GateLimit)
  <2>1. /\ attempt[Q] = "gate" /\ attempt'[Q] = "head"
        /\ \A X \in Lookups \ {Q} : attempt'[X] = attempt[X]
    BY <1>1 DEF Send, HopsInv, TypeOK
  <2>2. \A X \in Lookups : attempt'[X] = "head" =>
           hop'[Parent(X)] = hop[Parent(X)]
    BY <1>0, <2>1 DEF UnderWay
  <2>3. CASE Q \in Gate(R)'
    <3>1. Gate(R)' \in SUBSET (Gate(Q) \cup {Q})
      <4> SUFFICES ASSUME NEW X \in Gate(R)', X # Q
                   PROVE  X \in Gate(Q)
        OBVIOUS
      <4>1. X \in Lookups /\ attempt'[X] = "head" /\ attempt[X] = "head"
        BY <2>1 DEF Gate
      <4>2. /\ At(Parent(X)) = At(Parent(R)) /\ At(X) = At(R)
            /\ hop'[Parent(X)] = hop'[Parent(R)]
        BY DEF Gate
      <4>3. /\ At(Parent(Q)) = At(Parent(R)) /\ At(Q) = At(R)
            /\ hop'[Parent(Q)] = hop'[Parent(R)]
        BY <2>3 DEF Gate
      <4>4. hop[Parent(X)] = hop[Parent(Q)]
        BY <2>1, <2>2, <4>1, <4>2, <4>3
      <4> QED
        BY <4>1, <4>2, <4>3, <4>4 DEF Gate
    <3>2. IsFiniteSet(Gate(Q)) /\ Cardinality(Gate(Q)) < GateLimit
      BY <1>1, GateWithin DEF Send, Within
    <3> QED
      BY <3>1, <3>2, OneMore, LimitAssumption
  <2>4. CASE Q \notin Gate(R)'
    <3>1. Gate(R)' \in SUBSET Gate(R)
      <4> SUFFICES ASSUME NEW X \in Gate(R)'
                   PROVE  X \in Gate(R)
        OBVIOUS
      <4>1. X \in Lookups /\ attempt'[X] = "head" /\ attempt[X] = "head"
        BY <2>1, <2>4 DEF Gate
      <4> QED
        BY <2>2, <4>1 DEF Gate
    <3> QED
      BY <3>1, GateWithin, Fewer, LimitAssumption
  <2> QED
    BY <2>3, <2>4
<1>2. ASSUME \A X \in Lookups : attempt'[X] = "head" => attempt[X] = "head"
      PROVE  Within(Gate(R)', GateLimit)
  <2>1. \A X \in Lookups : attempt'[X] = "head" =>
           hop'[Parent(X)] = hop[Parent(X)]
    BY <1>0, <1>2 DEF UnderWay
  <2>2. Gate(R)' \in SUBSET Gate(R)
    BY <1>2, <2>1 DEF Gate
  <2> QED
    BY <2>2, GateWithin, Fewer, LimitAssumption
<1>3. ASSUME attempt' = attempt
      PROVE  Within(Gate(R)', GateLimit)
  BY <1>2, <1>3
<1>4. ASSUME NEW P \in Lookups, RaceGroup(P)
      PROVE  Within(Gate(R)', GateLimit)
  BY <1>2, <1>4 DEF RaceGroup
<1>5. ASSUME NEW Q \in Lookups, Ends(Q)
      PROVE  Within(Gate(R)', GateLimit)
  BY <1>2, <1>5 DEF Ends, HopsInv, TypeOK
<1>6. ASSUME NEW P \in Lookups, NextGroup(P) \/ Drop(P)
      PROVE  Within(Gate(R)', GateLimit)
  BY <1>2, <1>6, DroppedParts DEF NextGroup, Drop
<1>7. ASSUME NEW P \in Lookups, Win(P)
      PROVE  Within(Gate(R)', GateLimit)
  <2>1. PICK Q \in Due(P) :
           attempt' = [Dropped(P, {At(Q)}) EXCEPT ![Q] = "get"]
    BY <1>7 DEF Win
  <2>2. Q \in Lookups
    BY DueIdle, Below
  <2> QED
    BY <1>2, <2>1, <2>2, DroppedParts
<1> QED
  BY <1>1, <1>3, <1>4, <1>5, <1>6, <1>7
  DEF Next, Step, Chance, Arrive, Resolve, Cached, TakePermit, NoGroup,
      Answered, TimesOut, NoneWins, Deadline, Commit, vars

\* No instance races for more clients than max_concurrent_races, nor sends an
\* upstream more HEADs of a hop at a time than per_upstream_max_inflight,
\* whatever is won, dropped and answered in between.
THEOREM HopsLimitsKept == Spec => []LimitsKept
<1>1. Init => LimitsInv
  <2> SUFFICES ASSUME Init, NEW P \in Lookups
               PROVE  Within(Permits(P), RaceLimit) /\ attempt[P] # "head"
    BY DEF LimitsInv
  <2>1. Permits(P) = {} /\ attempt[P] # "head"
    BY DEF Init, Permits, Running
  <2> QED
    BY <2>1, NoneWithin, LimitAssumption
<1>2. HopsInv /\ LimitsInv /\ [Next]_vars => LimitsInv'
  <2> SUFFICES ASSUME HopsInv, LimitsInv, [Next]_vars, NEW P \in Lookups
               PROVE  /\ Within(Permits(P)', RaceLimit)
                      /\ attempt'[P] = "head" => Within(Gate(P)', GateLimit)
    BY DEF LimitsInv
  <2> QED
    BY PermitsStep, GatesStep
<1>3. LimitsInv => LimitsKept
  <2> SUFFICES ASSUME LimitsInv, NEW P \in Lookups
               PROVE  /\ Cardinality(Permits(P)) <= RaceLimit
                      /\ Cardinality(Gate(P)) <= GateLimit
    BY DEF LimitsKept
  <2> QED
    BY GateWithin DEF LimitsInv, Within
<1> QED
  BY <1>1, <1>2, <1>3, HopsInvariant, PTL DEF Spec

---------------------------------------------------------------------------
(* Waiting *)

\* A lookup that somebody works on: its handler, or its sender.
Working(P) == Open(P) \/ attempt[P] \in UnderWay

\* Who P may have to wait for: the holder of its flight, the holders of the
\* permits, the requests that passed its gate, its own attempts.
Blockers(P) ==
    {Q \in Lookups :
        \/ /\ handler[P] = "arrived" /\ hop[P] = "Client"
           /\ Q # P /\ At(Q) = At(P) /\ Hash[Q[1]] = Hash[P[1]]
           /\ hop[Q] = "Client" /\ (handler[Q] = "permit" \/ Running(Q))
        \/ handler[P] = "permit" /\ Q \in Permits(P)
        \/ attempt[P] = "gate" /\ Q \in Gate(P)
        \/ handler[P] \in {"race", "commit"} /\ Q \in Busy(P)}

\* How far P has come, counting from its client.
Stage(P) == IF Open(P) THEN handler[P] ELSE attempt[P]
Order == [gate |-> 0, head |-> 1, get |-> 1, arrived |-> 2, permit |-> 3,
          group |-> 4, race |-> 5, commit |-> 5]
Rank(P) == 6 * Len(P) + Order[Stage(P)]

\* Everybody waits only for those that have come further, and nobody comes
\* further than the third instance.
NoCircle ==
    \A P \in Lookups :
        Working(P) =>
            /\ Rank(P) \in 6..23
            /\ \A Q \in Blockers(P) : Working(Q) /\ Rank(Q) > Rank(P)

\* What Step(P) asks of the state.
CanStep(P) ==
    \/ handler[P] = "arrived" /\ (hop[P] # "Client" \/ FlightFree(P))
    \/ handler[P] = "permit" /\ Cardinality(Permits(P)) < RaceLimit
    \/ handler[P] = "group"
    \/ attempt[P] = "gate" /\ Cardinality(Gate(P)) < GateLimit
    \/ attempt[P] \in {"head", "get"} /\ handler[P] = "done"
    \/ handler[P] \in {"race", "commit"} /\ Busy(P) = {}

\* While anybody is worked for, somebody can go on.
NeverStuck ==
    (\E P \in Lookups : Working(P)) => \E P \in Lookups : CanStep(P)

\* Where everybody is that is worked for.
LEMMA Stages ==
    ASSUME HopsInv, NEW P \in Lookups, Working(P)
    PROVE  /\ Len(P) \in 1..3
           /\ \/ /\ Open(P) /\ Stage(P) = handler[P]
                 /\ hop[P] = HopAt(Len(P))
              \/ /\ ~Open(P) /\ Stage(P) = attempt[P]
                 /\ attempt[P] \in UnderWay
           /\ attempt[P] = "gate" => ~Open(P)
<1>0. \A n \in Nat : 1 <= n /\ n <= 3 => n \in 1..3
  OBVIOUS
<1>1. Len(P) \in Nat /\ 1 <= Len(P)
  BY LookupShape
<1>2. CASE Open(P)
  <2>1. Len(P) <= 3 /\ hop[P] = HopAt(Len(P)) /\ handler[P] # "idle"
    BY <1>2 DEF Open, HopsInv, WayInv
  <2>2. attempt[P] # "gate"
    <3> SUFFICES ASSUME attempt[P] = "gate" PROVE FALSE
      OBVIOUS
    <3>1. Len(P) > 1
      BY Above DEF UnderWay
    <3> QED
      BY <2>1, <3>1 DEF HopsInv, WayInv
  <2>3. Len(P) \in 1..3
    BY <1>0, <1>1, <2>1, Zenon
  <2> QED
    BY <1>2, <2>1, <2>2, <2>3, Zenon DEF Stage
<1>3. CASE ~Open(P)
  <2>1. attempt[P] \in UnderWay
    BY <1>3 DEF Working
  <2>2. Len(P) <= 3
    BY <2>1, Above
  <2>3. Len(P) \in 1..3
    BY <1>0, <1>1, <2>2, Zenon
  <2> QED
    BY <1>3, <2>1, <2>3, Zenon DEF Stage
<1> QED
  BY <1>2, <1>3

LEMMA RankOf ==
    ASSUME HopsInv, NEW P \in Lookups, Working(P)
    PROVE  /\ Stage(P) = "gate" => Rank(P) = 6 * Len(P)
           /\ Stage(P) \in {"head", "get"} => Rank(P) = 6 * Len(P) + 1
           /\ Stage(P) = "arrived" => Rank(P) = 6 * Len(P) + 2
           /\ Stage(P) = "permit" => Rank(P) = 6 * Len(P) + 3
           /\ Stage(P) = "group" => Rank(P) = 6 * Len(P) + 4
           /\ Stage(P) \in {"race", "commit"} => Rank(P) = 6 * Len(P) + 5
           /\ Rank(P) \in (6 * Len(P))..(6 * Len(P) + 5)
           /\ Rank(P) \in 6..23
<1>1. /\ Order["gate"] = 0 /\ Order["head"] = 1 /\ Order["get"] = 1
      /\ Order["arrived"] = 2 /\ Order["permit"] = 3 /\ Order["group"] = 4
      /\ Order["race"] = 5 /\ Order["commit"] = 5
  BY DEF Order
<1>2. Len(P) \in 1..3
      /\ Stage(P) \in {"gate", "head", "get", "arrived", "permit", "group",
                       "race", "commit"}
  BY Stages DEF Open, UnderWay
<1> DEFINE n == Len(P)
           o == Order[Stage(P)]
<1>3. n \in 1..3 /\ o \in 0..5 /\ Rank(P) = 6 * n + o
  BY <1>1, <1>2 DEF Rank
<1>4. /\ Stage(P) = "gate" => o = 0
      /\ Stage(P) \in {"head", "get"} => o = 1
      /\ Stage(P) = "arrived" => o = 2
      /\ Stage(P) = "permit" => o = 3
      /\ Stage(P) = "group" => o = 4
      /\ Stage(P) \in {"race", "commit"} => o = 5
  BY <1>1
<1> HIDE DEF n, o
<1>5. 6 * n + o \in (6 * n)..(6 * n + 5) /\ 6 * n + o \in 6..23
      /\ 6 * n + 0 = 6 * n
  BY <1>3
<1> QED
  BY <1>3, <1>4, <1>5 DEF n

\* Requests that pass one gate have come equally far.
LEMMA GateRank ==
    ASSUME HopsInv, NEW P \in Lookups, attempt[P] = "gate", NEW Q \in Gate(P)
    PROVE  Q \in Lookups /\ attempt[Q] = "head" /\ Len(Q) = Len(P)
<1>1. /\ Q \in Lookups /\ attempt[Q] = "head"
      /\ hop[Parent(Q)] = hop[Parent(P)]
  BY DEF Gate
<1>2. /\ Len(P) \in Nat /\ Len(P) > 1 /\ Len(P) <= 3
      /\ hop[Parent(P)] = HopAt(Len(P) - 1)
  BY Above DEF UnderWay
<1>3. /\ Len(Q) \in Nat /\ Len(Q) > 1 /\ Len(Q) <= 3
      /\ hop[Parent(Q)] = HopAt(Len(Q) - 1)
  BY <1>1, Above DEF UnderWay
<1>4. \A m, n \in 2..3 : HopAt(m - 1) = HopAt(n - 1) => m = n
  BY DEF HopAt
<1>5. \A n \in Nat : n > 1 /\ n <= 3 => n \in 2..3
  OBVIOUS
<1>6. Len(P) \in 2..3 /\ Len(Q) \in 2..3
  BY <1>2, <1>3, <1>5, Zenon
<1> QED
  BY <1>1, <1>2, <1>3, <1>4, <1>6

LEMMA NoCircleHolds == HopsInv => NoCircle
<1> SUFFICES ASSUME HopsInv, NEW P \in Lookups, Working(P),
                    NEW Q \in Blockers(P)
             PROVE  Working(Q) /\ Rank(Q) > Rank(P)
  BY RankOf DEF NoCircle
<1>0. Q \in Lookups /\ Len(P) \in 1..3
  BY Stages DEF Blockers
<1>1. ASSUME hop[Q] = "Client", handler[Q] = "permit" \/ Running(Q)
      PROVE  Working(Q) /\ Len(Q) = 1 /\ Stage(Q) = handler[Q]
  <2>1. Working(Q) /\ Open(Q)
    BY <1>1 DEF Working, Open, Running
  <2>2. HopAt(Len(Q)) = "Client" /\ Len(Q) \in 1..3 /\ Stage(Q) = handler[Q]
    BY <1>0, <1>1, <2>1, Stages
  <2> QED
    BY <2>1, <2>2 DEF HopAt
<1>2. CASE /\ handler[P] = "arrived" /\ hop[P] = "Client"
           /\ hop[Q] = "Client" /\ (handler[Q] = "permit" \/ Running(Q))
  <2>1. Len(P) = 1 /\ Stage(P) = "arrived"
    BY <1>0, <1>2, Stages DEF HopAt, Open
  <2>2. Working(Q) /\ Len(Q) = 1
        /\ Stage(Q) \in {"permit", "group", "race", "commit"}
    BY <1>1, <1>2 DEF Running
  <2>3. /\ Rank(P) = 6 * Len(P) + 2
        /\ Rank(Q) \in {6 * Len(Q) + 3, 6 * Len(Q) + 4, 6 * Len(Q) + 5}
    BY <1>0, <2>1, <2>2, RankOf, Zenon
  <2> QED
    BY <2>1, <2>2, <2>3
<1>3. CASE handler[P] = "permit" /\ Q \in Permits(P)
  <2>1. hop[Q] = "Client" /\ Running(Q)
    BY <1>3 DEF Permits
  <2>2. /\ Working(Q) /\ Len(Q) = 1
        /\ Stage(Q) \in {"group", "race", "commit"}
    BY <1>1, <2>1 DEF Running
  <2>3. Len(P) = 1 /\ Stage(P) = "permit"
    BY <1>3, Stages DEF HopsInv, WayInv, Open
  <2>4. /\ Rank(P) = 6 * Len(P) + 3
        /\ Rank(Q) \in {6 * Len(Q) + 4, 6 * Len(Q) + 5}
    BY <1>0, <2>2, <2>3, RankOf, Zenon
  <2> QED
    BY <2>2, <2>3, <2>4
<1>4. CASE attempt[P] = "gate" /\ Q \in Gate(P)
  <2>1. attempt[Q] = "head" /\ Len(Q) = Len(P)
    BY <1>4, GateRank
  <2>2. Working(Q) /\ Stage(P) = "gate"
    BY <1>4, <2>1, Stages DEF Working, UnderWay
  <2>3. Stage(Q) \in {"head", "arrived", "permit", "group", "race", "commit"}
    BY <2>1 DEF Stage, Open
  <2>4. /\ Rank(P) = 6 * Len(P)
        /\ Rank(Q) \in {6 * Len(Q) + 1, 6 * Len(Q) + 2, 6 * Len(Q) + 3,
                        6 * Len(Q) + 4, 6 * Len(Q) + 5}
    BY <1>0, <2>2, <2>3, RankOf, Zenon
  <2> QED
    BY <1>0, <2>1, <2>2, <2>4
<1>5. CASE handler[P] \in {"race", "commit"} /\ Q \in Busy(P)
  <2>1. Len(Q) = Len(P) + 1 /\ attempt[Q] \in UnderWay
    BY <1>5, Below DEF Busy, UnderWay
  <2>2. Working(Q) /\ Stage(P) \in {"race", "commit"}
    BY <1>5, <2>1 DEF Working, Stage, Open
  <2>3. /\ Rank(P) = 6 * Len(P) + 5
        /\ Rank(Q) \in (6 * Len(Q))..(6 * Len(Q) + 5)
    BY <1>0, <2>2, RankOf, Zenon
  <2> QED
    BY <1>0, <2>1, <2>2, <2>3
<1> QED
  BY <1>2, <1>3, <1>4, <1>5 DEF Blockers

\* Who has nobody to wait for can go on.
LEMMA UnblockedSteps ==
    ASSUME HopsInv, NEW P \in Lookups, Working(P), Blockers(P) = {}
    PROVE  CanStep(P)
<1>0. Cardinality({}) = 0
  BY FS_EmptySet
<1>1. CASE handler[P] = "arrived"
  <2>1. hop[P] # "Client" \/ FlightFree(P)
    BY <1>1 DEF FlightFree, Blockers
  <2> QED
    BY <1>1, <2>1 DEF CanStep
<1>2. CASE handler[P] = "permit"
  <2>1. Permits(P) = {}
    BY <1>2 DEF Permits, Blockers
  <2> QED
    BY <1>0, <1>2, <2>1, LimitAssumption DEF CanStep
<1>3. CASE attempt[P] = "gate"
  <2>1. Gate(P) = {}
    BY <1>3 DEF Gate, Blockers
  <2> QED
    BY <1>0, <1>3, <2>1, LimitAssumption DEF CanStep
<1>4. CASE handler[P] \in {"race", "commit"}
  <2>1. Busy(P) \subseteq Lookups
    BY Below DEF Busy
  <2>2. Busy(P) = {}
    BY <1>4, <2>1 DEF Blockers
  <2> QED
    BY <1>4, <2>2 DEF CanStep
<1>5. CASE handler[P] = "group"
  BY <1>5 DEF CanStep
<1>6. CASE ~Open(P) /\ attempt[P] \in {"head", "get"}
  <2>1. handler[P] = "done"
    BY <1>6 DEF Open, HopsInv, TypeOK, WayInv
  <2> QED
    BY <1>6, <2>1 DEF CanStep
<1> QED
  BY <1>1, <1>2, <1>3, <1>4, <1>5, <1>6, Stages DEF Open, UnderWay

LEMMA NeverStuckHolds == HopsInv /\ NoCircle => NeverStuck
<1> SUFFICES ASSUME HopsInv, NoCircle, NEW P \in Lookups, Working(P)
             PROVE  \E Q \in Lookups : CanStep(Q)
  BY DEF NeverStuck
<1> DEFINE T == {23 - Rank(Q) : Q \in {R \in Lookups : Working(R)}}
           L == OpToRel(<, Nat)
<1>1. IsWellFoundedOn(L, Nat)
  BY NatLessThanWellFounded
<1>2. \A m, n \in Nat : m < n => <<m, n>> \in L
  BY DEF OpToRel
<1> HIDE DEF L
<1>3. \A R \in Lookups : Working(R) => Rank(R) \in 6..23
  BY DEF NoCircle
<1>4. \A r \in 6..23 : 23 - r \in Nat
  OBVIOUS
<1>5. T \subseteq Nat /\ T # {}
  BY <1>3, <1>4, Zenon
<1>6. PICK t \in T : \A u \in T : ~(<<u, t>> \in L)
  <2> HIDE DEF T
  <2> QED
    BY <1>1, <1>5, WFMin
<1>7. PICK Q \in Lookups : Working(Q) /\ t = 23 - Rank(Q)
  BY <1>6
<1>8. Blockers(Q) = {}
  <2> SUFFICES ASSUME NEW R \in Blockers(Q) PROVE FALSE
    OBVIOUS
  <2>1. R \in Lookups /\ Working(R) /\ Rank(R) > Rank(Q)
    BY <1>7 DEF NoCircle, Blockers
  <2>2. 23 - Rank(R) \in T
    BY <2>1
  <2>3. \A r, q \in 6..23 : r > q => /\ 23 - r \in Nat /\ 23 - q \in Nat
                                     /\ 23 - r < 23 - q
    OBVIOUS
  <2>4. /\ 23 - Rank(R) \in Nat /\ 23 - Rank(Q) \in Nat
        /\ 23 - Rank(R) < 23 - Rank(Q)
    BY <1>3, <1>7, <2>1, <2>3
  <2> QED
    BY <1>2, <1>6, <1>7, <2>2, <2>4, Zenon
<1> QED
  BY <1>7, <1>8, UnblockedSteps

\* Gates, permits and flights never make lookups wait for each other in a
\* circle, whatever the limits, however the instances ask each other and
\* whoever goes on for a lookup that was dropped: the safety that
\* LookupsAnswered rests on.
THEOREM HopsNoDeadlock == Spec => [](NoCircle /\ NeverStuck)
<1>1. HopsInv => NoCircle /\ NeverStuck
  BY NoCircleHolds, NeverStuckHolds
<1> QED
  BY <1>1, HopsInvariant, PTL
===========================================================================
