---------------------------- MODULE GossipProofs ----------------------------
(***************************************************************************)
(* Proofs about Gossip, for any instances, peers, paths and bounds.        *)
(***************************************************************************)
EXTENDS Gossip, FiniteSetTheorems, TLAPS

\* set_route keeps one row for a path.
LEMMA PutKeeps ==
    ASSUME NEW table \in SUBSET Routes, OneRowEach(table), NEW r \in Routes
    PROVE  Put(table, r) \in SUBSET Routes /\ OneRowEach(Put(table, r))
  BY DEF Put, OneRowEach

LEMMA SomeAreOneEach ==
    ASSUME NEW table, OneRowEach(table), NEW S \in SUBSET table
    PROVE  OneRowEach(S)
  BY DEF OneRowEach

\* An interval later a route is the same, and not younger.
LEMMA OlderType ==
    ASSUME NEW r \in Routes
    PROVE  /\ Older(r) \in Routes
           /\ Older(r).path = r.path /\ Older(r).lat = r.lat
           /\ r.age <= Older(r).age
  BY NumberAssumption DEF Older, Routes

LEMMA AtMostOne ==
    /\ Cardinality({}) <= 1
    /\ \A r : Cardinality({r}) <= 1
  BY FS_EmptySet, FS_Singleton

---------------------------------------------------------------------------
(* Types *)

LEMMA TypeInit == Init => TypeOK
  BY AtMostOne, NumberAssumption DEF Init, TypeOK, OneRowEach

LEMMA TypeStep == TypeOK /\ [Next]_vars => TypeOK'
<1> SUFFICES ASSUME TypeOK, [Next]_vars
             PROVE  TypeOK'
  OBVIOUS
<1> USE DEF TypeOK
<1>1. ASSUME NEW n \in Nodes, NEW p \in Paths, NEW lat \in Latencies[n][p],
             Commit(n, p, lat)
      PROVE  TypeOK'
  <2> DEFINE r == [path |-> p, lat |-> lat, age |-> 0]
  <2>1. r \in Routes
    BY NumberAssumption DEF Routes
  <2>2. Put(rows[n], r) \in SUBSET Routes /\ OneRowEach(Put(rows[n], r))
    BY <2>1, PutKeeps
  <2> QED
    BY <1>1, <2>2 DEF Commit
<1>2. ASSUME NEW n \in Nodes, ExpireOldRoutes(n)
      PROVE  TypeOK'
  BY <1>2 DEF ExpireOldRoutes, OneRowEach
<1>3. ASSUME NEW n \in Nodes, NEW S \in SUBSET rows[n], Announce(n, S)
      PROVE  TypeOK'
  <2>1. S \in SUBSET Routes /\ OneRowEach(S)
    BY SomeAreOneEach
  <2>2. ASSUME NEW m \in Peers[n]
        PROVE  [from |-> n, to |-> m, routes |-> S] \in Packets
    BY <2>1, PeersAssumption DEF Packets
  <2>3. \A k \in net' : \/ k \in net
                        \/ \E m \in Peers[n] :
                               k = [from |-> n, to |-> m, routes |-> S]
    BY <1>3 DEF Announce
  <2>4. /\ net' \subseteq Packets
        /\ \A k \in net' : OneRowEach(k.routes) /\ k.to \in Peers[k.from]
    BY <2>1, <2>2, <2>3
  <2> QED
    BY <1>3, <2>4 DEF Announce
<1>4. ASSUME NEW n \in Nodes, NEW k \in net, Hear(n, k)
      PROVE  todo' \in [Nodes -> SUBSET Routes]
  <2>1. {r \in k.routes : Live(r)} \in SUBSET Routes
    BY DEF Packets
  <2> QED
    BY <1>4, <2>1 DEF Hear
<1>5. ASSUME NEW n \in Nodes, NEW k \in net, Receive(n, k)
      PROVE  TypeOK'
  BY <1>4, <1>5 DEF Receive, Hear
<1>6. ASSUME Fault
      PROVE  faults' \in 0..MaxFaults
  BY <1>6, NumberAssumption DEF Fault
<1>7. ASSUME NEW n \in Nodes, NEW k \in net, ReceiveFirst(n, k)
      PROVE  TypeOK'
  BY <1>4, <1>6, <1>7 DEF ReceiveFirst, Hear
<1>8. ASSUME NEW k \in net, Lose(k)
      PROVE  TypeOK'
  BY <1>6, <1>8 DEF Lose
<1>9. ASSUME NEW n \in Nodes, NEW r \in todo[n], Compare(n, r)
      PROVE  TypeOK'
  <2>1. r \in Routes
    OBVIOUS
  <2>2. /\ chosen' \in [Nodes -> SUBSET Routes]
        /\ \A m \in Nodes : chosen'[m] = chosen[m] \/ chosen'[m] = {}
                                                   \/ chosen'[m] = {r}
    BY <1>9, <2>1 DEF Compare
  <2>3. \A m \in Nodes : Cardinality(chosen'[m]) <= 1
    BY <2>2, AtMostOne
  <2> QED
    BY <1>9, <2>2, <2>3 DEF Compare, Takes
<1>10. ASSUME NEW n \in Nodes, NEW r \in chosen[n], Store(n, r)
       PROVE  TypeOK'
  <2>1. Put(rows[n], r) \in SUBSET Routes /\ OneRowEach(Put(rows[n], r))
    BY PutKeeps
  <2> QED
    BY <1>10, <2>1, AtMostOne DEF Store
<1>11. ASSUME NEW n \in Nodes, NEW r \in todo[n], CompareFails(n, r)
       PROVE  TypeOK'
  BY <1>6, <1>11 DEF CompareFails, Takes
<1>12. ASSUME NEW n \in Nodes, StoreFails(n)
       PROVE  TypeOK'
  BY <1>6, <1>12, AtMostOne DEF StoreFails
<1>13. ASSUME NEW n \in Nodes, Restart(n)
       PROVE  TypeOK'
  BY <1>6, <1>13, AtMostOne DEF Restart
<1>14. CASE Tick
  <2>1. ASSUME NEW n \in Nodes
        PROVE  /\ {Older(r) : r \in rows[n]} \in SUBSET Routes
               /\ OneRowEach({Older(r) : r \in rows[n]})
    <3>1. \A r \in rows[n] : Older(r) \in Routes /\ Older(r).path = r.path
      BY OlderType
    <3> QED
      BY <3>1 DEF OneRowEach
  <2> QED
    BY <1>14, <2>1 DEF Tick
<1>15. ASSUME NEW p \in Paths, HeldChanges(p)
       PROVE  TypeOK'
  BY <1>15 DEF HeldChanges
<1>16. CASE UNCHANGED vars
  BY <1>16 DEF vars
<1> QED
  BY <1>1, <1>2, <1>3, <1>5, <1>7, <1>8, <1>9, <1>10, <1>11, <1>12, <1>13,
     <1>14, <1>15, <1>16 DEF Next, Mesh

\* Whatever is lost, repeated, merged and restarted: the table of every
\* instance and every packet has one route for a path.
THEOREM GossipTypeCorrect == Spec => []TypeOK
<1>1. Init => TypeOK
  BY TypeInit
<1>2. TypeOK /\ [Next]_vars => TypeOK'
  BY TypeStep
<1> QED
  BY <1>1, <1>2, PTL DEF Spec

---------------------------------------------------------------------------
(* Nobody renews a route *)

\* Routes that are in a table, in a packet or in the hands of a listener.
Known ==
    {r \in Routes :
        \/ \E n \in Nodes : r \in rows[n] \/ r \in todo[n] \/ r \in chosen[n]
        \/ \E k \in net : r \in k.routes}

\* r was known before, and was not older.
Kept(r) ==
    \E x \in Known : x.path = r.path /\ x.lat = r.lat /\ x.age <= r.age

\* A step leaves only routes that were known, at the age they had or an older
\* one, and those that a lookup has just verified at an upstream.
NeverRenewed ==
    [][\A r \in Known' : Kept(r) \/ (r.age = 0 /\ r.path \in held)]_vars

LEMMA KnownIsKept ==
    ASSUME NEW r \in Known
    PROVE  Kept(r)
  BY NumberAssumption DEF Kept, Known, Routes

LEMMA StepKeeps ==
    ASSUME TypeOK, Next
    PROVE  \A r \in Known' : Kept(r) \/ (r.age = 0 /\ r.path \in held)
<1> SUFFICES ASSUME NEW r \in Known'
             PROVE  Kept(r) \/ (r.age = 0 /\ r.path \in held)
  OBVIOUS
<1>0. r \in Routes
  BY DEF Known
<1>1. ASSUME NEW n \in Nodes, NEW p \in Paths, NEW lat \in Latencies[n][p],
             Commit(n, p, lat)
      PROVE  r \in Known \/ (r.age = 0 /\ r.path \in held)
  <2>1. \A m \in Nodes : rows'[m] \subseteq
           rows[m] \cup {[path |-> p, lat |-> lat, age |-> 0]}
    BY <1>1 DEF Commit, Put, TypeOK
  <2> QED
    BY <1>0, <1>1, <2>1 DEF Commit, Known
<1>2. ASSUME NEW n \in Nodes, ExpireOldRoutes(n)
      PROVE  r \in Known
  <2>1. \A m \in Nodes : rows'[m] \subseteq rows[m]
    BY <1>2 DEF ExpireOldRoutes, TypeOK
  <2> QED
    BY <1>0, <1>2, <2>1 DEF ExpireOldRoutes, Known
<1>3. ASSUME NEW n \in Nodes, NEW S \in SUBSET rows[n], Announce(n, S)
      PROVE  r \in Known
  <2>1. \A k \in net' : k \in net \/ k.routes = S
    BY <1>3 DEF Announce
  <2> QED
    BY <1>0, <1>3, <2>1 DEF Announce, Known
<1>4. ASSUME NEW n \in Nodes, NEW k \in net, Hear(n, k), net' \subseteq net
      PROVE  r \in Known
  <2>1. \A m \in Nodes : todo'[m] \subseteq todo[m] \cup k.routes
    BY <1>4 DEF Hear, TypeOK
  <2> QED
    BY <1>0, <1>4, <2>1 DEF Hear, Known
<1>5. ASSUME NEW k \in net, Lose(k)
      PROVE  r \in Known
  BY <1>0, <1>5 DEF Lose, Known
<1>6. ASSUME NEW n \in Nodes, NEW x \in todo[n], Takes(n, x),
             \A m \in Nodes : chosen'[m] \subseteq chosen[m] \cup todo[n]
      PROVE  r \in Known
  <2>1. \A m \in Nodes : todo'[m] \subseteq todo[m]
    BY <1>6 DEF Takes, TypeOK
  <2> QED
    BY <1>0, <1>6, <2>1 DEF Takes, Known
<1>7. ASSUME NEW n \in Nodes, NEW x \in todo[n], Compare(n, x)
      PROVE  r \in Known
  <2>1. \A m \in Nodes : chosen'[m] \subseteq chosen[m] \cup todo[n]
    BY <1>7 DEF Compare, TypeOK
  <2> QED
    BY <1>6, <1>7, <2>1 DEF Compare
<1>8. ASSUME NEW n \in Nodes, NEW x \in todo[n], CompareFails(n, x)
      PROVE  r \in Known
  BY <1>6, <1>8 DEF CompareFails
<1>9. ASSUME NEW n \in Nodes, NEW x \in chosen[n], Store(n, x)
      PROVE  r \in Known
  <2>1. \A m \in Nodes : /\ rows'[m] \subseteq rows[m] \cup chosen[n]
                         /\ chosen'[m] \subseteq chosen[m]
    BY <1>9 DEF Store, Put, TypeOK
  <2> QED
    BY <1>0, <1>9, <2>1 DEF Store, Known
<1>10. ASSUME NEW n \in Nodes, StoreFails(n)
       PROVE  r \in Known
  <2>1. \A m \in Nodes : chosen'[m] \subseteq chosen[m]
    BY <1>10 DEF StoreFails, TypeOK
  <2> QED
    BY <1>0, <1>10, <2>1 DEF StoreFails, Known
<1>11. ASSUME NEW n \in Nodes, Restart(n)
       PROVE  r \in Known
  <2>1. \A m \in Nodes : chosen'[m] \subseteq chosen[m] /\ todo'[m] \subseteq todo[m]
    BY <1>11 DEF Restart, TypeOK
  <2> QED
    BY <1>0, <1>11, <2>1 DEF Restart, Known
<1>12. CASE Tick
  <2>1. CASE r \in Known
    BY <2>1, KnownIsKept
  <2>2. CASE \E n \in Nodes : \E x \in rows[n] : r = Older(x)
    <3>0. PICK n \in Nodes : \E x \in rows[n] : r = Older(x)
      BY <2>2
    <3>1. PICK x \in rows[n] : r = Older(x)
      BY <3>0
    <3>2. x \in Routes /\ x \in Known
      BY DEF TypeOK, Known
    <3> QED
      BY <3>1, <3>2, OlderType DEF Kept
  <2> QED
    BY <1>0, <1>12, <2>1, <2>2 DEF Tick, Known
<1>13. ASSUME NEW p \in Paths, HeldChanges(p)
       PROVE  r \in Known
  BY <1>0, <1>13 DEF HeldChanges, Known
<1> QED
  BY <1>1, <1>2, <1>3, <1>4, <1>5, <1>7, <1>8, <1>9, <1>10, <1>11, <1>12,
     <1>13, KnownIsKept DEF Next, Mesh, Receive, ReceiveFirst

\* No instance takes hearing of a route for having verified it, in whichever
\* order packets come, get lost and are repeated.
THEOREM GossipNeverRenews == Spec => NeverRenewed
<1>1. TypeOK /\ [Next]_vars =>
         [\A r \in Known' : Kept(r) \/ (r.age = 0 /\ r.path \in held)]_vars
  BY StepKeeps
<1> QED
  BY <1>1, GossipTypeCorrect, PTL DEF Spec, NeverRenewed

\* Nobody knows a route to p that is still good, nor is one on its way.
Gone(p) == \A r \in Known : r.path = p => ~Live(r)

\* A path that the mesh has forgotten comes back only once an upstream has
\* it: the safety half of Forgotten.
THEOREM StaysForgotten ==
    ASSUME NEW p \in Paths
    PROVE  Spec => [][Gone(p) /\ p \notin held => Gone(p)']_vars
<1>1. TypeOK /\ [Next]_vars =>
         [Gone(p) /\ p \notin held => Gone(p)']_vars
  <2> SUFFICES ASSUME TypeOK, Next, Gone(p), p \notin held,
                      NEW r \in Known', r.path = p
               PROVE  ~Live(r)
    BY DEF Gone
  <2>1. Kept(r)
    BY StepKeeps
  <2>2. PICK x \in Known : x.path = p /\ x.age <= r.age
    BY <2>1 DEF Kept
  <2>3. ~Live(x) /\ x \in Routes /\ r \in Routes
    BY <2>2 DEF Gone, Known
  <2> QED
    BY <2>2, <2>3, NumberAssumption DEF Live, Routes
<1> QED
  BY <1>1, GossipTypeCorrect, PTL DEF Spec
===========================================================================
