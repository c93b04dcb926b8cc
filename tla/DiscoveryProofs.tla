-------------------------- MODULE DiscoveryProofs --------------------------
(***************************************************************************)
(* What Discovery.cfg checks for two peers and three urls, proved for any  *)
(* number of each.                                                         *)
(***************************************************************************)
EXTENDS Discovery, TLAPS

\* While an announcement is handled: the peer is out of the map, what it had
\* is tracked still, and so is what the loop has visited already.
Adding ==
    task = "add" =>
        /\ by_name[who] = {}
        /\ urls # {}
        /\ todo \subseteq urls
        /\ table = Configured \cup Advertised \cup previous \cup (urls \ todo)

\* While urls are released, the ones yet to be visited are all that is
\* tracked without a reason.
Releasing ==
    task = "release" =>
        /\ Configured \cup Advertised \subseteq table
        /\ table \subseteq Configured \cup Advertised \cup todo

\* The inductive invariant.  TableExact says nothing of the table while an
\* event is handled, so it does not survive a step; these parts fill in what
\* holds at each await.
DiscoveryInv ==
    /\ TypeOK
    /\ Adding
    /\ Releasing
    /\ TableExact

\* The table holds what is configured before anything is discovered.
LEMMA InvInit == Init => DiscoveryInv
  BY ConfiguredAssumption, ExpirationAssumption
     DEF Init, DiscoveryInv, TypeOK, Adding, Releasing, TableExact,
         Advertised, TooOld

\* Every step of the task keeps the invariant.
LEMMA InvStep == DiscoveryInv /\ [Next]_vars => DiscoveryInv'
  <1> SUFFICES ASSUME DiscoveryInv, [Next]_vars PROVE DiscoveryInv'
    OBVIOUS
  <1> USE ConfiguredAssumption, ExpirationAssumption
          DEF DiscoveryInv, TypeOK, Adding, Releasing, TableExact,
              Advertised, TooOld
  <1>1. ASSUME NEW n \in Names, NEW announced \in SUBSET Urls,
               Resolved(n, announced)
        PROVE  DiscoveryInv'
    <2>1. TypeOK'
      BY <1>1 DEF Resolved
    <2>2. Advertised = Advertised' \cup by_name[n]
      BY <1>1 DEF Resolved
    <2>3. Adding' /\ Releasing' /\ TableExact'
      BY <1>1, <2>2 DEF Resolved
    <2> QED BY <2>1, <2>3
  <1>2. ASSUME NEW u \in Urls, Add(u)
        PROVE  DiscoveryInv'
    BY <1>2 DEF Add
  <1>3. CASE Added
    <2>1. TypeOK'
      BY <1>3 DEF Added
    <2>2. Advertised' = Advertised \cup urls
      BY <1>3 DEF Added
    <2>3. Adding' /\ Releasing' /\ TableExact'
      BY <1>3, <2>2 DEF Added
    <2> QED BY <2>1, <2>3
  <1>4. CASE Expire
    <2>1. TypeOK'
      BY <1>4 DEF Expire, Stale
    <2>2. Advertised \subseteq Advertised' \cup todo'
      BY <1>4 DEF Expire, Stale
    <2>3. Advertised' \subseteq Advertised
      BY <1>4 DEF Expire, Stale
    <2>4. Adding' /\ Releasing' /\ TableExact'
      BY <1>4, <2>2, <2>3 DEF Expire
    <2> QED BY <2>1, <2>4
  <1>5. ASSUME NEW u \in Urls, Release(u)
        PROVE  DiscoveryInv'
    BY <1>5 DEF Release
  <1>6. CASE Released
    BY <1>6 DEF Released
  <1>7. CASE Tick
    BY <1>7 DEF Tick
  <1>8. CASE UNCHANGED vars
    BY <1>8 DEF vars
  <1> QED
    BY <1>1, <1>2, <1>3, <1>4, <1>5, <1>6, <1>7, <1>8 DEF Next, Handler

\* At every await of the discovery task, the invariant holds.
THEOREM DiscoveryInvariant == Spec => []DiscoveryInv
  <1>1. Init => DiscoveryInv
    BY InvInit
  <1>2. DiscoveryInv /\ [Next]_vars => DiscoveryInv'
    BY InvStep
  <1> QED
    BY <1>1, <1>2, PTL DEF Spec

\* Discovery owns exactly what is tracked and not configured, so that it can
\* never remove a configured upstream (owned, and the test in release).
THEOREM DiscoveryTypeCorrect == Spec => []TypeOK
  BY DiscoveryInvariant, PTL DEF DiscoveryInv

\* The prober's table is right between two events, for any peers and urls.
THEOREM DiscoveryTableExact == Spec => []TableExact
  BY DiscoveryInvariant, PTL DEF DiscoveryInv

\* No url that some live peer advertises is out of the table, not even
\* between the awaits of resolved, expire and release.
THEOREM DiscoveryTracked == Spec => []Tracked
  <1>1. DiscoveryInv => Tracked
    BY DEF DiscoveryInv, TypeOK, Adding, Releasing, TableExact, Tracked,
           Advertised
  <1> QED
    BY <1>1, DiscoveryInvariant, PTL
===========================================================================
