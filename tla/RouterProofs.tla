--------------------------- MODULE RouterProofs ---------------------------
(* Proofs of Router's invariants, for any number of lookups, upstreams and *)
(* filter configurations.  Each part below is inductive on top of the      *)
(* parts before it, and has a theorem of its own.                          *)
EXTENDS Router, TLAPS

\* A body the filters or the keys let through is a body.
LEMMA VettedBodies ==
    ASSUME allow \in Configs, NEW u \in Upstreams
    PROVE  allow[u] \subseteq Bodies /\ Verifies[u] \subseteq Bodies
  BY VettingAssumption

\* A lookup that returns keeps the types, whatever it returns.
LEMMA ReturnTyped ==
    ASSUME TypeOK, NEW r \in Requests, NEW o \in Results,
           NEW u \in Upstreams \cup {None}, NEW b \in Bodies \cup {None},
           Return(r, o, u, b)
    PROVE  /\ LookupTypes'
           /\ \A s \in Requests :
                  /\ pc[s]' = "wait" \/ second[s]' => arc[s]' # None
                  /\ pc[s]' \in {"refetch", "save", "fill"} => up[s]' # None
                  /\ pc[s]' \in {"save", "fill"} => body[s]' # None
<1> USE DEF TypeOK, LookupTypes, Return, Goto
<1>1. pc' \in [Requests -> Labels] /\ out' \in [Requests -> Results]
  BY DEF Labels
<1>2. /\ inflight' \in Requests \cup {None}
      /\ lock' \in [Requests -> Requests \cup {None}]
      /\ closed' \subseteq Requests
  BY DEF Release
<1>3. hop' \in [Requests -> Hops]
  BY DEF Hops
<1>4. QED
  BY <1>1, <1>2, <1>3

\* So does one that goes on to another step that needs no route.
LEMMA ContinueTyped ==
    ASSUME TypeOK, NEW r \in Requests,
           NEW l \in {"negative", "lru", "route", "race", "negate"},
           Continue(r, l)
    PROVE  /\ LookupTypes'
           /\ \A s \in Requests :
                  /\ pc[s]' = "wait" \/ second[s]' => arc[s]' # None
                  /\ pc[s]' \in {"refetch", "save", "fill"} => up[s]' # None
                  /\ pc[s]' \in {"save", "fill"} => body[s]' # None
  BY DEF TypeOK, LookupTypes, Continue, Goto, Labels

\* One case per action; where a lookup returns or goes on, the lemmas above.
LEMMA TypeStep ==
    ASSUME TypeOK, [Next]_vars
    PROVE  TypeOK'
<1> USE DEF TypeOK
<1>1. CASE \E r \in Requests, h \in Arrivals : Arrive(r, h)
  BY <1>1, SurroundingsAssumption
  DEF Arrive, Goto, StoreTypes, LookupTypes, Labels, Hops, memory, table,
      clock, history
<1>2. CASE \E r \in Requests : CheckMiss(r)
  <2> PICK r \in Requests : CheckMiss(r)
    BY <1>2
  <2>1. StoreTypes'
    BY DEF CheckMiss, StoreTypes, table, clock
  <2>2. Fail(r) \/ Continue(r, "negative")
    BY DEF CheckMiss
  <2>3. QED
    BY <2>1, <2>2, ReturnTyped, ContinueTyped DEF Fail, Results
<1>3. CASE \E r \in Requests : CheckNegative(r)
  <2> PICK r \in Requests : CheckNegative(r)
    BY <1>3
  <2>1. StoreTypes'
    BY DEF CheckNegative, StoreTypes, table, clock
  <2>2. Fail(r) \/ Continue(r, "lru")
    BY DEF CheckNegative
  <2>3. QED
    BY <2>1, <2>2, ReturnTyped, ContinueTyped DEF Fail, Results
<1>4. CASE \E r \in Requests : CheckLru(r)
  <2> PICK r \in Requests : CheckLru(r)
    BY <1>4
  <2>1. StoreTypes'
    BY DEF CheckLru, StoreTypes, NoEntry, table, clock
  <2>2. CASE now < lru.exp
    <3>1. lru.up \in Upstreams /\ lru.body \in Bodies
      BY <2>2 DEF StoreTypes, Entries, NoEntry
    <3>2. Return(r, "served", lru.up, lru.body)
      BY <2>2 DEF CheckLru, Serve, StoreTypes, Entries, NoEntry
    <3>3. QED
      BY <2>1, <3>1, <3>2, ReturnTyped DEF Results
  <2>3. CASE Continue(r, "route")
    BY <2>1, <2>3, ContinueTyped
  <2>4. QED
    BY <2>2, <2>3 DEF CheckLru
<1>5. CASE \E r \in Requests : ReadRoute(r)
  <2> PICK r \in Requests : ReadRoute(r)
    BY <1>5
  <2>1. StoreTypes'
    BY DEF ReadRoute, StoreTypes, memory, table, clock, history
  <2>2. CASE Fresh
    <3>1. route \in Rows
      BY <2>2 DEF Fresh, StoreTypes
    <3>2. route.up \in Upstreams /\ allow[route.up] \subseteq Bodies
      BY <3>1, VettedBodies DEF Rows, StoreTypes
    <3>3. LookupTypes'
      BY <2>2, <3>1, <3>2
      DEF ReadRoute, Goto, LookupTypes, Rows, Labels, memory, history
    <3>4. QED
      BY <2>1, <2>2, <3>1, <3>2, <3>3, NoneAssumption
      DEF ReadRoute, Goto, LookupTypes, Rows, memory, history
  <2>3. CASE ~Fresh
    BY <2>1, <2>3 DEF ReadRoute, Goto, LookupTypes, Labels, memory, history
  <2>4. QED
    BY <2>2, <2>3
<1>6. CASE \E r \in Requests : Refetch(r)
  BY <1>6, VettedBodies, NoneAssumption
  DEF Refetch, Goto, StoreTypes, LookupTypes, Labels, memory, table, clock
<1>7. CASE \E r \in Requests : Save(r)
  BY <1>7
  DEF Save, Goto, StoreTypes, LookupTypes, Labels, Rows, memory, clock,
      history
<1>8. CASE \E r \in Requests : Fill(r)
  <2> PICK r \in Requests : Fill(r)
    BY <1>8
  <2>1. StoreTypes'
    BY TimeAssumption
    DEF Fill, StoreTypes, LookupTypes, Entries, table, clock
  <2>2. Serve(r, up[r], body[r])
    BY DEF Fill
  <2>3. QED
    BY <2>1, <2>2, ReturnTyped DEF Serve, Results, LookupTypes
<1>9. CASE \E r \in Requests : Join(r)
  <2> PICK r \in Requests : Join(r)
    BY <1>9
  <2>1. StoreTypes'
    BY DEF Join, StoreTypes, table, clock
  <2>2. CASE Fail(r) \/ Continue(r, "race")
    BY <2>1, <2>2, ReturnTyped, ContinueTyped DEF Fail, Results
  <2>3. CASE hop[r] = "Client" /\ ~second[r]
    BY <2>1, <2>3, NoneAssumption
    DEF Join, Fail, Return, Continue, Goto, LookupTypes, Labels
  <2>4. QED
    BY <2>2, <2>3 DEF Join
<1>10. CASE \E r \in Requests : Acquire(r)
  BY <1>10
  DEF Acquire, Goto, StoreTypes, LookupTypes, Labels, table, clock, history
<1>11. CASE \E r \in Requests, u \in Upstreams, b \in Bodies : RaceWins(r,
       u, b)
  BY <1>11, TimeAssumption, NoneAssumption
  DEF RaceWins, Goto, StoreTypes, LookupTypes, Labels, memory, table, clock,
      history
<1>12. CASE \E r \in Requests : RaceMisses(r)
  <2> PICK r \in Requests : RaceMisses(r)
    BY <1>12
  <2>1. StoreTypes'
    BY TimeAssumption DEF RaceMisses, StoreTypes, table, clock
  <2>2. Fail(r) \/ Continue(r, "negate")
    BY DEF RaceMisses
  <2>3. QED
    BY <2>1, <2>2, ReturnTyped, ContinueTyped DEF Fail, Results
<1>13. CASE \E r \in Requests : RaceFails(r)
  <2> PICK r \in Requests : RaceFails(r)
    BY <1>13
  <2>1. StoreTypes'
    BY DEF RaceFails, StoreTypes, table, clock
  <2>2. Fail(r)
    BY DEF RaceFails
  <2>3. QED
    BY <2>1, <2>2, ReturnTyped DEF Fail, Results
<1>14. CASE \E r \in Requests : Negate(r)
  <2> PICK r \in Requests : Negate(r)
    BY <1>14
  <2>1. StoreTypes'
    BY TimeAssumption DEF Negate, StoreTypes, table, clock
  <2>2. Fail(r)
    BY DEF Negate
  <2>3. QED
    BY <2>1, <2>2, ReturnTyped DEF Fail, Results
<1>15. CASE \E r \in Requests : DbFails(r)
  <2> PICK r \in Requests : DbFails(r)
    BY <1>15
  <2>1. StoreTypes'
    BY DEF DbFails, StoreTypes, table, clock
  <2>2. Fail(r)
    BY DEF DbFails
  <2>3. QED
    BY <2>1, <2>2, ReturnTyped DEF Fail, Results
<1>16. CASE \E r \in Requests : Cancel(r)
  <2> PICK r \in Requests : Cancel(r)
    BY <1>16
  <2>1. StoreTypes'
    BY DEF Cancel, StoreTypes, table, clock
  <2>2. Fail(r)
    BY DEF Cancel
  <2>3. QED
    BY <2>1, <2>2, ReturnTyped DEF Fail, Results
<1>17. CASE Evict
  BY <1>17 DEF Evict, StoreTypes, LookupTypes, NoEntry, table, task, clock
<1>18. CASE RowDeleted
  BY <1>18
  DEF RowDeleted, StoreTypes, LookupTypes, memory, task, clock, history
<1>19. CASE \E u \in Upstreams, b \in Bodies \cup {None}, left \in Lifetimes
       : RowArrives(u, b, left)
  BY <1>19, SurroundingsAssumption, TimeAssumption
  DEF RowArrives, StoreTypes, LookupTypes, Rows, memory, task, clock,
      history
<1>20. CASE \E u \in Flaky : HealthChanges(u)
  BY <1>20, SurroundingsAssumption
  DEF HealthChanges, StoreTypes, LookupTypes, table, task, clock, history
<1>21. CASE Tick
  <2>1. StoreTypes'
    BY <1>21, TimeAssumption DEF Tick, StoreTypes, memory, table
  <2>2. QED
    BY <1>21, <2>1 DEF Tick, LookupTypes, Storing, memory, task
<1>22. CASE \E config \in Configs : Restart(config)
  BY <1>22, TimeAssumption
  DEF Restart, StoreTypes, LookupTypes, Labels, Results, Hops, table
<1>23. CASE UNCHANGED vars
  BY <1>23
  DEF vars, memory, table, task, clock, history, StoreTypes, LookupTypes
<1>24. QED
  BY <1>1, <1>2, <1>3, <1>4, <1>5, <1>6, <1>7, <1>8, <1>9, <1>10, <1>11,
     <1>12, <1>13, <1>14, <1>15, <1>16, <1>17, <1>18, <1>19, <1>20, <1>21,
     <1>22, <1>23 DEF Next, Step

\* The caches, the flights and the lookups keep their types.
THEOREM RouterTypeCorrect == Spec => []TypeOK
<1>1. Init => TypeOK
  BY TimeAssumption, VettingAssumption
  DEF Init, TypeOK, StoreTypes, LookupTypes, Labels, Results, Hops, Rows
<1>2. TypeOK /\ [Next]_vars => TypeOK'
  BY TypeStep
<1>3. QED
  BY <1>1, <1>2, PTL DEF Spec

---------------------------------------------------------------------------
(* Flights *)

\* A lookup that has been given a flight waits for its mutex or holds it.
Seated ==
    \A r \in Requests :
        /\ arc[r] # None => pc[r] = "wait" \/ second[r]
        /\ second[r] => lock[arc[r]] = r /\ pc[r] \notin {"new", "wait", "done"}

\* The holder of a mutex is a lookup of that flight, checking again.
HolderAboard ==
    \A f \in Requests : lock[f] # None => arc[lock[f]] = f /\ second[lock[f]]

\* A flight is named after a lookup that has been through Join, so a lookup
\* that has yet to join finds its own name unused.
Launched(f) == pc[f] \in {"wait", "done"} \/ second[f]

NamesUsedOnce ==
    \A f \in Requests :
        f \in closed \/ inflight = f \/ (\E r \in Requests : arc[r] = f)
        => Launched(f)

\* A flight that nobody has left is the registered one.  This is what the
\* pointer comparison in InflightGuard protects.
Registered ==
    \A r \in Requests : arc[r] # None /\ arc[r] \notin closed => inflight = arc[r]

FlightInv == Seated /\ HolderAboard /\ NamesUsedOnce /\ Registered

\* A returning lookup closes its own flight and no other; a joining one finds
\* the open flight or, if there is none, opens one under a fresh name.
LEMMA FlightStep ==
    ASSUME TypeOK, FlightInv, [Next]_vars
    PROVE  FlightInv'
<1> USE DEF TypeOK, LookupTypes, FlightInv, Seated, HolderAboard,
          NamesUsedOnce, Launched, Registered
<1>1. CASE \E r \in Requests, h \in Arrivals : Arrive(r, h)
  BY <1>1 DEF Arrive, Goto, memory, table, clock, history
<1>2. CASE \E r \in Requests : CheckMiss(r)
  BY <1>2 DEF CheckMiss, Fail, Return, Release, Continue, Goto, table, clock
<1>3. CASE \E r \in Requests : CheckNegative(r)
  BY <1>3 DEF CheckNegative, Fail, Return, Release, Continue, Goto, table,
     clock
<1>4. CASE \E r \in Requests : CheckLru(r)
  BY <1>4 DEF CheckLru, Serve, Return, Release, Continue, Goto, table, clock
<1>5. CASE \E r \in Requests : ReadRoute(r)
  BY <1>5 DEF ReadRoute, Goto, memory, table, clock, history
<1>6. CASE \E r \in Requests : Refetch(r)
  BY <1>6 DEF Refetch, Goto, memory, table, clock
<1>7. CASE \E r \in Requests : Save(r)
  BY <1>7 DEF Save, Goto, memory, clock, history
<1>8. CASE \E r \in Requests : Fill(r)
  BY <1>8 DEF Fill, Serve, Return, Release, Goto, table, clock
<1>9. CASE \E r \in Requests : Join(r)
  BY <1>9, NoneAssumption DEF Join, Fail, Return, Release, Continue, Goto,
     table, clock
<1>10. CASE \E r \in Requests : Acquire(r)
  BY <1>10, NoneAssumption DEF Acquire, Goto, table, clock, history
<1>11. CASE \E r \in Requests, u \in Upstreams, b \in Bodies : RaceWins(r,
       u, b)
  BY <1>11 DEF RaceWins, Goto, memory, table, clock, history
<1>12. CASE \E r \in Requests : RaceMisses(r)
  BY <1>12 DEF RaceMisses, Fail, Return, Release, Continue, Goto, table,
     clock
<1>13. CASE \E r \in Requests : RaceFails(r)
  BY <1>13 DEF RaceFails, Fail, Return, Release, Goto, table, clock
<1>14. CASE \E r \in Requests : Negate(r)
  BY <1>14 DEF Negate, Fail, Return, Release, Goto, clock
<1>15. CASE \E r \in Requests : DbFails(r)
  BY <1>15 DEF DbFails, Fail, Return, Release, Goto, table, clock
<1>16. CASE \E r \in Requests : Cancel(r)
  BY <1>16 DEF Cancel, Fail, Return, Release, Goto, table, clock
<1>17. CASE Evict
  BY <1>17 DEF Evict, table, task, clock
<1>18. CASE RowDeleted
  BY <1>18 DEF RowDeleted, memory, task, clock, history
<1>19. CASE \E u \in Upstreams, b \in Bodies \cup {None}, left \in Lifetimes
       : RowArrives(u, b, left)
  BY <1>19 DEF RowArrives, memory, task, clock, history
<1>20. CASE \E u \in Flaky : HealthChanges(u)
  BY <1>20 DEF HealthChanges, table, task, clock, history
<1>21. CASE Tick
  BY <1>21 DEF Tick, memory, table, task
<1>22. CASE \E config \in Configs : Restart(config)
  BY <1>22, NoneAssumption DEF Restart, table
<1>23. CASE UNCHANGED vars
  BY <1>23 DEF vars, memory, table, task, clock, history
<1>24. QED
  BY <1>1, <1>2, <1>3, <1>4, <1>5, <1>6, <1>7, <1>8, <1>9, <1>10, <1>11,
     <1>12, <1>13, <1>14, <1>15, <1>16, <1>17, <1>18, <1>19, <1>20, <1>21,
     <1>22, <1>23 DEF Next, Step

\* Flights are registered as long as they are open.
THEOREM RouterFlights == Spec => []FlightInv
<1>1. Init => FlightInv
  BY NoneAssumption
  DEF Init, FlightInv, Seated, HolderAboard, NamesUsedOnce, Registered
<1>2. TypeOK /\ FlightInv /\ [Next]_vars => FlightInv'
  BY FlightStep
<1>3. QED
  BY <1>1, <1>2, RouterTypeCorrect, PTL DEF Spec

\* Concurrent client lookups never have two open flights to choose from.
THEOREM RouterOneOpenFlight == Spec => []OneOpenFlight
<1>1. TypeOK /\ FlightInv => OneOpenFlight
  BY NoneAssumption DEF FlightInv, Registered, OneOpenFlight, Aboard
<1>2. QED
  BY <1>1, RouterTypeCorrect, RouterFlights, PTL

\* The mutex that a lookup waits for is free, or held by one that waits for no
\* mutex and has yet to return, which unlocks it.
HolderWorks ==
    \A r \in Requests :
        pc[r] = "wait" =>
            LET holder == lock[arc[r]]
            IN holder = None \/ pc[holder] \notin {"new", "wait", "done"}

\* However lookups are dropped, before, while or after they hold the mutex, no
\* flight is left locked: the safety that LookupsComplete rests on.
THEOREM RouterHolderWorks == Spec => []HolderWorks
<1>1. TypeOK /\ FlightInv => HolderWorks
  <2> SUFFICES ASSUME TypeOK, FlightInv, NEW r \in Requests, pc[r] = "wait",
                      lock[arc[r]] # None
               PROVE  pc[lock[arc[r]]] \notin {"new", "wait", "done"}
    BY DEF HolderWorks
  <2>1. arc[r] \in Requests /\ lock[arc[r]] \in Requests
    BY DEF TypeOK, LookupTypes
  <2>2. second[lock[arc[r]]]
    BY <2>1 DEF FlightInv, HolderAboard
  <2>3. QED
    BY <2>1, <2>2 DEF FlightInv, Seated
<1>2. QED
  BY <1>1, RouterTypeCorrect, RouterFlights, PTL

---------------------------------------------------------------------------
(* Filters *)

\* What a lookup is about to store passes the filters, and what it has served
\* does not change any more.
StoresAllowed ==
    \A r \in Requests :
        /\ pc[r] \in {"save", "fill"} => body[r] \in allow[up[r]]
        /\ out[r] = "served" => pc[r] = "done"

\* Routes enter the route cache from lookups that stored them, and nowhere
\* else; a row, which may say anything, enters a lookup through a check.
LEMMA FilterStep ==
    ASSUME TypeOK, StoresAllowed, FiltersHonoured, [Next]_vars
    PROVE  (StoresAllowed /\ FiltersHonoured)'
<1> USE DEF TypeOK, LookupTypes, StoreTypes, StoresAllowed, FiltersHonoured
<1>1. CASE \E r \in Requests, h \in Arrivals : Arrive(r, h)
  BY <1>1 DEF Arrive, Goto, memory, table, clock, history
<1>2. CASE \E r \in Requests : CheckMiss(r)
  BY <1>2 DEF CheckMiss, Fail, Return, Release, Continue, Goto, table, clock
<1>3. CASE \E r \in Requests : CheckNegative(r)
  BY <1>3 DEF CheckNegative, Fail, Return, Release, Continue, Goto, table,
     clock
<1>4. CASE \E r \in Requests : CheckLru(r)
  BY <1>4 DEF CheckLru, Serve, Return, Release, Continue, Goto, table,
     clock, NoEntry
<1>5. CASE \E r \in Requests : ReadRoute(r)
  BY <1>5 DEF ReadRoute, Goto, memory, table, clock, history, Fresh, Rows
<1>6. CASE \E r \in Requests : Refetch(r)
  BY <1>6 DEF Refetch, Goto, memory, table, clock
<1>7. CASE \E r \in Requests : Save(r)
  BY <1>7 DEF Save, Goto, memory, clock, history
<1>8. CASE \E r \in Requests : Fill(r)
  BY <1>8 DEF Fill, Serve, Return, Release, Goto, table, clock, NoEntry
<1>9. CASE \E r \in Requests : Join(r)
  BY <1>9 DEF Join, Fail, Return, Release, Continue, Goto, table, clock
<1>10. CASE \E r \in Requests : Acquire(r)
  BY <1>10 DEF Acquire, Goto, table, clock, history
<1>11. CASE \E r \in Requests, u \in Upstreams, b \in Bodies : RaceWins(r,
       u, b)
  BY <1>11 DEF RaceWins, Goto, memory, table, clock, history
<1>12. CASE \E r \in Requests : RaceMisses(r)
  BY <1>12 DEF RaceMisses, Fail, Return, Release, Continue, Goto, table,
     clock
<1>13. CASE \E r \in Requests : RaceFails(r)
  BY <1>13 DEF RaceFails, Fail, Return, Release, Goto, table, clock
<1>14. CASE \E r \in Requests : Negate(r)
  BY <1>14 DEF Negate, Fail, Return, Release, Goto, clock
<1>15. CASE \E r \in Requests : DbFails(r)
  BY <1>15 DEF DbFails, Fail, Return, Release, Goto, table, clock
<1>16. CASE \E r \in Requests : Cancel(r)
  BY <1>16 DEF Cancel, Fail, Return, Release, Goto, table, clock
<1>17. CASE Evict
  BY <1>17 DEF Evict, table, task, clock, NoEntry
<1>18. CASE RowDeleted
  BY <1>18 DEF RowDeleted, memory, task, clock, history
<1>19. CASE \E u \in Upstreams, b \in Bodies \cup {None}, left \in Lifetimes
       : RowArrives(u, b, left)
  BY <1>19 DEF RowArrives, memory, task, clock, history
<1>20. CASE \E u \in Flaky : HealthChanges(u)
  BY <1>20 DEF HealthChanges, table, task, clock, history
<1>21. CASE Tick
  BY <1>21 DEF Tick, memory, table, task
<1>22. CASE \E config \in Configs : Restart(config)
  BY <1>22 DEF Restart, table, NoEntry
<1>23. CASE UNCHANGED vars
  BY <1>23 DEF vars, memory, table, task, clock, history
<1>24. QED
  BY <1>1, <1>2, <1>3, <1>4, <1>5, <1>6, <1>7, <1>8, <1>9, <1>10, <1>11,
     <1>12, <1>13, <1>14, <1>15, <1>16, <1>17, <1>18, <1>19, <1>20, <1>21,
     <1>22, <1>23 DEF Next, Step

\* Nothing the current filters turn down is ever served, or kept in memory.
THEOREM RouterFiltersHonoured == Spec => []FiltersHonoured
<1>1. Init => StoresAllowed /\ FiltersHonoured
  BY DEF Init, StoresAllowed, FiltersHonoured
<1>2. TypeOK /\ StoresAllowed /\ FiltersHonoured /\ [Next]_vars
      => (StoresAllowed /\ FiltersHonoured)'
  BY FilterStep
<1>3. QED
  BY <1>1, <1>2, RouterTypeCorrect, PTL DEF Spec

---------------------------------------------------------------------------
(* Ages *)

\* A lookup holds on to a route for at most one tick, so it still stores it
\* no later than the route's TTL.
StoresInTime ==
    \A r \in Requests :
        /\ r \in slow => r \in Storing
        /\ r \in Storing => now <= ttl[r]
        /\ r \in Storing \ slow => now < ttl[r]

\* The clock waits for lookups that have seen it tick; a row is read only
\* before its TTL.
LEMMA AgeStep ==
    ASSUME TypeOK, StoresInTime, ReuseBounded, [Next]_vars
    PROVE  (StoresInTime /\ ReuseBounded)'
<1> USE DEF TypeOK, LookupTypes, StoreTypes, StoresInTime, ReuseBounded,
          Storing
<1>1. CASE \E r \in Requests, h \in Arrivals : Arrive(r, h)
  BY <1>1 DEF Arrive, Goto, memory, table, clock, history
<1>2. CASE \E r \in Requests : CheckMiss(r)
  BY <1>2 DEF CheckMiss, Fail, Return, Release, Continue, Goto, table, clock
<1>3. CASE \E r \in Requests : CheckNegative(r)
  BY <1>3 DEF CheckNegative, Fail, Return, Release, Continue, Goto, table,
     clock
<1>4. CASE \E r \in Requests : CheckLru(r)
  BY <1>4 DEF CheckLru, Serve, Return, Release, Continue, Goto, table,
     clock, NoEntry
<1>5. CASE \E r \in Requests : ReadRoute(r)
  BY <1>5 DEF ReadRoute, Goto, memory, table, clock, history, Fresh, Rows
<1>6. CASE \E r \in Requests : Refetch(r)
  BY <1>6 DEF Refetch, Goto, memory, table, clock
<1>7. CASE \E r \in Requests : Save(r)
  BY <1>7 DEF Save, Goto, memory, clock, history
<1>8. CASE \E r \in Requests : Fill(r)
  BY <1>8, TimeAssumption DEF Fill, Serve, Return, Release, Goto, table,
     clock, NoEntry
<1>9. CASE \E r \in Requests : Join(r)
  BY <1>9 DEF Join, Fail, Return, Release, Continue, Goto, table, clock
<1>10. CASE \E r \in Requests : Acquire(r)
  BY <1>10 DEF Acquire, Goto, table, clock, history
<1>11. CASE \E r \in Requests, u \in Upstreams, b \in Bodies : RaceWins(r,
       u, b)
  BY <1>11, TimeAssumption DEF RaceWins, Goto, memory, table, clock, history
<1>12. CASE \E r \in Requests : RaceMisses(r)
  BY <1>12 DEF RaceMisses, Fail, Return, Release, Continue, Goto, table,
     clock
<1>13. CASE \E r \in Requests : RaceFails(r)
  BY <1>13 DEF RaceFails, Fail, Return, Release, Goto, table, clock
<1>14. CASE \E r \in Requests : Negate(r)
  BY <1>14 DEF Negate, Fail, Return, Release, Goto, clock
<1>15. CASE \E r \in Requests : DbFails(r)
  BY <1>15 DEF DbFails, Fail, Return, Release, Goto, table, clock
<1>16. CASE \E r \in Requests : Cancel(r)
  BY <1>16 DEF Cancel, Fail, Return, Release, Goto, table, clock
<1>17. CASE Evict
  BY <1>17 DEF Evict, table, task, clock, NoEntry
<1>18. CASE RowDeleted
  BY <1>18 DEF RowDeleted, memory, task, clock, history
<1>19. CASE \E u \in Upstreams, b \in Bodies \cup {None}, left \in Lifetimes
       : RowArrives(u, b, left)
  BY <1>19 DEF RowArrives, memory, task, clock, history
<1>20. CASE \E u \in Flaky : HealthChanges(u)
  BY <1>20 DEF HealthChanges, table, task, clock, history
<1>21. CASE Tick
  BY <1>21 DEF Tick, memory, table, task
<1>22. CASE \E config \in Configs : Restart(config)
  BY <1>22 DEF Restart, table, NoEntry
<1>23. CASE UNCHANGED vars
  BY <1>23 DEF vars, memory, table, task, clock, history
<1>24. QED
  BY <1>1, <1>2, <1>3, <1>4, <1>5, <1>6, <1>7, <1>8, <1>9, <1>10, <1>11,
     <1>12, <1>13, <1>14, <1>15, <1>16, <1>17, <1>18, <1>19, <1>20, <1>21,
     <1>22, <1>23 DEF Next, Step

\* A route is reused for at most one route_ttl beyond the TTL of its row.
THEOREM RouterReuseBounded == Spec => []ReuseBounded
<1>1. Init => StoresInTime /\ ReuseBounded
  BY DEF Init, StoresInTime, Storing, ReuseBounded
<1>2. TypeOK /\ StoresInTime /\ ReuseBounded /\ [Next]_vars
      => (StoresInTime /\ ReuseBounded)'
  BY AgeStep
<1>3. QED
  BY <1>1, <1>2, RouterTypeCorrect, PTL DEF Spec

---------------------------------------------------------------------------
(* Singleflight *)

\* No entry of a cache lives longer than its TTL from now, so a newer entry
\* never shortens what an older one promised.
LivesBounded == miss <= now + MissTTL /\ lru.exp <= now + RouteTTL

\* What a flight answered is in one of the caches until it expires.
AnswersKept ==
    \A f \in Requests : answered[f] > now =>
        miss >= answered[f] \/ lru.exp >= answered[f]

\* Only clients' lookups have flights, and they race only in their turn.
ClientsOnly ==
    \A r \in Requests :
        /\ second[r] => hop[r] = "Client"
        /\ pc[r] = "wait" => hop[r] = "Client"
        /\ pc[r] \in {"race", "negate"} /\ hop[r] = "Client" => second[r]

\* The second look at the caches closes in on the answer: past the miss cache
\* it can only be in the route cache, and past that there is none.
SecondLook ==
    \A r \in Requests : second[r] =>
        /\ pc[r] \in {"negative", "lru"} /\ answered[arc[r]] > now
               => lru.exp >= answered[arc[r]]
        /\ pc[r] \in {"route", "refetch", "join", "race"}
               => answered[arc[r]] <= now

AnswerInv == LivesBounded /\ AnswersKept /\ ClientsOnly /\ SecondLook

\* The one mutex holder of a flight is the only one to answer for it; other
\* lookups only prolong what the caches hold, and evictions void promises.
LEMMA AnswerStep ==
    ASSUME TypeOK, FlightInv, AnswerInv, [Next]_vars
    PROVE  AnswerInv'
<1> USE DEF TypeOK, LookupTypes, StoreTypes, FlightInv, Seated,
          HolderAboard, AnswerInv, LivesBounded, AnswersKept, ClientsOnly,
          SecondLook, Entries, NoEntry
<1>1. CASE \E r \in Requests, h \in Arrivals : Arrive(r, h)
  BY <1>1 DEF Arrive, Goto, memory, table, clock, history
<1>2. CASE \E r \in Requests : CheckMiss(r)
  BY <1>2, TimeAssumption DEF CheckMiss, Fail, Return, Release, Continue,
     Goto, table, clock
<1>3. CASE \E r \in Requests : CheckNegative(r)
  BY <1>3 DEF CheckNegative, Fail, Return, Release, Continue, Goto, table,
     clock
<1>4. CASE \E r \in Requests : CheckLru(r)
  BY <1>4, TimeAssumption DEF CheckLru, Serve, Return, Release, Continue,
     Goto, table, clock
<1>5. CASE \E r \in Requests : ReadRoute(r)
  BY <1>5 DEF ReadRoute, Goto, memory, table, clock, history
<1>6. CASE \E r \in Requests : Refetch(r)
  BY <1>6 DEF Refetch, Goto, memory, table, clock
<1>7. CASE \E r \in Requests : Save(r)
  BY <1>7 DEF Save, Goto, memory, clock, history
<1>8. CASE \E r \in Requests : Fill(r)
  BY <1>8, TimeAssumption DEF Fill, Serve, Return, Release, Goto, table,
     clock
<1>9. CASE \E r \in Requests : Join(r)
  BY <1>9, NoneAssumption DEF Join, Fail, Return, Release, Continue, Goto,
     table, clock
<1>10. CASE \E r \in Requests : Acquire(r)
  BY <1>10, NoneAssumption DEF Acquire, Goto, table, clock, history
<1>11. CASE \E r \in Requests, u \in Upstreams, b \in Bodies : RaceWins(r,
       u, b)
  BY <1>11 DEF RaceWins, Goto, memory, table, clock, history
<1>12. CASE \E r \in Requests : RaceMisses(r)
  BY <1>12, TimeAssumption DEF RaceMisses, Fail, Return, Release, Continue,
     Goto, table, clock
<1>13. CASE \E r \in Requests : RaceFails(r)
  BY <1>13 DEF RaceFails, Fail, Return, Release, Goto, table, clock
<1>14. CASE \E r \in Requests : Negate(r)
  BY <1>14 DEF Negate, Fail, Return, Release, Goto, clock
<1>15. CASE \E r \in Requests : DbFails(r)
  BY <1>15 DEF DbFails, Fail, Return, Release, Goto, table, clock
<1>16. CASE \E r \in Requests : Cancel(r)
  BY <1>16 DEF Cancel, Fail, Return, Release, Goto, table, clock
<1>17. CASE Evict
  BY <1>17, TimeAssumption DEF Evict, table, task, clock
<1>18. CASE RowDeleted
  BY <1>18 DEF RowDeleted, memory, task, clock, history
<1>19. CASE \E u \in Upstreams, b \in Bodies \cup {None}, left \in Lifetimes
       : RowArrives(u, b, left)
  BY <1>19 DEF RowArrives, memory, task, clock, history
<1>20. CASE \E u \in Flaky : HealthChanges(u)
  BY <1>20 DEF HealthChanges, table, task, clock, history
<1>21. CASE Tick
  BY <1>21, TimeAssumption DEF Tick, memory, table, task
<1>22. CASE \E config \in Configs : Restart(config)
  BY <1>22, TimeAssumption DEF Restart, table
<1>23. CASE UNCHANGED vars
  BY <1>23 DEF vars, memory, table, task, clock, history
<1>24. QED
  BY <1>1, <1>2, <1>3, <1>4, <1>5, <1>6, <1>7, <1>8, <1>9, <1>10, <1>11,
     <1>12, <1>13, <1>14, <1>15, <1>16, <1>17, <1>18, <1>19, <1>20, <1>21,
     <1>22, <1>23 DEF Next, Step

\* Lookups that shared a flight do not repeat its race while its answer is
\* remembered.
THEOREM RouterSingleFlight == Spec => []SingleFlight
<1>1. Init => AnswerInv
  BY TimeAssumption
  DEF Init, AnswerInv, LivesBounded, AnswersKept, ClientsOnly, SecondLook,
      NoEntry
<1>2. TypeOK /\ FlightInv /\ AnswerInv /\ [Next]_vars => AnswerInv'
  BY AnswerStep
<1>3. AnswerInv => SingleFlight
  BY DEF AnswerInv, SecondLook, SingleFlight
<1>4. QED
  BY <1>1, <1>2, <1>3, RouterTypeCorrect, RouterFlights, PTL DEF Spec

===========================================================================
