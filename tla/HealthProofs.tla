--------------------------- MODULE HealthProofs ---------------------------
(* Proofs that Health keeps its invariants, for any number of upstreams    *)
(* and recorders, any thresholds and a channel of any length.              *)
EXTENDS Health, SequenceTheorems, TLAPS

(***************************************************************************)
(* NothingLost speaks of where the newest row is.  It is inductive only    *)
(* with what each state of the worker says of the three places before the  *)
(* database.                                                               *)
(***************************************************************************)

\* Rows are being saved only while the worker waits for the database, and
\* then none is pending.  After the drain the channel is empty, and a worker
\* that is through with saving has nothing left or no attempt left.
WorkerInv ==
    /\ worker \in {"save", "lastsave"} => pending = NoRows
    /\ worker \notin {"save", "lastsave"} => batch = NoRows
    /\ worker \in {"last", "lastsave", "exit", "gone"} =>
           \A u \in Urls : queue[u] = << >>
    /\ worker = "exit" => tries = 0 \/ pending = NoRows
    /\ worker # "exit" => tries # 0

\* A snapshot to be sent is a row.
SnapshotInv ==
    \A u \in Urls : \A s \in Slots :
        job[u][s].step = "send" => job[u][s].row \in Rows

---------------------------------------------------------------------------

\* A number of failures is not mistaken for a missing row.
LEMMA RowsAreRows == NoRow \notin Rows
  BY RowAssumption, ThresholdAssumption DEF Rows

\* Every status is one of the three, and a counted failure is a row.
LEMMA StatusTypes ==
    /\ \A n \in Rows : compute_status(n) \in {"Active", "Degraded", "Down"}
    /\ \A n \in Rows : Counted(n + 1) \in Rows
    /\ 0 \in Rows
  BY ThresholdAssumption DEF Rows, compute_status, Counted

\* A row appended to the channel is its last.
LEMMA LastOfAppend ==
    ASSUME NEW S, NEW q \in Seq(S), NEW r \in S
    PROVE  /\ Append(q, r) \in Seq(S)
           /\ Append(q, r) # << >>
           /\ Last(Append(q, r)) = r
<1>1. Append(q, r) \in Seq(S) /\ Len(Append(q, r)) = Len(q) + 1
      /\ Append(q, r)[Len(q) + 1] = r
  BY AppendProperties
<1>2. QED
  BY <1>1, EmptySeq DEF Last

\* Taking the first row out of the channel does not change its last, unless
\* it is that.
LEMMA LastOfTail ==
    ASSUME NEW S, NEW q \in Seq(S), q # << >>
    PROVE  /\ Head(q) \in S
           /\ Tail(q) \in Seq(S)
           /\ Tail(q) # << >> => Last(Tail(q)) = Last(q)
           /\ Tail(q) = << >> => Head(q) = Last(q)
           /\ Last(q) \in S
<1> DEFINE t == Tail(q)
<1>1. /\ Head(q) = q[1] /\ Head(q) \in S /\ t \in Seq(S)
      /\ Len(t) = Len(q) - 1
      /\ \A i \in 1..Len(t) : t[i] = q[i + 1]
  BY HeadTailProperties
<1>2. Len(q) \in Nat /\ Len(q) # 0 /\ Len(q) \in 1..Len(q)
  BY EmptySeq, LenProperties
<1>3. Last(q) \in S
  BY <1>2, ElementOfSeq DEF Last
<1>4. Len(t) \in Nat /\ (Len(t) = 0 <=> t = << >>)
  BY <1>1, EmptySeq, LenProperties
<1> HIDE DEF t
<1>5. ASSUME t # << >> PROVE Last(t) = Last(q)
  <2>1. t[Len(t)] = q[Len(t) + 1]
    BY <1>1, <1>4, <1>5
  <2>2. QED
    BY <1>1, <1>2, <2>1 DEF Last
<1>6. ASSUME t = << >> PROVE Head(q) = Last(q)
  BY <1>1, <1>2, <1>4, <1>6 DEF Last
<1>7. QED BY <1>1, <1>3, <1>5, <1>6 DEF t

\* What the worker's places hold does not change with the prober.
LEMMA StoreUntouched ==
    ASSUME WorkerInv, NothingLost, UNCHANGED store
    PROVE  WorkerInv' /\ NothingLost'
  BY DEF WorkerInv, NothingLost, Newest, store

\* The types of the worker's places do not change with the prober either.
StoreTypes ==
    /\ queue \in [Urls -> Seq(Rows)]
    /\ pending \in [Urls -> Rows \cup {NoRow}]
    /\ batch \in [Urls -> Rows \cup {NoRow}]
    /\ db \in [Urls -> Rows \cup {NoRow}]
    /\ worker \in {"run", "save", "last", "lastsave", "exit", "gone"}
    /\ tries \in 0..Tries
    /\ sent \in [Urls -> Rows \cup {NoRow}]

ProberTypes ==
    /\ configured \subseteq Urls
    /\ table \in [Urls -> Entries \cup {NoRow}]
    /\ up \subseteq Urls
    /\ first \subseteq Urls
    /\ job \in [Urls -> [Slots -> Jobs]]
    /\ probing \in [Urls -> Slots \cup {NoRow}]
    /\ \A u \in Urls :
           probing[u] # NoRow => job[u][probing[u]].step # "idle"
    /\ age \in [Urls -> 0..SlowDown]

\* TypeOK, in two halves.
LEMMA Halves == TypeOK <=> StoreTypes /\ ProberTypes
  BY DEF TypeOK, StoreTypes, ProberTypes

\* The half of the prober, and what else is said of its variables.
ProberInv == ProberTypes /\ SnapshotInv

\* The half of the worker.
StoreInv == StoreTypes /\ WorkerInv /\ NothingLost

\* A step of the prober leaves the worker's half alone.
LEMMA StoreStutters ==
    ASSUME StoreInv, UNCHANGED store
    PROVE  StoreInv'
<1>1. StoreTypes'
  BY DEF StoreInv, StoreTypes, store
<1>2. QED
  BY <1>1, StoreUntouched DEF StoreInv

\* A step of the worker leaves the prober's half alone.
LEMMA ProberStutters ==
    ASSUME ProberInv, UNCHANGED prober
    PROVE  ProberInv'
  BY DEF ProberInv, ProberTypes, SnapshotInv, prober

---------------------------------------------------------------------------
(* The prober *)

\* A recorder begins to ask.
LEMMA BeginsKeeps ==
    ASSUME ProberInv,
           NEW u \in Urls,
           NEW s \in Slots,
           FirstProbe(u, s) \/ LoopProbe(u, s)
    PROVE  ProberInv'
<1> USE DEF ProberInv
<1> [step |-> "ask", row |-> NoRow] \in Jobs
  BY DEF Jobs
<1>1. CASE FirstProbe(u, s)
  <2>1. CASE table[u] = NoRow
    BY <1>1, <2>1
    DEF FirstProbe, ProberTypes, SnapshotInv
  <2>2. CASE table[u] # NoRow
    <3>1. Does(u, s, "ask", NoRow)
      BY <1>1, <2>2 DEF FirstProbe
    <3>2. ProberTypes'
      BY <1>1, <3>1 DEF FirstProbe, Does, ProberTypes
    <3>3. SnapshotInv'
      BY <1>1, <3>1
      DEF FirstProbe, Does, SnapshotInv, ProberTypes
    <3>4. QED BY <3>2, <3>3
  <2>3. QED BY <2>1, <2>2
<1>2. CASE LoopProbe(u, s)
  <2>1. ProberTypes'
    BY <1>2, ThresholdAssumption, RowAssumption
    DEF LoopProbe, Does, Free, Idle, ProberTypes
  <2>2. SnapshotInv'
    BY <1>2 DEF LoopProbe, Does, SnapshotInv, ProberTypes
  <2>3. QED BY <2>1, <2>2
<1>3. QED BY <1>1, <1>2

\* A recorder has its answer.
LEMMA AnswersKeep ==
    ASSUME ProberInv,
           NEW u \in Urls,
           NEW s \in Slots,
           Answer(u, s) \/ Committed(u, s)
    PROVE  ProberInv'
<1> USE DEF ProberInv
<1>1. PICK step \in {"good", "bad"} : Does(u, s, step, NoRow)
  BY DEF Answer, Committed
<1>2. UNCHANGED <<configured, table, up, first, probing, age>>
  BY DEF Answer, Committed
<1>3. [step |-> step, row |-> NoRow] \in Jobs
  BY DEF Jobs
<1>4. ProberTypes'
  BY <1>1, <1>2, <1>3 DEF Does, ProberTypes
<1>5. SnapshotInv'
  BY <1>1 DEF Does, SnapshotInv, ProberTypes
<1>6. QED BY <1>4, <1>5

\* A recorder that finds no entry is done.
LEMMA RecordNothingKeeps ==
    ASSUME ProberInv,
           NEW u \in Urls,
           NEW s \in Slots,
           RecordNothing(u, s)
    PROVE  ProberInv'
<1> USE DEF ProberInv
<1>1. Done(u, s) /\ UNCHANGED <<configured, table, up, first, age>>
  BY DEF RecordNothing
<1>2. [step |-> "idle", row |-> NoRow] \in Jobs
  BY DEF Jobs
<1>3. ProberTypes'
  BY <1>1, <1>2 DEF Done, Does, ProberTypes
<1>4. SnapshotInv'
  BY <1>1 DEF Done, Does, SnapshotInv, ProberTypes
<1>5. QED BY <1>3, <1>4

\* The entry changes, and its snapshot is a row.
LEMMA RecordKeeps ==
    ASSUME ProberInv,
           NEW u \in Urls,
           NEW s \in Slots,
           NEW entry \in Entries,
           Record(u, s, entry)
    PROVE  ProberInv'
<1> USE DEF ProberInv
<1>1. /\ table' = [table EXCEPT ![u] = entry]
      /\ Does(u, s, "send", entry.fails)
      /\ UNCHANGED <<configured, up, first, probing, age>>
  BY DEF Record
<1>2. entry.fails \in Rows
  BY DEF Entries
<1>3. [step |-> "send", row |-> entry.fails] \in Jobs
  BY <1>2 DEF Jobs
<1>4. ProberTypes'
  BY <1>1, <1>3 DEF Does, ProberTypes
<1>5. SnapshotInv'
  BY <1>1, <1>2 DEF Does, SnapshotInv, ProberTypes
<1>6. QED BY <1>4, <1>5

\* A success or a failure is recorded.
LEMMA RecordsKeep ==
    ASSUME ProberInv,
           NEW u \in Urls,
           NEW s \in Slots,
           record_latency(u, s) \/ record_failure(u, s)
    PROVE  ProberInv'
<1>1. CASE record_latency(u, s)
  <2>1. [fails |-> 0, status |-> "Active"] \in Entries
    BY StatusTypes DEF Entries
  <2>2. QED
    BY <1>1, <2>1, RecordKeeps DEF record_latency
<1>2. CASE record_failure(u, s)
  <2> DEFINE n == Counted(table[u].fails + 1)
             entry == [fails |-> n, status |-> compute_status(n)]
  <2>1. Record(u, s, entry) /\ table[u] # NoRow
    BY <1>2 DEF record_failure
  <2>2. n \in Rows
    BY <2>1, StatusTypes DEF ProberInv, ProberTypes, Entries
  <2>3. entry \in Entries
    BY <2>2, StatusTypes DEF Entries
  <2> HIDE DEF entry
  <2>4. QED
    BY <2>1, <2>3, RecordKeeps
<1>3. QED BY <1>1, <1>2

\* A recorder that has sent its snapshot is done.
LEMMA SendKeepsProber ==
    ASSUME ProberInv,
           NEW u \in Urls,
           NEW s \in Slots,
           Send(u, s)
    PROVE  ProberInv'
<1> USE DEF ProberInv
<1>1. [step |-> "idle", row |-> NoRow] \in Jobs
  BY DEF Jobs
<1>2. ProberTypes'
  BY <1>1 DEF Send, Done, Does, ProberTypes
<1>3. SnapshotInv'
  BY DEF Send, Done, Does, SnapshotInv, ProberTypes
<1>4. QED BY <1>2, <1>3

\* What discovery, the clock and the upstreams do.
LEMMA SurroundingsKeep ==
    ASSUME ProberInv,
           \/ \E u \in Urls : AddUpstream(u) \/ RemoveUpstream(u)
           \/ Interval
           \/ \E u \in Urls : UpstreamFlips(u)
    PROVE  ProberInv'
<1> USE DEF ProberInv
<1>1. ASSUME NEW u \in Urls, AddUpstream(u) PROVE ProberInv'
  <2>1. Fresh \in Entries
    BY StatusTypes DEF Fresh, Entries
  <2>2. ProberTypes'
    BY <1>1, <2>1 DEF AddUpstream, ProberTypes
  <2>3. SnapshotInv'
    BY <1>1, <2>1 DEF AddUpstream, SnapshotInv, ProberTypes
  <2>4. QED BY <2>2, <2>3
<1>2. ASSUME NEW u \in Urls, RemoveUpstream(u) PROVE ProberInv'
  BY <1>2 DEF RemoveUpstream, ProberTypes, SnapshotInv
<1>3. CASE Interval
  BY <1>3, ThresholdAssumption
  DEF Interval, ProberTypes, SnapshotInv
<1>4. ASSUME NEW u \in Urls, UpstreamFlips(u) PROVE ProberInv'
  BY <1>4 DEF UpstreamFlips, ProberTypes, SnapshotInv
<1>5. QED BY <1>1, <1>2, <1>3, <1>4

---------------------------------------------------------------------------
(* The worker *)

\* A new row comes behind the others.
LEMMA SendKeepsStore ==
    ASSUME ProberInv, StoreInv, Serving,
           NEW u \in Urls,
           NEW s \in Slots,
           Send(u, s)
    PROVE  StoreInv'
<1> USE DEF StoreInv
<1> DEFINE r == job[u][s].row
<1>1. r \in Rows
  BY DEF ProberInv, SnapshotInv, Send
<1>2. queue' = [queue EXCEPT ![u] = Append(@, r)]
      /\ sent' = [sent EXCEPT ![u] = r]
      /\ UNCHANGED <<pending, batch, worker, tries, db>>
  BY DEF Send
<1> HIDE DEF r
<1>3. Append(queue[u], r) # << >> /\ Last(Append(queue[u], r)) = r
      /\ Append(queue[u], r) \in Seq(Rows)
  BY <1>1, LastOfAppend DEF StoreTypes
<1>4. StoreTypes'
  BY <1>1, <1>2, <1>3 DEF StoreTypes
<1>5. WorkerInv'
  BY <1>2 DEF WorkerInv, Serving, NoRows
<1>6. NothingLost'
  <2>1. ASSUME NEW v \in Urls PROVE Newest(v)' = sent'[v]
    <3>1. CASE v = u
      BY <1>2, <1>3, <3>1 DEF Newest, StoreTypes
    <3>2. CASE v # u
      BY <1>2, <3>2 DEF NothingLost, Newest, StoreTypes
    <3>3. QED BY <3>1, <3>2
  <2>2. QED
    BY <1>2, <2>1 DEF NothingLost, Serving
<1>7. QED BY <1>4, <1>5, <1>6

\* The row received was the oldest of the channel: if it was the only one it
\* is the newest now.
LEMMA ReceiveKeeps ==
    ASSUME StoreInv,
           NEW u \in Urls,
           Receive(u)
    PROVE  StoreInv'
<1> USE DEF StoreInv
<1> DEFINE q == queue[u]
<1>1. q \in Seq(Rows) /\ q # << >>
  BY DEF StoreTypes, Receive
<1>2. pending' = [pending EXCEPT ![u] = Head(q)]
      /\ queue' = [queue EXCEPT ![u] = Tail(q)]
      /\ UNCHANGED <<batch, worker, tries, db, sent>>
  BY DEF Receive
<1> HIDE DEF q
<1>3. Head(q) \in Rows /\ Tail(q) \in Seq(Rows)
  BY <1>1, LastOfTail
<1>4. Tail(q) # << >> => Last(Tail(q)) = Last(q)
  BY <1>1, LastOfTail
<1>5. Tail(q) = << >> => Head(q) = Last(q)
  BY <1>1, LastOfTail
<1>6. StoreTypes'
  BY <1>2, <1>3 DEF StoreTypes
<1>7. WorkerInv'
  BY <1>2 DEF WorkerInv, Receive, NoRows
<1>8. NothingLost'
  <2>1. ASSUME NEW v \in Urls PROVE Newest(v)' = sent'[v]
    <3>1. CASE v = u
      <4>1. sent[u] = Last(q)
        BY <1>1 DEF NothingLost, Newest, q
      <4>2. Newest(u)' = Last(q)
        BY <1>2, <1>3, <1>4, <1>5, RowsAreRows DEF Newest, StoreTypes
      <4>3. QED BY <1>2, <3>1, <4>1, <4>2
    <3>2. CASE v # u
      BY <1>2, <3>2 DEF NothingLost, Newest, StoreTypes
    <3>3. QED BY <3>1, <3>2
  <2>2. QED
    BY <1>2, <2>1 DEF NothingLost, Receive
<1>9. QED BY <1>6, <1>7, <1>8

\* The pending rows become the batch, which is empty before.
LEMMA FlushKeeps ==
    ASSUME StoreInv, Flush
    PROVE  StoreInv'
<1> USE DEF StoreInv
<1>1. batch = NoRows
  BY DEF WorkerInv, Flush
<1>2. StoreTypes'
  BY DEF StoreTypes, Flush, NoRows
<1>3. WorkerInv'
  BY DEF WorkerInv, Flush
<1>4. NothingLost'
  <2>1. ASSUME NEW u \in Urls PROVE Newest(u)' = sent'[u]
    BY <1>1 DEF NothingLost, Newest, Flush, NoRows, StoreTypes
  <2>2. QED
    BY <2>1 DEF NothingLost, Flush
<1>5. QED BY <1>2, <1>3, <1>4

\* The batch becomes the rows of the database.
LEMMA SaveOkKeeps ==
    ASSUME StoreInv, SaveOk
    PROVE  StoreInv'
<1> USE DEF StoreInv
<1>1. StoreTypes'
  BY DEF StoreTypes, SaveOk, NoRows
<1>2. WorkerInv'
  BY DEF WorkerInv, SaveOk
<1>3. ASSUME NEW u \in Urls PROVE Newest(u)' = sent'[u]
  BY DEF NothingLost, Newest, SaveOk, NoRows, StoreTypes
<1>4. worker' = "exit" => db' = sent'
  <2>1. SUFFICES ASSUME worker' = "exit" PROVE db' = sent'
    OBVIOUS
  <2>2. \A u \in Urls : queue'[u] = << >> /\ pending'[u] = NoRow
                        /\ batch'[u] = NoRow
    BY <2>1 DEF WorkerInv, SaveOk, NoRows
  <2>3. \A u \in Urls : db'[u] = sent'[u]
    BY <1>3, <2>2 DEF Newest
  <2>4. QED
    BY <1>1, <2>3 DEF StoreTypes
<1>5. QED
  BY <1>1, <1>2, <1>3, <1>4 DEF NothingLost

\* The batch is pending again, where nothing newer can have come.
LEMMA SaveFailsKeeps ==
    ASSUME StoreInv, SaveFails
    PROVE  StoreInv'
<1> USE DEF StoreInv
<1>1. pending = NoRows
  BY DEF WorkerInv, SaveFails
<1>2. StoreTypes'
  BY BoundAssumption DEF StoreTypes, SaveFails, NoRows, WorkerInv
<1>3. WorkerInv'
  BY BoundAssumption DEF WorkerInv, SaveFails, StoreTypes
<1>4. ASSUME NEW u \in Urls PROVE Newest(u)' = sent'[u]
  BY <1>1 DEF NothingLost, Newest, SaveFails, NoRows, StoreTypes
<1>5. worker' = "exit" => tries' = 0
  BY BoundAssumption DEF SaveFails, WorkerInv, StoreTypes
<1>6. QED
  BY <1>2, <1>3, <1>4, <1>5 DEF NothingLost

\* The last row of the channel is the one kept.
LEMMA DrainKeeps ==
    ASSUME StoreInv, Drain
    PROVE  StoreInv'
<1> USE DEF StoreInv
<1>1. \A u \in Urls : queue[u] # << >> => Last(queue[u]) \in Rows
  BY LastOfTail DEF StoreTypes
<1>2. StoreTypes'
  BY <1>1 DEF StoreTypes, Drain
<1>3. WorkerInv'
  BY BoundAssumption DEF WorkerInv, Drain, StoreTypes
<1>4. ASSUME NEW u \in Urls PROVE Newest(u)' = sent'[u]
  BY <1>1, RowsAreRows DEF NothingLost, Newest, Drain, StoreTypes
<1>5. QED
  BY <1>2, <1>3, <1>4 DEF NothingLost, Drain

\* Whatever was not saved dies with the process, and is not expected.
LEMMA DieKeeps ==
    ASSUME ProberInv, StoreInv, Die
    PROVE  ProberInv' /\ StoreInv'
<1>1. ProberTypes'
  BY RowAssumption, ThresholdAssumption
  DEF ProberInv, ProberTypes, Die, NoRows, NoJobs, Idle, Jobs
<1>2. SnapshotInv'
  BY DEF Die, NoRows, NoJobs, Idle, SnapshotInv
<1>3. StoreTypes'
  BY BoundAssumption, EmptySeq DEF StoreInv, StoreTypes, Die, NoRows
<1>4. WorkerInv'
  BY BoundAssumption DEF Die, WorkerInv, NoRows
<1>5. NothingLost'
  BY DEF Die, NothingLost, Newest, NoRows
<1>6. QED
  BY <1>1, <1>2, <1>3, <1>4, <1>5 DEF ProberInv, StoreInv

\* The table a process starts with has entries of the right kind.
LEMMA ServeKeeps ==
    ASSUME ProberInv, StoreInv,
           NEW C \in SUBSET Urls,
           NEW loaded \in BOOLEAN,
           Serve(C, loaded)
    PROVE  ProberInv' /\ StoreInv'
<1>1. ASSUME NEW u \in Urls, Booted(C, loaded)[u] # NoRow
      PROVE  Booted(C, loaded)[u] \in Entries
  <2>1. Fresh \in Entries
    BY StatusTypes DEF Fresh, Entries
  <2>2. ASSUME NEW n \in Rows
        PROVE  Seeded(n) \in Entries
    BY StatusTypes DEF Seeded, Entries
  <2>3. db[u] # NoRow => db[u] \in Rows
    BY DEF StoreInv, StoreTypes
  <2>4. \/ Booted(C, loaded)[u] = Fresh
        \/ db[u] # NoRow /\ Booted(C, loaded)[u] = Seeded(db[u])
    BY <1>1 DEF Booted
  <2>5. QED
    BY <2>1, <2>2, <2>3, <2>4
<1>2. Booted(C, loaded) \in [Urls -> Entries \cup {NoRow}]
  <2>1. \A u \in Urls : Booted(C, loaded)[u] \in Entries \cup {NoRow}
    BY <1>1
  <2>2. QED BY <2>1 DEF Booted
<1>3. ProberTypes'
  BY <1>2 DEF ProberInv, ProberTypes, Serve
<1>4. SnapshotInv'
  BY DEF ProberInv, SnapshotInv, Serve
<1>5. StoreTypes'
  BY DEF StoreInv, StoreTypes, Serve
<1>6. WorkerInv' /\ NothingLost'
  BY DEF StoreInv, WorkerInv, NothingLost, Newest, Serve
<1>7. QED
  BY <1>3, <1>4, <1>5, <1>6 DEF ProberInv, StoreInv

---------------------------------------------------------------------------
(* The theorems *)

\* A first start finds an empty database.
LEMMA InitInv == Init => ProberInv /\ StoreInv
<1> SUFFICES ASSUME Init PROVE ProberInv /\ StoreInv
  OBVIOUS
<1>1. ProberTypes
  BY RowAssumption, ThresholdAssumption
  DEF Init, ProberTypes, NoRows, NoJobs, Idle, Jobs
<1>2. SnapshotInv
  BY DEF Init, NoRows, NoJobs, Idle, SnapshotInv
<1>3. StoreTypes
  BY BoundAssumption, EmptySeq DEF Init, StoreTypes, NoRows
<1>4. WorkerInv /\ NothingLost
  BY BoundAssumption DEF Init, WorkerInv, NothingLost, Newest, NoRows
<1>5. QED
  BY <1>1, <1>2, <1>3, <1>4 DEF ProberInv, StoreInv

\* Every step keeps both halves.
LEMMA NextKeeps ==
    ASSUME ProberInv, StoreInv, [Next]_vars
    PROVE  ProberInv' /\ StoreInv'
<1>1. ASSUME NEW u \in Urls, NEW s \in Slots,
             FirstProbe(u, s) \/ LoopProbe(u, s)
      PROVE  ProberInv' /\ StoreInv'
  <2>1. UNCHANGED store
    BY <1>1 DEF FirstProbe, LoopProbe
  <2>2. QED BY <1>1, <2>1, BeginsKeeps, StoreStutters
<1>2. ASSUME NEW u \in Urls, NEW s \in Slots,
             \/ Answer(u, s) \/ Committed(u, s) \/ RecordNothing(u, s)
             \/ record_latency(u, s) \/ record_failure(u, s)
      PROVE  ProberInv' /\ StoreInv'
  <2>1. UNCHANGED store
    BY <1>2
    DEF Answer, Committed, RecordNothing, record_latency, record_failure, Record
  <2>2. ProberInv'
    BY <1>2, AnswersKeep, RecordNothingKeeps, RecordsKeep
  <2>3. QED BY <2>1, <2>2, StoreStutters
<1>3. ASSUME NEW u \in Urls, NEW s \in Slots, Serving, Send(u, s)
      PROVE  ProberInv' /\ StoreInv'
  BY <1>3, SendKeepsProber, SendKeepsStore
<1>4. ASSUME \/ \E u \in Urls : AddUpstream(u) \/ RemoveUpstream(u)
             \/ Interval
             \/ \E u \in Urls : UpstreamFlips(u)
      PROVE  ProberInv' /\ StoreInv'
  <2>1. UNCHANGED store
    BY <1>4 DEF AddUpstream, RemoveUpstream, Interval, UpstreamFlips
  <2>2. QED BY <1>4, <2>1, SurroundingsKeep, StoreStutters
<1>5. ASSUME NEW u \in Urls, Receive(u) PROVE ProberInv' /\ StoreInv'
  <2>1. UNCHANGED prober
    BY <1>5 DEF Receive
  <2>2. QED BY <1>5, <2>1, ReceiveKeeps, ProberStutters
<1>6. CASE Flush
  <2>1. UNCHANGED prober
    BY <1>6 DEF Flush
  <2>2. QED BY <1>6, <2>1, FlushKeeps, ProberStutters
<1>7. CASE Save
  <2>1. UNCHANGED prober
    BY <1>7 DEF Save, SaveOk, SaveFails
  <2>2. QED
    BY <1>7, <2>1, SaveOkKeeps, SaveFailsKeeps, ProberStutters DEF Save
<1>8. CASE Drain
  <2>1. UNCHANGED prober
    BY <1>8 DEF Drain
  <2>2. QED BY <1>8, <2>1, DrainKeeps, ProberStutters
<1>9. CASE Die
  BY <1>9, DieKeeps
<1>10. ASSUME NEW C \in SUBSET Urls, NEW loaded \in BOOLEAN, Serve(C, loaded)
       PROVE  ProberInv' /\ StoreInv'
  BY <1>10, ServeKeeps
<1>11. CASE UNCHANGED vars
  <2>1. UNCHANGED prober /\ UNCHANGED store
    BY <1>11 DEF vars
  <2>2. QED BY <2>1, ProberStutters, StoreStutters
<1>12. QED
  BY <1>1, <1>2, <1>3, <1>4, <1>5, <1>6, <1>7, <1>8, <1>9, <1>10, <1>11
  DEF Next, Work

\* The inductive invariant of the prober and the health worker.
THEOREM HealthInvariant == Spec => [](ProberInv /\ StoreInv)
<1>1. ProberInv /\ StoreInv /\ [Next]_vars => (ProberInv /\ StoreInv)'
  BY NextKeeps
<1>2. QED
  BY <1>1, InitInv, PTL DEF Spec

\* The variables of the prober and the worker keep their types, and the probe
\* the loop waits for is always one at work.
THEOREM HealthTypeCorrect == Spec => []TypeOK
<1>1. ProberInv /\ StoreInv => TypeOK
  BY Halves DEF ProberInv, StoreInv
<1>2. QED
  BY <1>1, HealthInvariant, PTL

\* The newest row sent to the worker is never lost or overtaken by an older
\* one, although saving fails at times.
THEOREM HealthNothingLost == Spec => []NothingLost
<1>1. StoreInv => NothingLost
  BY DEF StoreInv
<1>2. QED
  BY <1>1, HealthInvariant, PTL
===========================================================================
