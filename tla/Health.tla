------------------------------ MODULE Health ------------------------------
(***************************************************************************)
(* The prober and the persistence of what it learns: Prober of             *)
(* crates/health/src/lib.rs, the health worker and flush_health of         *)
(* ncro/src/cli.rs and the upstream_health table of crates/db/src/lib.rs.  *)
(*                                                                         *)
(* Probes and committed races get an answer, and then the table's lock to  *)
(* record it: an answer may be out of date by then.  After releasing the   *)
(* lock, each sends a snapshot of the entry to the worker, which keeps the *)
(* newest of every upstream and saves them from time to time.  A restart   *)
(* seeds the table from what was saved.                                    *)
(*                                                                         *)
(* Abstractions: failures are counted up to DownAt, above which nothing    *)
(* changes; latencies, which only order upstreams, are left out; time is   *)
(* counted in base intervals, and up to the longest backoff.               *)
(***************************************************************************)
EXTENDS Integers, Sequences, SequencesExt

CONSTANTS
    Urls,         \* upstreams
    Slots,        \* bound on the recorders at work for one upstream
    DegradedAt,   \* failures that make an upstream Degraded: 3
    DownAt,       \* failures that make it Down: 10
    SlowDegraded, \* backoff of a Degraded upstream, in intervals: 4
    SlowDown,     \* backoff of a Down upstream: 10
    Tries,        \* attempts to save at shutdown: 3
    MaxQueue,     \* bound on the rows of an upstream in the channel
    NoRow         \* no row, no entry

ASSUME RowAssumption == NoRow \notin Slots /\ NoRow \notin Nat

ASSUME ThresholdAssumption ==
    /\ DegradedAt \in Nat /\ DownAt \in Nat
    /\ 0 < DegradedAt /\ DegradedAt < DownAt
    /\ SlowDegraded \in Nat /\ SlowDown \in Nat
    /\ 1 <= SlowDegraded /\ SlowDegraded <= SlowDown

ASSUME BoundAssumption ==
    MaxQueue \in Nat \ {0} /\ Tries \in Nat \ {0}

VARIABLES
    configured, \* upstreams of the configuration; others are discovered
    table,     \* the health table: an entry or NoRow for each url
    up,        \* the upstreams that answer at the moment
    first,     \* urls with a spawned first probe that has not begun
    job,       \* job[u][s]: what a recorder does
    probing,   \* the recorder of the loop's last probe, while it works
    age,       \* intervals since the loop's last probe
    queue,     \* the channel to the worker, seen for each upstream apart
    pending,   \* the worker's newest unsaved rows
    batch,     \* the rows being saved
    worker,    \* run, save, last (after the drain), lastsave, exit, gone
    tries,     \* attempts left after the drain
    db,        \* the rows of upstream_health
    sent       \* history: the last row sent before the drain

prober == <<configured, table, up, first, job, probing, age>>
store == <<queue, pending, batch, worker, tries, db, sent>>
vars == <<prober, store>>

---------------------------------------------------------------------------

compute_status(fails) ==
    IF fails >= DownAt THEN "Down"
    ELSE IF fails >= DegradedAt THEN "Degraded" ELSE "Active"

backoff_interval(fails) ==
    IF fails >= DownAt THEN SlowDown
    ELSE IF fails >= DegradedAt THEN SlowDegraded ELSE 1

\* UpstreamHealth::new.
Fresh == [fails |-> 0, status |-> "Active"]

\* seed.
Seeded(fails) == [fails |-> fails, status |-> compute_status(fails)]

Idle == [step |-> "idle", row |-> NoRow]
NoJobs == [u \in Urls |-> [s \in Slots |-> Idle]]
NoRows == [u \in Urls |-> NoRow]

\* serve, up to the first probes, with C configured: init_upstreams enters
\* those, and seed finds no others.  It is not called if the rows cannot be
\* loaded.
Booted(C, loaded) ==
    [u \in Urls |-> IF u \notin C THEN NoRow
                    ELSE IF loaded /\ db[u] # NoRow THEN Seeded(db[u])
                    ELSE Fresh]

Init ==
    /\ db = NoRows
    /\ configured = {}
    /\ table = NoRows
    /\ up \in SUBSET Urls
    /\ first = {}
    /\ job = NoJobs
    /\ probing = NoRows
    /\ age = [u \in Urls |-> SlowDown]
    /\ queue = [u \in Urls |-> << >>]
    /\ pending = NoRows
    /\ batch = NoRows
    /\ worker = "gone"
    /\ tries = Tries
    /\ sent = db

---------------------------------------------------------------------------
(* The prober *)

Counted(n) == IF n > DownAt THEN DownAt ELSE n

Does(u, s, step, row) ==
    job' = [job EXCEPT ![u][s] = [step |-> step, row |-> row]]

Free(u, s) == job[u][s] = Idle

\* The probe that serve or add_upstream spawned begins.
FirstProbe(u, s) ==
    /\ u \in first
    /\ Free(u, s)
    /\ first' = first \ {u}
    /\ IF table[u] = NoRow THEN UNCHANGED job ELSE Does(u, s, "ask", NoRow)
    /\ UNCHANGED <<configured, table, up, probing, age, store>>

\* Mutant: an upstream that is Active is taken to need no probes.
LoopTrusts(u, s) ==
    /\ table[u] # NoRow
    /\ table[u].status # "Active"
    /\ probing[u] = NoRow
    /\ age[u] >= backoff_interval(table[u].fails)
    /\ Free(u, s)
    /\ Does(u, s, "ask", NoRow)
    /\ probing' = [probing EXCEPT ![u] = s]
    /\ age' = [age EXCEPT ![u] = 0]
    /\ UNCHANGED <<configured, table, up, first, store>>

\* Mutant: an upstream that is Down is left alone.
LoopGivesUp(u, s) ==
    /\ table[u] # NoRow
    /\ table[u].status # "Down"
    /\ probing[u] = NoRow
    /\ age[u] >= backoff_interval(table[u].fails)
    /\ Free(u, s)
    /\ Does(u, s, "ask", NoRow)
    /\ probing' = [probing EXCEPT ![u] = s]
    /\ age' = [age EXCEPT ![u] = 0]
    /\ UNCHANGED <<configured, table, up, first, store>>

\* run_probe_loop finds u due.  An upstream it has never probed has the
\* greatest age.
LoopProbe(u, s) ==
    /\ table[u] # NoRow
    /\ probing[u] = NoRow
    /\ age[u] >= backoff_interval(table[u].fails)
    /\ Free(u, s)
    /\ Does(u, s, "ask", NoRow)
    /\ probing' = [probing EXCEPT ![u] = s]
    /\ age' = [age EXCEPT ![u] = 0]
    /\ UNCHANGED <<configured, table, up, first, store>>

\* Mutant: the loop takes a probe that is finished for one at work.
DoneUnnoticed(u, s) == Does(u, s, "idle", NoRow) /\ UNCHANGED probing

\* The recorder ends; if it was the loop's, the loop may probe again.
Done(u, s) ==
    /\ Does(u, s, "idle", NoRow)
    /\ probing' = [probing EXCEPT ![u] = IF @ = s THEN NoRow ELSE @]

\* probe_upstream has its answer: a 200, or neither its HEAD nor its GET got
\* one, or the timeout passed.  It waits for the table's lock.
Answer(u, s) ==
    /\ job[u][s].step = "ask"
    /\ Does(u, s, IF u \in up THEN "good" ELSE "bad", NoRow)
    /\ UNCHANGED <<configured, table, up, first, probing, age, store>>

\* commit_winner has the answer of a race's winner, and waits likewise.
Committed(u, s) ==
    /\ u \in up
    /\ Free(u, s)
    /\ Does(u, s, "good", NoRow)
    /\ UNCHANGED <<configured, table, up, first, probing, age, store>>

\* The entry was removed in the meantime: nothing is recorded.
RecordNothing(u, s) ==
    /\ job[u][s].step \in {"good", "bad"}
    /\ table[u] = NoRow
    /\ Done(u, s)
    /\ UNCHANGED <<configured, table, up, first, age, store>>

\* The entry changes under the table's lock, and a snapshot is to be sent.
Record(u, s, entry) ==
    /\ table' = [table EXCEPT ![u] = entry]
    /\ Does(u, s, "send", entry.fails)
    /\ UNCHANGED <<configured, up, first, probing, age, store>>

\* Mutant: a success changes the table, and the snapshot is forgotten.
RecordUnsent(u, s) ==
    /\ job[u][s].step = "good"
    /\ table[u] # NoRow
    /\ table' = [table EXCEPT ![u] = Fresh]
    /\ Done(u, s)
    /\ UNCHANGED <<configured, up, first, age, store>>

record_latency(u, s) ==
    /\ job[u][s].step = "good"
    /\ table[u] # NoRow
    /\ Record(u, s, [fails |-> 0, status |-> "Active"])

record_failure(u, s) ==
    /\ job[u][s].step = "bad"
    /\ table[u] # NoRow
    /\ LET n == Counted(table[u].fails + 1)
       IN  Record(u, s, [fails |-> n, status |-> compute_status(n)])

\* The persistence callback: the row goes into the channel.
Send(u, s) ==
    /\ job[u][s].step = "send"
    /\ Len(queue[u]) < MaxQueue
    /\ queue' = [queue EXCEPT ![u] = Append(@, job[u][s].row)]
    /\ sent' = [sent EXCEPT ![u] = job[u][s].row]
    /\ Done(u, s)
    /\ UNCHANGED <<configured, table, up, first, age, pending, batch, worker,
                   tries, db>>

\* add_upstream and remove_upstream, which discovery calls.
AddUpstream(u) ==
    /\ u \notin configured
    /\ table[u] = NoRow
    /\ table' = [table EXCEPT ![u] = Fresh]
    /\ first' = first \cup {u}
    /\ UNCHANGED <<configured, up, job, probing, age, store>>

RemoveUpstream(u) ==
    /\ u \notin configured
    /\ table[u] # NoRow
    /\ table' = [table EXCEPT ![u] = NoRow]
    /\ UNCHANGED <<configured, up, first, job, probing, age, store>>

Interval ==
    /\ \E u \in Urls : age[u] < SlowDown
    /\ age' = [u \in Urls |-> IF age[u] < SlowDown THEN age[u] + 1 ELSE age[u]]
    /\ UNCHANGED <<configured, table, up, first, job, probing, store>>

UpstreamFlips(u) ==
    /\ up' = IF u \in up THEN up \ {u} ELSE up \cup {u}
    /\ UNCHANGED <<configured, table, first, job, probing, age, store>>

---------------------------------------------------------------------------
(* The health worker *)

\* The worker receives a row: it replaces an older one of the upstream.
Receive(u) ==
    /\ worker = "run"
    /\ queue[u] # << >>
    /\ pending' = [pending EXCEPT ![u] = Head(queue[u])]
    /\ queue' = [queue EXCEPT ![u] = Tail(queue[u])]
    /\ UNCHANGED <<prober, batch, worker, tries, db, sent>>

\* flush_health takes the pending rows and waits for save_health, at a tick
\* or after the drain.
Flush ==
    /\ worker \in {"run", "last"}
    /\ worker' = IF worker = "run" THEN "save" ELSE "lastsave"
    /\ batch' = pending
    /\ pending' = NoRows
    /\ UNCHANGED <<prober, queue, tries, db, sent>>

\* The transaction commits.
SaveOk ==
    /\ worker \in {"save", "lastsave"}
    /\ worker' = IF worker = "save" THEN "run" ELSE "exit"
    /\ db' = [u \in Urls |-> IF batch[u] # NoRow THEN batch[u] ELSE db[u]]
    /\ batch' = NoRows
    /\ UNCHANGED <<prober, queue, pending, tries, sent>>

\* The transaction fails, which save_health does not try without rows: they
\* are pending again.
SaveFails ==
    /\ worker \in {"save", "lastsave"}
    /\ batch # NoRows
    /\ worker' = IF worker = "save" THEN "run"
                 ELSE IF tries > 1 THEN "last" ELSE "exit"
    /\ tries' = IF worker = "save" THEN tries ELSE tries - 1
    /\ pending' = [u \in Urls |-> IF batch[u] # NoRow THEN batch[u]
                                  ELSE pending[u]]
    /\ batch' = NoRows
    /\ UNCHANGED <<prober, queue, db, sent>>

\* Mutant: what was received first is kept.
DrainOldest ==
    /\ worker = "run"
    /\ worker' = "last"
    /\ pending' = [u \in Urls |-> IF queue[u] # << >> THEN Head(queue[u])
                                  ELSE pending[u]]
    /\ queue' = [u \in Urls |-> << >>]
    /\ UNCHANGED <<prober, batch, tries, db, sent>>

\* The worker sees the stop and receives what there is.
Drain ==
    /\ worker = "run"
    /\ worker' = "last"
    /\ pending' = [u \in Urls |-> IF queue[u] # << >> THEN Last(queue[u])
                                  ELSE pending[u]]
    /\ queue' = [u \in Urls |-> << >>]
    /\ UNCHANGED <<prober, batch, tries, db, sent>>

\* The process ends: at the end of a shutdown, or at any other time.
Die ==
    /\ worker # "gone"
    /\ worker' = "gone"
    /\ table' = NoRows
    /\ first' = {}
    /\ job' = NoJobs
    /\ probing' = NoRows
    /\ age' = [u \in Urls |-> SlowDown]
    /\ queue' = [u \in Urls |-> << >>]
    /\ pending' = NoRows
    /\ batch' = NoRows
    /\ tries' = Tries
    /\ sent' = db
    /\ UNCHANGED <<configured, up, db>>

\* serve, with C configured.
Serve(C, loaded) ==
    /\ worker = "gone"
    /\ worker' = "run"
    /\ configured' = C
    /\ table' = Booted(C, loaded)
    /\ first' = C
    /\ UNCHANGED <<up, job, probing, age, queue, pending, batch, tries, db,
                   sent>>

---------------------------------------------------------------------------

\* What a recorder does by itself.
Work(u, s) ==
    \/ FirstProbe(u, s)
    \/ LoopProbe(u, s)
    \/ Answer(u, s)
    \/ RecordNothing(u, s)
    \/ record_latency(u, s)
    \/ record_failure(u, s)
    \/ Send(u, s)

Save == SaveOk \/ SaveFails

\* The process has not been stopped as far as the worker knows.  What the
\* recorders do after that finds no receiver and ends with the process.
Serving == worker \in {"run", "save"}

Next ==
    \/ /\ Serving
       /\ \/ \E u \in Urls : \E s \in Slots : Work(u, s) \/ Committed(u, s)
          \/ \E u \in Urls : AddUpstream(u) \/ RemoveUpstream(u)
          \/ Interval
          \/ \E u \in Urls : UpstreamFlips(u)
    \/ \E u \in Urls : Receive(u)
    \/ Flush
    \/ Save
    \/ Drain
    \/ Die
    \/ \E C \in SUBSET Urls, loaded \in BOOLEAN : Serve(C, loaded)

\* Probes have a timeout and the tickers tick; the worker's select is random,
\* so that a row in the channel is received some day.
Fairness ==
    /\ \A u \in Urls : \A s \in Slots : WF_vars(Serving /\ Work(u, s))
    /\ WF_vars(Serving /\ Interval)
    /\ WF_vars(Save)
    /\ \A u \in Urls : SF_vars(Receive(u))

Spec == Init /\ [][Next]_vars /\ Fairness

---------------------------------------------------------------------------
(* Properties *)

Rows == 0..DownAt
Entries == [fails : Rows, status : {"Active", "Degraded", "Down"}]
Jobs == [step : {"idle", "ask", "good", "bad", "send"}, row : Rows \cup {NoRow}]

\* Types, and that the loop's unfinished probe is at work.
TypeOK ==
    /\ configured \subseteq Urls
    /\ table \in [Urls -> Entries \cup {NoRow}]
    /\ up \subseteq Urls
    /\ first \subseteq Urls
    /\ job \in [Urls -> [Slots -> Jobs]]
    /\ probing \in [Urls -> Slots \cup {NoRow}]
    /\ \A u \in Urls :
           probing[u] # NoRow => job[u][probing[u]].step # "idle"
    /\ age \in [Urls -> 0..SlowDown]
    /\ queue \in [Urls -> Seq(Rows)]
    /\ pending \in [Urls -> Rows \cup {NoRow}]
    /\ batch \in [Urls -> Rows \cup {NoRow}]
    /\ db \in [Urls -> Rows \cup {NoRow}]
    /\ worker \in {"run", "save", "last", "lastsave", "exit", "gone"}
    /\ tries \in 0..Tries
    /\ sent \in [Urls -> Rows \cup {NoRow}]

\* The newest row of an upstream between the channel and the database.
Newest(u) ==
    IF queue[u] # << >> THEN Last(queue[u])
    ELSE IF pending[u] # NoRow THEN pending[u]
    ELSE IF batch[u] # NoRow THEN batch[u]
    ELSE db[u]

\* No row is lost or overtaken by an older one on the way to the database,
\* although saving may fail; and a shutdown ends with the last row of every
\* upstream saved, unless all attempts to save failed.
NothingLost ==
    /\ \A u \in Urls : Newest(u) = sent[u]
    /\ worker = "exit" => tries = 0 \/ db = sent

\* An upstream that answers again is Active again, and stays so, however far
\* the probes had backed off, and although failures found before it came back
\* may be recorded after its first success.
Recovers ==
    \A u \in Urls :
        <>[](u \in up /\ u \in configured /\ Serving) =>
            <>[](table[u] # NoRow /\ table[u].status = "Active")

\* An upstream that no longer answers is Down in the end, and stays so,
\* although successes from before may be recorded late and start the count
\* again: races do not wait for it for ever.
Excluded ==
    \A u \in Urls :
        <>[](u \notin up /\ u \in configured /\ Serving) =>
            <>[](table[u] # NoRow /\ table[u].status = "Down")

\* Two recorders may send their snapshots in the other order than they changed
\* the table, and the worker keeps the older one.  It is corrected: if the
\* upstream goes on answering and saving works now and then, the database
\* ends with a row that does not make the next start distrust it.
Corrected ==
    \A u \in Urls :
        <>[](u \in up /\ u \in configured /\ Serving) /\ []<><<SaveOk>>_vars =>
            <>[](db[u] = 0)
===========================================================================
