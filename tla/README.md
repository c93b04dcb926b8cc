# A TLA+ model of ncro

ncro is a proxy for Nix binary caches. It answers narinfo requests by racing
the caches it knows (its *upstreams*), remembers who won, and streams NARs from
the winner. This directory holds TLA+ specifications of its concurrent parts,
TLC configurations that check them on small instances, and TLAPS proofs of the
properties that matter most for instances of any size. `PROJECT.json` lists the
components, runs, theorems, hazards and findings, and maps every definition to
the source lines it models.

## The system

| Component | State | Operations | Modelled by |
| --- | --- | --- | --- |
| Narinfo race (`router`) | candidates, priority groups, attempts of a `JoinSet`, cooldown map | `race`, `race_group`, `commit_winner`, `in_cooldown`, `mark_cooldown` | `Race`, abstractly `RaceContract` |
| Resolve and its caches (`router`, `db`) | route cache and miss cache in memory, the singleflight map, route rows and negative rows in SQLite | `resolve`, `resolve_cached`, `valid_cached_route`, `InflightGuard::drop`, `set_route`, `set_negative` | `Router` |
| Lookups between instances (`router`, `server`) | race permits, gates by upstream and hop, flights | `narinfo`, `Hop`, `upstream_gate` | `Hops` |
| mDNS discovery (`discovery`, `health`) | peers by name, owned urls, the prober's table | `resolved`, `expire`, `release`, `add_upstream`, `remove_upstream` | `Discovery` |
| NAR streaming (`server`) | attempts of a `JoinSet`, candidates, the hedge timer | `nar`, `hedge_candidates`, `hedged_nar`, `try_nar_upstream` | `NarHedge` |
| Health prober (`health`) | per upstream: EMA latency, consecutive failures, status | `record_latency`, `record_failure`, `probe_upstream`, `run_probe_loop`, `seed`, `sorted_by_latency` | `Health`; any ranking |
| Health persistence (`cli`, `db`) | channel, pending rows, `upstream_health` in SQLite | the worker in `serve`, `flush_health`, `save_health` | `Health` |
| Mesh gossip (`mesh`, `db`) | announcements over UDP, the packet being merged, the routes table | `announce`, `listen_and_serve`, `merge_routes`, `run_gossip_loop`, `list_recent_routes`, `expire_old_routes` | `Gossip`; its effect on a lookup in `Router` |
| Route database (`db`) | rows, a write counter | reads, writes, expiry, eviction, `migrate` | the rows in `Router`, `Gossip` and `Health`, the schema in `Startup` |
| Realisations (`server`, `narinfo`) | attempts of a `JoinSet`, negative rows | `realisation`, `realisation_trusted`, `verify_fingerprint` | `Realisation` |
| Filters (`router`) | rules by url | `upstream_allows_narinfo`, `filter_rule_matches`, `wildcard_match` | `Filters` |
| Configuration (`config`) | the file, the environment, password files, a netrc | `load`, `check`, `validate` | `Config` |
| Mesh identity (`mesh`) | the key file and temporary files | `Node::new`, `write_new_key` | `MeshKey` |
| Startup and command line (`cli`) | schema, tables by url, sockets | `serve` until it is ready, `--check`, `--generate-mesh-key` | `Startup` |
| Upstream backends (`upstream`) | backends by url | `register` | which backend with which credentials, in `Startup` |
| Narinfo parsing, url rewriting, status, metrics | none of their own | pure functions on texts, reporting | not modelled |

How they interact: `narinfo` asks the prober for the upstreams that are not
Down and calls `resolve`. `resolve` goes through the miss cache, the negative
row, the route cache and the row, and calls `race` when all of them miss.
`race` sends requests to upstreams, which may be ncro instances that do the
same, and `commit_winner` writes the row and the route cache and reports to the
prober. The prober asks every upstream from time to time, counts its failures
and sends what it learns to a worker that saves it; the next process starts from
there. Discovery adds and removes upstreams in the prober's table while
lookups run; gossip writes rows; jobs delete them; `nar` reads them. Everything
runs as tokio tasks that overtake each other at every `await`, and a handler's
future is dropped at an `await` when its client disconnects.

Before all that, a process loads and validates its config, migrates the
database, registers upstreams, keys and filters, takes its mesh identity from a
file it may share with others, and binds its addresses.

What is hard: lookups of one hash that meet in the singleflight map and are
dropped while they hold it; caches with expiries of their own in front of rows
that others write; a verdict ("not found") drawn from answers of which some are
missing; retries inside a race; instances that wait for each other; hedges that
start on a timer, on a failure and at once; urls shared between peers and the
configuration; health rows on their way to a database that fails; routes that
instances hear from each other over a network that loses them; processes that
create one key file or migrate one database at once and are killed half-way;
settings and credentials that come from several sources. `PROJECT.json` lists these as hazards with the properties that
cover them.

## Modules

A module stands for one component, its `MC` module gives the constants of the
runs, and its `Proofs` module the theorems. Operators named "Mutant" in their
comment are plausible mistakes; each property is known to fail when one of them
replaces the operator it stands next to.

**`Race`** follows one lookup after another through `race`. A step is what
happens between two events of the task: a HEAD answers, the deadline passes, a
commit ends. The body of an upstream is a model value; that it parses and
matches the keys is `Verifies`, that the rules let it through is `Accepts`.
Upstreams change what they hold, in particular between HEAD and GET. Latency is
not modelled: any HEAD may be the first. The history variable `answer` holds
the last thing each candidate said in this lookup. `RaceContract` is what
`resolve` relies on: a race that has candidates ends with the vetted body of one
of them or with an error. `Race` implements it with `racing` being
`phase # "idle"`.

**`Router`** has any number of lookups of one store hash. Each database access
is a step, so is each fetch; the in-memory caches and the map are used between
two awaits without interruption. The race is one step, as `RaceContract`
allows, followed by `commit_winner`'s write and cache insert as steps of their
own. A flight (`Arc<Mutex>`) is named after the lookup that created it. Dropped
lookups, restarts with another filter configuration, gossip, late writes of
dropped lookups, deletions, LRU evictions by other hashes and a clock surround
them. Database writes are atomic (one statement under a lock). An entry of the
route cache is served as it is: the code checks it against the filters once
more, and `FiltersHonoured` shows that the check cannot fail. Signature keys are
not part of `FiltersHonoured`: the code verifies signatures when it fetches and
not when it reads a row. Why a lookup failed is not kept, but for a miss that is
remembered.

**`Hops`** has instances that are each other's upstreams and lookups named by
the way they came. What it keeps of a lookup is what it waits for: the flight
(clients only), the race permit (clients only), the gate of each upstream, the
answers. A request has two ends, the attempt at its sender and the handler at
the instance it reaches. A race that has its winner, or whose deadline passes,
drops its own attempts and their gate permits; the handlers they had reached go
on with what they hold until they are through or notice. The winner gets
`commit_winner`'s GET, which passes no gate, while flight and permit are held;
if it is refused, the rest of the group is raced again. Hits in caches, winners,
deadlines and clients that go are chances; the property is that waiting ends
without them. A hit asks nobody in this model. In the code it does if the row
has no body or one that the filters deny (`Refetch` of `Router`), with whatever
hop it came: that way on to another instance is not part of `HopsBounded`.

**`Discovery`** keeps the discovery task's maps and the keys of the prober's
table. Each `await` on the table's lock is a step. Ages are counted in ticks and
capped just above the expiration, so that the clock is unbounded.

**`NarHedge`** follows one NAR request. Which upstreams are eligible (tracked,
not Down, with a narinfo that matches) is chosen freely. Candidates are a set
from which the best priority is popped; within a priority the order is that of
latency, which may be any.

**`Health`** has the prober's table, the tasks that record in it and the worker
behind the channel. A recorder asks, has its answer, records it under the
table's lock and sends its snapshot, and each of these is a step of its own: a
failure may be recorded after the upstream is back, and snapshots may be sent in
another order than they were taken. The channel is kept for each upstream apart, which
loses only orders between upstreams, and the worker overwrites by upstream. The
worker's `select!` branches are steps; saving is a step in which the transaction
commits or fails. The process may die at any moment and start again with other
configured upstreams, from the saved rows or, if they cannot be loaded, without.
Failures are counted up to the Down threshold and time up to the longest
backoff; latencies are left out. `sent` is a history variable.

**`Gossip`** has instances with tables of routes. A route's age stands for
`last_verified` and `ttl`, and is not counted beyond expiry, so that time has no
end. A tick is a gossip interval, in which each instance that has live routes
announces once, and what is sent arrives or is lost. `merge_routes` looks a row
up and stores the route in two steps, between which lookups commit. What goes
wrong (a packet lost or delivered twice, a query failed, a restart) is counted
by `faults` and bounded, so that liveness is about what happens when it stops.

**`Realisation`** extends `NarHedge` with the other request that asks several
upstreams: a request is for a NAR or for a realisation, and `stage`, `outcome`
and `fallback` serve both. All attempts start at once, answers arrive in any
order, and the first that is trusted is served. A body is what `Trusted` looks
at: whether it parses, what its words say and who signed what; in the new form
a signature covers the output that was asked for, in the old one the body's own
words. `said` is a history variable.

**`Filters`** has the rules and `wildcard_match` as operators over sequences of
characters, next to `Glob` and `Wanted`, which say what a pattern and a list of
rules mean. **`Config`** has `load` and `validate` as operators from a file and
an environment to settings: a url is what `Url::parse` makes of it, a netrc a
function from hosts to entries, the settings that must be positive are a set of
names. Each step that may fail is a predicate (`CanParse`, `CanLoad`) beside the
operator for its result. Nothing is kept of `NCRO_DB_PATH`, formats and timeouts
that are only passed on, and what TOML or serde reject is one bad value
(`listen`).

**`MeshKey`** has processes that share a key file. Each system call of
`Node::new` and `write_new_key` is a step; a process may end at any of them, and
the disk may fail. A seed is the number of its draw, so that two are never
equal.

**`Startup`** composes the three. Its processes run on one machine; a setup is
the machine as it may be found (file, environment, schema, key file, IPv6, who
else listens, and how many crashes and I/O errors are to come). Every statement
of the migration is a step (an index goes with its table), and so is checking
for a column and adding it; loading and registering, which nobody else can
observe, are one step each. The address rules of Linux (`Overlap`) are external:
a listening `[::]` excludes every other address of the port, `SO_REUSEADDR`
notwithstanding. Since the machine does not change once it is chosen, every file
is followed on its own. `Startup` implements `MeshKey` with its own variables.

## Runs

| Run | Instance | Shows |
| --- | --- | --- |
| `race` | 3 upstreams, two of one priority; one denies the body, one serves it unverified; 1 change of contents | all of `Race`, `ContractSpec`, `RaceTerminates` |
| `router` | 1 upstream, 2 bodies, in three scenes: 2 lookups with a restart under other filters, gossip and deletions; 2 lookups and a clock; 3 client lookups | `TypeOK`, `FiltersHonoured`, `ReuseBounded`, `OneOpenFlight`, `SingleFlight`, `LookupsComplete` |
| `hops` | 2 instances, limits of 1, ways of up to 3, 2 requests to an instance; 2 clients with 1 or 2 chances, or 3 clients | `TypeOK`, `HopsBounded`, `LookupsAnswered` |
| `discovery` | 2 peers, 3 urls of which one is configured | `TypeOK`, `Tracked`, `TableExact`, `Forgotten` |
| `nar_hedge` | 4 upstreams, 2 priorities, 2 opt-outs, every setting, `max_inflight` up to 3; for realisations 3 publishers, keys, signed, forged and unparsable bodies | all of `NarHedge`, `NegativeJustified` |
| `health` | 1 upstream, thresholds 1 and 2, backoffs 1 and 2, 2 attempts to save, in two scenes: 2 recorders, or 1 whose rows pile up in a channel of 2 | `TypeOK`, `NothingLost`, `Recovers`, `Excluded`, `Corrected` |
| `gossip` | 2 peers, 2 paths, 2 latencies, a TTL of 2 intervals, 1 fault | `TypeOK`, `Spread`, `Forgotten` |
| `startup` | 2 processes; 377 machines, of which 10 have two rivals and up to 2 crashes or I/O errors | all of `Startup`, `KeyShared` |

Why the bounds suffice to be interesting: a race needs a second group, a second
member in a group and a body that one upstream refuses; a third upstream makes
all three meet. A flight goes wrong when a lookup that leaves an old one takes
the new one off the map: the holder that closed the old one, the waiter that
leaves it late and the opener of the new one are three, and `OneOpenFlight`
is violated as soon as the opener's flight is not registered; a fourth lookup,
which would open the second flight, need not come. Restarts and clocks have
scenes of their own because they do not change what lookups do to each other.
Two instances already wait for each other and can pass a lookup back and forth;
a third instance on the way must not race, and one that did would show in
`HopsBounded`; `HopsBoundedTheorem` covers longer ways. Two clients of one instance meet
at its flight or its permit, clients of two at the gates. A second request to an
instance is the GET after a HEAD that won; a chance makes handlers that nobody
waits for, and two chances make such handlers on both sides.
Two peers can share a url; the third url is the configured one. Three hedging candidates exceed a limit of two. Upstreams
do not influence each other's health. Two recorders can overtake each other, and
with two rows in the channel the newest is not the oldest; both at once add no
case, as the worker does not see who sent a row.
With a TTL of two intervals a route that is found again in time never expires at
its finder, which `Spread` speaks of. A starting
process only meets others at the key file, the database and the sockets, and two
suffice to overtake each other there; two faults let one process die and the
other, or the next start, fail. Files vary in one respect each (credentials,
filters, fallback, S3 urls, a setting that is invalid), since they are read
independently of each other. Patterns of the passing run are exact, or end in a
star, and names have up to five characters; the remaining kind of pattern is the
run `startup_wildcard`. The proofs do not depend on any of these bounds.
`MaxChanges`, `MaxTime`, `MaxRestarts`, `MaxDepth`, `MaxRequests`, `MaxInflight`,
`MaxQueue`, `Slots`, `MaxFaults` and, in a setup, `faults` are the bounds' names.

Deadlock checking is off where all work can be done: lookups and requests are
answered and there are no more, processes are ready or done. The other models never stop.

Four runs are expected to fail; each checks a sentence of the documentation:

- `startup_password`: `password_file` is the "File containing the HTTP Basic Auth
  password" (configuration.md). `load` reads the password and keeps the file's
  name, and `validate`, which `serve` calls next, refuses an upstream that has
  both. `--check`, which does not read the file, accepts the config.
- `startup_wildcard`: "Patterns use `*` as a wildcard", for example `*-source`
  (configuration.md). `wildcard_match` takes the last piece of a pattern where it
  first occurs, so that `*-b` does not match `a-b-b`.
- `gossip_oversize`: ncro "gossips recent route decisions to configured peers"
  (README). An announcement holds up to 25 routes with their narinfos, but the
  receiver's buffer has 1400 bytes, which one or two of them fill. A longer
  datagram is truncated and rejected, in every round. `Spread`, which the run
  `gossip` shows for announcements that fit, fails when two routes do not.
- `router_ttl`: routes are "reused until their TTL expires" (README), the TTL
  being the "Lifetime of a successful route" (configuration.md). The route cache
  in memory gives what it is filled with a whole `route_ttl`, also a row that has
  hardly any of its own left. `ReuseBounded` is the bound that holds.

Other differences from the documentation are visible in the models without a run
of their own:

- Priority. "Lower `priority` wins only when latency is within the router's 10%
  tie window; it is not a strict ordering mechanism" (configuration.md:76-77);
  on a miss ncro "races HEAD requests to all configured upstreams in parallel"
  and "Lower latency wins the race" (README.md:91, 144-145, 148, 689, and
  architecture.md:120-122 likewise). `race` groups the candidates by priority and
  asks a group only when all better ones have failed, so that priority is a
  strict order and latency only decides within a group (router lib.rs:642-705).
  `PriorityRespected` states what the code does, and so contradicts these
  sentences; the comment at line 642 agrees with it.
- NARs. After a 404 ncro "falls through to the next upstream in latency order",
  and likewise without a route (README.md:106-111, architecture.md:75-76). The
  code takes the next one by priority groups first and by latency within them
  (`Foremost` of `NarHedge`), as configuration.md:245 says of hedges. Upstreams
  that opted out of hedging are skipped unless they come first (`Unrouted`).
- The fallback cache. "A matching `deny` always rejects a candidate"
  (configuration.md:128-129) and ncro does not "apply ... filters" to the fallback
  (262-263). But an enabled fallback with the url of an upstream is registered
  after it in tables that are kept by url, and its rules, keys and credentials,
  by default none, replace that upstream's (`ByUrl` of `Startup`). The same
  happens between two upstreams with one url. `FiltersAsWritten` therefore speaks
  of upstreams with a url of their own.
- `merge_routes` may overwrite a better route that was committed after it looked,
  contrary to the test "worse incoming must not overwrite better existing"
  (`Compare` and `Store` of `Gossip`).
- `resolve` "Returns `NotFound` if no upstream has the path" (its doc comment), but
  one 404 is enough although others timed out or were cooling down; `Verdict` is
  what holds.

## Fairness

- `Race`: the deadline fires, and commits end (fetches have timeouts). No HEAD
  need ever answer.
- `Router`: each lookup's next step is taken. Fetches have timeouts, SQLite
  answers or fails, tokio's mutex is handed to the next in line. Clients need not
  arrive or leave, no clock need tick.
- `Hops`: while some task can go on, one does. That is less than tokio's
  schedulers and fair queues give, and it is enough because no lookup goes on for
  ever. Chances are not fair, nor is noticing that nobody waits.
- `Discovery`: the task finishes the event it handles; time passes; the cleanup
  branch of `select!` is strongly fair, because `select!` picks among the ready
  branches at random and the interval's tick stays ready.
- `NarHedge`: lookups and attempts have timeouts, timers fire.
- `Health`: probes have a timeout and the loop's ticker ticks; SQLite commits or
  fails. Receiving is strongly fair because `select!` picks at random.
  Flushes, the stop and the end of the process need never come.
- `Startup`: each process takes its next step, and systemd starts a `serve` that
  failed again (`Restart = "on-failure"`, nix/module.nix). `--check` and
  `--generate-mesh-key` need never be started. Faults are not fair and run out.
- `Realisation`: as `NarHedge`; every attempt is under a timeout.
- `Gossip`: each instance announces and merges, the expiry job runs, time passes.

## Proofs

All theorems hold for every value of the constants under the modules' `ASSUME`s:
the limits are positive (validated by `config`), special values are no members
of the sets they are added to, the tables of verdicts are functions of their
types. No set is assumed to be finite, but for the upstreams whose answers
`Realisation` counts. A `Proofs` module covers its component, `NarHedgeProofs` also
`Realisation`, and `StartupProofs` also `MeshKey`, `Config` and `Filters`.

`RaceProofs`. The inductive invariant `RaceInv` adds to the properties where
each candidate is: asked or still waiting (`AskedOrWaiting`), in the current
group only while it is asked (`GroupInUse`), at most one success, the winner
(`OneWinner`), and that `not_founds` counts negative answers (`MissesCounted`);
without the last, `Verdict` does not survive the end of a group.
`RaceImplementsContract` shows that every step of `Race` maps to one of
`RaceContract` or to a stutter.

`RouterProofs`. Filters: every lookup that is about to store carries a body the
current filters let through, because a restart forgets the lookups together with
the configuration. Flights: a holder of a mutex is aboard its flight, and an
open flight is the registered one; that is where the comparison of the `Arc`s in
`InflightGuard::drop` is needed. Singleflight: what a closed flight's last
holder stored is still in the cache the next holder looks into. A holder never
waits for a mutex itself (`HolderWorks`).

`DiscoveryProofs`. `TableExact` speaks about the moments between two events;
`Adding` and `Releasing` say what the table holds at each `await`.

`NarHedgeProofs`. `Accounted` says that nobody is forgotten: whoever the request
could use waits, runs or has failed. The bound on the attempts is a separate
argument over cardinalities: the timer looks at the limit first, and a failure
makes room for its replacement. `ServerSafe` carries all of it over to the server
of `Realisation`, whose steps leave the state of a NAR request alone or are its
steps. For realisations, `CountInv` ties the handler's counters to what was said:
`asked` is the attempts under way and the answers given, `misses` the denials
among the answers. Then `misses = asked`, at the end, makes the denials all of
the answers, which is an argument over cardinalities of a finite set and its
subset.

`HealthProofs`. The invariant falls into the prober's half and the worker's,
and each action but `Send`, `Die` and `Serve` touches one of them. `NothingLost`
needs `WorkerInv`: rows are being saved only while the worker waits, and then
none is pending, so that rows that could not be saved overwrite nothing newer
when they become pending again.

`HopsProofs`. `HopsInv` adds to the types, for each lookup, that the hop tells how
far it has come wherever a handler works on it (`WayInv`), for whomever; that
makes `HopsBounded` inductive, and is where ways of any length meet the three
values of the header. The limits are an argument over cardinalities
(`LimitsInv`). That waiting has no circle is `NoCircle`: `Rank` counts how far a
lookup has come, six steps for every instance, from the gate over the request,
the flight and the permit to the race, and whoever waits, waits for somebody of a
higher rank. Handlers that nobody waits for any more have a rank like the
others, so what they hold is covered. Two requests that pass one gate have the
same depth because the gates are kept by hop; with one gate for each upstream
this fails. From a bounded rank it follows that somebody can go on
(`NeverStuck`), where `CanStep` spells out the guard of `Step`, since `ENABLED` is
out of the prover's reach.

`GossipProofs`. Merging and ageing keep one row for a path, and nothing makes a
route younger but a lookup that finds it (`Kept`, for every route in a table, a
packet or a merge). So a path without a live route comes back only from an
upstream that has it.

`StartupProofs`. `KeyInv` says that a file at the key's path holds a whole seed
once anybody has announced one, that a temporary file is full when it is linked,
and that whoever is about to announce has the file's seed. Every step of
`Startup` is a step of `MeshKey` or leaves it alone, so that `KeyShared` carries
over. `StartInv` says of each process how far it has come: every statement of the
migration before the next one has had its effect, whoever ran it, and what the
process has loaded and registered is what the machine's files say.
`SocketsInv` says that a process listens on what its setting stands for and
overlaps with nobody; it is inductive only with the addresses of a process
between its two binds and with the fact that a machine without IPv6 has nobody on
an IPv6 address. The file's way to the tables is followed field by field
(`Loaded`, `Resolving`, `RegisteredIsWritten`, `HeldFor`): what is held for a url is
what became of one entry of the file with that url. `SetupsAssumption` and
`FilesAssumption` say that the machines are ones a program can find: a file has
its fields, a rule allows or denies, the schema has only tables and columns of
the migration. `StartupFilters` is about entries with a url of their
own, and has `PatternsAgree` as its hypothesis, that `wildcard_match` reads the
patterns at hand as globs: it is false for some patterns (`startup_wildcard`), and
where it holds could only be proved by induction over texts.

Only model-checked: liveness (`RaceTerminates`, `LookupsComplete`,
`LookupsAnswered`, `Forgotten`, `RequestEnds`, `Recovers`, `Excluded`,
`Corrected`, `Spread`, `StartsAgain`), which depends on fairness and is out of the
prover's reach, and what `wildcard_match` returns, a fold over a sequence. Of some of the former the
safety they rest on is proved: `RouterHolderWorks`, `HopsNoDeadlock`,
`StaysForgotten` and `StartupLeavesNothingHalf`. Every invariant that a passing run checks
has a theorem.

## Not modelled

Narinfo parsing, the normalisation of hashes and the rewriting of NAR urls are
conversions of texts; their verdicts are parameters (`Verifies`, `Accepts`).
Requests over HTTP and S3, the streaming of a NAR after its first chunk,
status pages, metrics and logging are I/O. Latencies and the ranking by them are
left out: the models let any order happen. Eviction is a deletion at any time;
that it runs on every hundredth write is not modelled, as nothing depends on how
full the table is. Signatures of gossip packets are taken for good. A `serve`
without a config file runs with defaults that are valid.

## Plan

In order of importance. The modules are in place; "then" marks what may follow.

1. `Race`, `RaceContract`, `RaceProofs`.
2. `Router`, `RouterProofs`.
3. `Hops`, `HopsProofs`.
4. `Discovery`, `DiscoveryProofs`.
5. `NarHedge`, `Realisation`, `NarHedgeProofs`.
6. `Health`, `HealthProofs`; then the safety that `Recovers` rests on, that an
   upstream that is served has a probe due or under way.
7. `Gossip`, `GossipProofs`.
8. `Filters`, `Config`, `MeshKey`, `Startup`, `StartupProofs`.
