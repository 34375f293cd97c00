# Verification of the monitoring agent and its hub

TLA+ models of the repository's core logic, TLC configurations that check them on small
instances, and TLAPS proofs for every value of the constants. `PROJECT.json` lists the runs,
their mutants, the source lines every definition stands for, the hazards and the theorems.

## 1. The system

An **agent** runs on each machine: it samples the system, scrapes local applications, raises
alerts, serves its own pages, and delivers reports to a **hub** in one of three ways: the hub
polls it, it pushes over a WebSocket, or it sends sealed mail. The hub registers systems, keeps
their latest state and history, and serves a dashboard with an event stream. **hub-store** is
the hub's time-series engine (RFC 0010): one redb file, a directory of immutable block files,
one writer thread, one block writer thread, and queries on the callers' threads.

| component | state | operations | what is hard |
|---|---|---|---|
| writer, log, tails (`hub-store/src/store/{writer,ingest,open,rotation}.rs`, `state.rs`) | head, interval, redb tables, hub time | append, sweep, group commit, rotation, open and replay, close | crash at any point, commits that fail after landing, ids and chunk keys given again after a crash |
| span handoff (`store/handoff.rs`, `store/writer/files.rs`, `block/*`) | waiting, in-flight and failed spans, jobs, messages, files | choose, read, write, commit the row, retry | two threads and a directory, a crash between any two steps |
| retention (`store/{pass,retire}.rs`, `retention/*`) | retention clock, stage of the pass | begin, scan in batches, retire, unlink | runs beside handoffs, over several commits |
| queries (`store/{query,blocks}.rs`) | a head copy, a read transaction, known files | view, read, merge | every other thread moves between its steps |
| catalog and lifecycle (`store/{catalog,lifecycle}.rs`, `store.rs`) | running, closed or failed; waiting callers | ask, transact, close, drop | callers racing a close or a failure |
| presence and push sockets (`system-hub/src/{presence.rs,push}`) | leases, currency, statuses, live metrics, sockets and their deadlines | accept, claim, store, end, sweep, refuse, linger | a status read before a lock and used after it, replaced connections, silent clients |
| registry, poller, rounds, history (`system-hub/src/{collector,db}`, `round_intake.rs`, `snapshot_intake.rs`) | the row, alert records, metrics table, live entries, paces | poll, fill, PUT, DELETE, acknowledge, admit, prune | overlapping polls from stale copies, one round by two paths, pruning between inserts |
| mail (`src/mail`, `system-hub/src/mail_intake`) | batch, outbox, Maildir, receipts | gather, close, send, scan, ingest, mark overdue | lost, duplicated and reordered mail, crashes between commit and deletion |
| dashboard feed (`system-hub/src/routes/sse.rs`) | the watched summary, subscribers | build, publish, subscribe | reads between writers, failed builds, nobody watching |
| agent: collector and alerts (`src/{alerts,snapshot}.rs`, `src/collectors`) | sampler, groups' lineage, rules, incidents | tick, read, rebuild, evaluate, replace rules | hanging and panicking reads, carried values, a stepping clock |
| agent: readers (`src/push`, `src/routes`) | published snapshot and round, connections, streams | handshake, pump, stream | a collector that hangs, a hub that hangs up |
| agent: applications (`src/applications`) | histories of counters | scrape, fold, publish | restarts and failures between and within scrapes |
| agent: start, id, environment (`src/main.rs`, `src/push/identity.rs`, `src/environment`) | configuration, id file, cgroup readings | parse, link, classify, read | refusals half way, agents sharing a file, power loss, unreadable files |

What must hold of each:

- **writer**: the points after any crash are exactly those of the last commit that landed; no
  point in two places; no id shared; no chunk row replaced; hub time never behind a point.
- **handoff and retention**: a span's data is in `chunks` or in a named, durable file, never
  both nor neither; only dead data goes; an open after any crash starts the store; a closed
  span eventually leaves redb.
- **queries**: what is live and committed throughout is answered.
- **lifecycle**: an answer is true and stays true. Ok to a write means committed and given to the
  hook, a failure is latched before it is reported, a clean stop is never called a failure, a
  refused transaction is in no commit, and every call returns.
- **presence**: the system of the connection that delivers reads online with live metrics, no
  matter which other connections end; live metrics never outlive their row; a system nobody
  delivers for stops reading online even after a panic, a failed write or a restart.
- **registry and rounds**: no poll, fill or PUT that holds an old row brings it back; status and
  capacity follow the agent in the end; a round is stored once whatever path it takes, within its
  source's pace, and the newest one is shown.
- **mail**: every closed report waits, was sent or was counted as dropped; the hub takes only what
  the agent sealed, stores it once, never goes back, and notices a system that fell silent.
- **collector and alerts**: an incident has one id, starts and ends on measured values only, and no
  sooner or later than its rule says, whatever the clock does.
- **readers and feed**: nobody is shown an old state as a new one, or waits for ever for a new one.
- **formats**: what is written reads back exactly, and damage or another's data is refused.

## 2. Modules

| module | models | built on |
|---|---|---|
| `DurableSet` | the abstract promise: accept, commit all, lose the uncommitted | |
| `StoreLog` | the writer, log, tails, chunks, open and replay; its inductive invariant | refines `DurableSet` |
| `StoreLogProofs` | the proofs: types, ids, series, log and refinement | `StoreLog` |
| `SpanHandoff` | writer, block writer, directory, retention pass, reconciliation | |
| `SpanHandoffProofs` | its inductive invariant, proved | `SpanHandoff` |
| `SpanQueries` | one query beside all of `SpanHandoff` | `SpanHandoff` |
| `SpanQueriesProofs` | a query's completeness, proved | `SpanQueries`, `SpanHandoffProofs` |
| `StoreLifecycle` | callers, request queue, settling, group commit, hook, close, drop, panics | |
| `StoreLifecycleProofs` | its inductive invariant, proved | `StoreLifecycle` |
| `PushPresence` | one system's row and live metrics, its push connections, sweep, poller, PUT, DELETE, restart | |
| `PushPresenceProofs` | its inductive invariant, proved | `PushPresence` |
| `AgentCollector` | the collector's ticks, samplers, groups and alert rules | |
| `MailClient`, `MailReport`, `MailIntake` | the agent's two mail tasks; one report from batch to hub; the hub's Maildir, receipts and sweep | |
| `MailIntakeProofs` | the intake's inductive invariant, proved | `MailIntake` |
| `AgentReaders` | push client, live stream, histories of what the collector and the scrape loop publish | |
| `PushIdentity` | the id file, shared by agents that crash | |
| `AgentProofs` | the inductive invariants of those parts of the agent, proved | `AgentCollector`, `AgentReaders`, `MailClient`, `PushIdentity` |
| `AppScrape`, `ScrapeWire` | scrape rounds and rates; a round over both wires, and how fresh it is shown | |
| `AgentStartup`, `HubStart` | the two starts, their configurations and refusals | |
| `AgentEnvironment` | evidence, classification, cgroup levels, CPU, memory and swap groups | |
| `HubRegistry` | one row and its alert records against everyone who writes them | |
| `PushSession` | the hub's push sockets under their deadlines | |
| `RoundIntake` | admission of rounds from connections and polls | `TokenBucket` |
| `TokenBucket`, `BucketRate` | the bucket as a value; one source behind it | |
| `SnapshotRule` | a reading through either edge into the live entry and the row | |
| `FleetHistory` | the metrics table: inserts, pruning, queries | |
| `SummaryFeed` | the dashboard's summary and its subscribers | |
| `HubProofs` | the inductive invariants of those parts of the hub, proved | `HubRegistry`, `PushSession`, `SummaryFeed`, `BucketRate`, `RoundIntake`, `FleetHistory` |
| `SeriesTiers`, `ChunkCodec`, `BlockFile`, `StoreRecords` | a series in three tiers; chunk bytes; block files; keys, records, names | |
| `RetentionPlan` | periods, overrides, the retention clock, the plan and the cap | |
| `HubCalendar` | `unix_to_iso8601` against a calendar | |
| `MCAgent`, `MCHub`, `MCRules` | those modules side by side, with constants | |
| the other `MC*` | constants for TLC | |

Definitions marked `mutant` are plausible mistakes in the definition that follows them; no
specification uses them. Each shows that a property can tell the code from that mistake.

### StoreLog

Variables with a `d` prefix are the redb tables as of the last commit; the others are the
process. `Append` is `Core::append_points` for one point: hub time is issued, the series is
activated (interned if new, refused at the id cap), the point is rejected unless it is after the
series' last, and otherwise pushed, sealing the chunk it fills or leaves. `CommitInterval` is
`Writer::commit` whole: `write_interval` (the log entry at this sequence, the sealed chunks, the
due tails, new series' records, the meta rows, the deletion of the log before `logBound`) and
`after_commit` (the rotation moves on or ends). `CommitFails` is a commit that reports an error:
the transaction landed or did not, and the store fails stop either way. `Open`, `ReplayPoint` and
`Opened` are `open()`: tails loaded, the log replayed in commit order point by point, the head
swept, a rotation started. A crash may come between any two steps.

One tier is modelled: the rollup tiers have the same life with other lengths. The points' values
are left out: what is lost or doubled is told by series and time.

### SpanHandoff

Time is counted in spans. `txn` is the interval's open write transaction: messages handled
before a commit change it, and the commit writes it. The retention pass runs inside commits,
`Batch` entries at a time (`PassStep`); the block writer reads (`ReadSpan`) and writes
(`WriteSpan`) in separate steps, so every step of the writer comes in between. `Open` reconciles
files with rows and refuses to start when no rule explains a file. Rewrites of block files are
in the RFC but no code path of this commit starts one, so they are not modelled.

`Redundant` uses the head at the last commit (tails and log) where the code reads tails only; a
span with logged points is not closed by the persisted clock, so they agree where it matters, and
the model's is the stronger demand.

### SpanQueries

`View` (the head copy under the shard lock), `BeginRead` (one redb snapshot), `ReadSummary` and
`ReadSeries` (the file) are separate steps with the store's between them.

### StoreLifecycle

A caller makes one call of a kind chosen at the start, and what it writes is itself: `pend` is
the open transaction and the interval, `dur` what commits have landed, `hooked` what the commit
hook was given. `Begin`, `Check`, `Send`, `WriterGone`, `TakeThreads` and `Joined` are
`Store::ask` and `Store::close` on the caller's thread, with the writer's steps between them: the
lifecycle can change between the check and the send, and between a dropped reply and its reading.
`Handle` is one request run in the open transaction and settled (`catalog.rs`, `settle`): at once,
with the next commit, or as a failure. The writer goes `idle` → `settled` or `forced` (a commit
must follow) → `landed` (`try_commit` returned, `after_commit` still to run) → `idle`; a failure
leads to `ending`, a panic to `unwinding` first, because the panicking request's own reply is
dropped before `FailOnPanic` marks the store. `End` drops the inbox and every reply left.

A hook is taken to be installed. Left out: a panic after a close has marked the store closed, and
`query`, `stats` and `read_catalog`, which do not go through the writer. The block writer's
messages appear as a `Tick` that may fail the store; what they do is `SpanHandoff`'s.

### PushPresence

Systems share only the counter of connection numbers, so one is modelled. A connection is its
number; a reconnect is another member of `Conns`. `Claim` and `Store` are the two halves of
`ingest_frame`: the claim takes and releases the presence lock, the store runs later under the
database mutex, which makes the row and the live metrics one step. `EndCurrent` and `Evict` are
`end_connection`, whose lock is held across both (`locked`). `SweepReads` and `SweepRow` are a
pass of the sweep: statuses are read before the lock is taken, so `sweeping` may be stale; a pass
begun in the reconnect grace (`"early"`) forgets dead entries but writes no row. `PollTick` and
`PollEnds` are the collector's read of the registry and a poll's outcome, `Put`, `DeleteRow` and
`DeleteEvicts` the operator's requests, and `Restart` the loss of memory with `reset_push_status`.

`stored` is history: the connections whose last snapshot is what the row shows. A failed poll
and a DELETE clear it. The second matters: an eviction that comes after the id has registered
again removes the new row's live metrics until its next snapshot. Left out: the wrap of connection
numbers, a poisoned database mutex, ids refused for their text, disabled systems, and what mail
does to a mail system's row (push only refuses it).

### The agent

`AgentCollector`: one unit of time is the priming interval. `ReadBegin` and `ReadEnd` are a
collector tick around the blocking read, `ReadPanics` and `RebuildSampler` what follows a panic;
`ReadEnd` is whole: the groups' sourcing, `alert_readings`, `evaluate` and the publication.
`ClockStep` moves the wall clock both ways, `ReplaceRules` is the route that posts rules. A value
is a level that thresholds are compared with.

`MailClient`: `Gather` is one turn of the gathering task (offer, note, due, close); `Receive`,
`SendBegin` and `SendEnd` the delivery task. `MailReport` follows one report's content: sizes are
cut, samples and alerts bounded, then sealed, armoured, garbled by the mail or not, found, opened
and parsed. The cipher is external: a ciphertext opens under the key, nonce and associated data it
was made with, and nothing else.

`AgentReaders`: a send to a socket does not block; the hub may refuse, answer anything or hang up
at any moment. `PushIdentity`: each file operation is a step; a power loss may undo the link whose
directory was not synced, and empties a temporary that was not. `AppScrape`: a scrape is its health
request and then the endpoints, each answered or lost at a moment of its own, and is stamped at its
finish; in between the applications serve others, restart, and count requests the agent gave up on.
A rate is kept as what it divides. `AgentStartup`: `start()` and `run()` in order, every value a class of its texts.
`AgentEnvironment`: files of each cgroup level are readable, unreadable, malformed or absent; the
cgroup may be recreated and limits changed between readings.

### The hub

`HubRegistry`: every database call is a step of its own, and a poll works from the row its tick
read. A push connection may be open under the polled system's id: each snapshot it stores marks the
row online, and the end of a leased one marks it offline. There is one; several are
`PushPresence`'s. `PushSession`: a deadline is a countdown; one that has run out may still lose to a
message, as the receive is polled first, and a send is delivered or not. Under open sockets the
row is deleted, moved by a PUT of its url, and registered by mail (`RowDeleted`, `RowMoved`,
`MailRegisters`). `RoundIntake`: `StorePushed` and `StorePolled` are the one step
under the database mutex; `RemoveSystem` and `RemoveApplications` are the two steps of DELETE.
`SummaryFeed`: the registry and the live metrics are versions, and a build reads them apart. `MailIntake`: one system id;
`Store` is `store_mail_report`'s transaction whole, `AfterNewest` the live metrics and the registry
fill that follow the commit, `DeleteMessage` the file. A report delivered twice, late or never, a
file that cannot be read or removed, DELETE, an operator's acknowledgement, a push registration of
the same id and a crash come between any two.

`SnapshotRule`, `ScrapeWire`, `FleetHistory`, `BucketRate`, `HubStart` and
`HubCalendar` are rules with a short run around them: their inputs are enumerated from classes
chosen so that every branch is taken. The freshness half of `ScrapeWire` has the agent's scrape loop,
which sleeps a full interval after each publication, and the hub's polls, which take time and may fail.

### The store's formats

`SeriesTiers` has the raw, minute and hour tiers with lengths scaled down. `ChunkCodec` has words
of five bits and varint bytes of three, so that each code's last value, first value and wrap are
met. In `BlockFile` a CRC is the content it covers. `RetentionPlan` follows the store's interface:
overrides, tombstones and the cap have no caller in this repository yet. `HubCalendar` and
`ChunkCodec` are recursive as the code is iterative, so nothing is proved of them.

## 3. Runs

| run | instance | states | shows |
|---|---|---|---|
| `store_log` | 2 keys, 3 ids (one never given), spans of 2 s, chunks of 1 point, 3 s, 4 commits | 121 634 | `StoreSafe`: types, ids, clock, log order, one place per point, chunk keys given once; `KeepsPromise`: `StoreLog` implements `DurableSet` |
| `span_handoff` | 3 spans, 2 series with different periods, one entry per pass step, 1 failure | 273 971 | `OnePlace`: data is in redb or in a file; `SpansTracked`: one handoff of a span at a time, every row's file is known, every span with chunks stays listed; `RemovalsSound`: only the dead go, no named file is unlinked |
| `span_reopen` | 1 series, scans in one step, a backlog of 1, 1 failure, fairness | 15 245 | `OpenNeverRefused`; `SpansDrain`: closed spans leave redb, unlink entries clear |
| `span_queries` | 1 series, 1 query | 229 564 | `QueriesSound`: a query misses nothing, and with its installs every row's file stays known |
| `store_lifecycle` | 2 calls of any kinds, a queue of 1, 1 failure, fairness | 30 810 | `AnswersTrue`: every answer is true and stays true; `CallsReturn`: every call returns and a failed store's writer ends |
| `push_presence` | 2 connections, 1 poll and 1 delete at a time, 1 failure, fairness | 319 016 | `PresenceSound`: the current connection's system reads online, live metrics have a row; `OnlySnapshotsMoveCurrency`; `StatusSettles`: stale rows end, delivering systems settle online |
| `mail_intake` | 2 reports and an unreadable message, 3 deliveries, 2 operator requests, 1 fault, fairness | 502 027 | `MailStoredOnce`; `MailNeverRewinds`: no late report and no sweep overrides a newer one; `MailSettles`: messages handled, silence noticed |
| `agent` | `MCAgent`: collector and 2 rule sets under a stepping clock, readers over 2 connections, mail client, id file of 2 agents, start, scrape loop, environment | 1 115 238 | `AlertsSound`, `AlertsEarned`: rules fire in time, no sooner, and with a reading behind them; `ReadersServed`: snapshots sent once, rounds in order, a stale agent goes offline; `ReportsSound`: no incident and no report is lost unseen; `IdentityKept`: one id per file over crashes; `StartSound`: a refused start leaves nothing; `RatesSound`: the others' requests between two reads, and no rate across a restart; `ReadingsSound`: the tightest capacity, measured shares |
| `hub` | `MCHub`: registry with 2 polls, 2 sockets, 2 dashboards, fairness | 405 560 | `RegistryKeeps`, `RegistryFollows`: rows, capacities and statuses; `SocketsSafe`, `SilentLetGo`; `FeedNeverGoesBack`, `DashboardsConverge` |
| `rules` | `MCRules`: rounds of 1 connection and 2 polls, bucket, wires, freshness, snapshot rule, history table, start, mail report, tiers, codec, block files, records, retention, calendar | 492 767 | `RoundsOnce`: a round is stored and shown once; `RateExact`: neither past the rate nor starved; `RoundsRead`: a round means one thing on every path, and is shown fresh while scrapes and polls are quick; `SnapshotsKept`; `HistoryKept`: pruning takes the expired and nothing else; `StartsClean`; `ReportsAuthentic`: a report reads back, and only the agent's own; `SeriesWhole`: a series is whole in its tiers and reopens; `FormatsExact`: what is written reads back or is refused; `RetentionSound`: nothing readable is retired |
| `span_batches`, `mail_backoff` | | | the findings of section 6 |

A property of a run is the conjunction of the promises one component makes; each promise is a
definition of its own with its own comment, just above it. A promise about a step (what may
never change back) is an action, and the property boxes it together with the component's
invariants after the step. Where a promise spans modules (`RoundsRead`, `FormatsExact`), the
conjunction is in `MCRules`.

`MCAgent`, `MCHub` and `MCRules` put modules side by side that share no variable: a `part` chosen
at the start is the one whose actions run, and the others keep an initial state, so a run explores
the sum of the parts' states and not their product. The parts that do interact (presence and
sweep, polls and registry, handoff and queries, both mail tasks) are one module each.

Why the bounds are enough: four commits are what a rotation needs to start, end, free the log
and be crossed by a crash; three seconds and spans of two give a new span and a full chunk; three
spans give one open, one closed and one expired; two series with different periods give a span
dead in part. Two calls and a queue of one give a call behind a close, a call behind a failure, a
read above another's write and a sender that waits; two connections give a replaced and a
replacing one. Three ticks past a rule's duration, two panics and a rule replacement meet every order of breach, carry
and rebuild. Two reports of which the first is stale before the last is stored give a late, a
duplicate, a refused and a newest one. Every named bound (`MaxTime`, `MaxCommits`, `MaxNow`, `MaxFaults`, `MaxPolls`,
`MaxDeletes`) only stops the enumeration; the proofs hold for every value of the ones their
modules have, and for any number of keys, callers and connections.

`MCStoreLog` uses symmetry over the keys; no property names a key. Deadlock is not checked in
`span_handoff` and `span_batches`, where an open may be refused and nothing runs after it, nor in
`store_lifecycle`, where the calls may all be over and the writer gone, nor where a bound on time
or inputs ends the run (`mail_intake`, `hub`, `agent` and `rules`). `MCRules` uses symmetry over polls
and rounds, which no property names.

## 4. Fairness

`FairSpec` assumes weak fairness of the writer's sweep, commit and message handling, which one
loop with a timeout performs in turn (`Writer::run`), and of the block writer's steps, which its
loop performs while its queue is not empty (`handoff::run`). Nothing is assumed of appends, of the
clock, of passes beginning, or of failures, which `MaxFaults` bounds. The liveness properties
are for a store that stays up: `<>[](status = "running")`.

`StoreLifecycle!FairSpec`: the writer's loop runs (weak fairness of its steps), its commit
interval elapses however busy the inbox is (strong fairness of `CommitLands`: the deadline is
checked after every message), the channel is served in order and wakes those who wait to send
(strong fairness of `Send` and of handling), and a caller's thread goes on. Nobody is made to
begin a call or to drop the store.

`PushPresence!FairSpec`: the grace ends, the sweep's task ticks for the hub's life, and blocking
work, connection ends and requests that have begun finish. No agent is made to connect, to send
or to hang up; `DeliveringReadsOnline` (in `StatusSettles`) takes an agent that keeps sending as its hypothesis.

`MailIntake!IntakeFairness`: the scan's and the sweep's tasks run on their timers. No mail is made
to arrive, and the clock is not made to move. `MCHub`: the poller ticks, requests have timeouts,
handlers that began finish; time passes for the sockets and what is ready runs; the publisher
ticks and a polled stream yields. No push connection is made to end, so the offline half of
`StatusFollows` takes as its hypothesis that none is open from some time on; and as `MaxEdits` bounds
the connections, it says nothing of clients that come and go for ever. No client, operator or agent is made to do anything. The agent's
time properties (`FiresInTime`, `StaleGoesOffline`, `StreamNeverMisleads`, `RoundsSpaced`) are
bounds in ticks, and need no fairness.

## 5. Proofs

`Spec => KeepsPromise` (`StoreKeepsPromise`) is proved for every set of keys, id cap, span,
grace and chunk length, time bound and commit bound, from `ConstAssumption` only. The other
theorems listed in `PROJECT.json` come on the way. The argument:

1. **Types** (`TypeCorrect`).
2. **Ids** (`IdsInv`). The head agrees with the tables, and an id the tables do not have is in
   `fresh` and `touched`. Hence a commit interns every key of the head (`CommitInterns`), and no
   tail or log entry ever names an id that is not interned.
3. **Series** (`SeriesInv`). Every chunk's key and points are behind the state of its series:
   committed chunks behind the tail, all chunks behind the head. A push and a seal keep that
   (`PushFits`, `SealFits`), and a new chunk's key differs from all behind it (`NewKey`), so a
   commit only ever adds rows. A series that is neither dirty nor touched has its head in its tail.
4. **Log** (`LogInv`). While the store runs, memory is disk plus the interval's points; while it
   opens, memory plus what is left to replay is disk. The step that needs care is the rotation:
   an entry before `rotSeq` whose series is not in `rotTodo` is at or before that series' tail,
   so when the rotation ends every entry before `rotSeq` is, and a logged point at or before a
   tail is in that tail or in a chunk. Skipping a point on replay is safe for the same reason.

`KeepsPromise` is not inductive by itself because it says nothing of the rotation, of dirty
series or of chunk keys. `StoreAlwaysSafe` gathers what the layers say of the state, and is what
`store_log` checks on its instance.

**StoreLifecycle** (`LifecycleHolds`, and from it `AnswersAlwaysTrue` with its parts
`OkAlwaysDurable`, `ReadsAlwaysCommitted`, `StopsNeverConfused`, `CloseAlwaysFlushes`,
`RefusedAlwaysOut`), for any callers, kinds, queue
length and number of failures, from `LifecycleAssumption`. The properties need four facts beside
them. `QueuedOnce`: a request is in the queue once, so receiving one takes it out (`ReceiveTakes`).
`HeldInv`: each reply the writer owes is in the queue, among the waiters or the closer's, in one
of them only, and unanswered. `StageInv`: what the writer may find of the lifecycle where it
stands. A caller whose reply was dropped may latch a failure, but only when the writer is past
every commit, and a closed store's writer has only to end; without this a commit could follow a
reported failure. `WrittenInv`: where a call's write is, from nowhere to pending to committed, and
that a clean `dirty` means no catalog write lies beneath a read.

**PushPresence** (`PresenceHolds`, and from it `PresenceAlwaysSound` with its parts
`CurrentAlwaysReadsOnline` and `LiveAlwaysHasRow`; `CurrencyMovesBySnapshots`), for any connections and bounds, from `PresenceAssumption`.
`LockInv` says that whoever evicts holds the presence lock and that nobody is current meanwhile:
without it a claim could come between an end and its eviction, and the eviction would take away
the newcomer's live metrics. `StoredInv` ties the history variable to a row and to a finished
store.

**SpanHandoff** (`HandoffInvariant`, and from it `OnePlaceHolds`, `SpansTrackedHolds` and
`RemovalsSoundHolds`), for any number of series and spans, any retention periods, batch, backlog
and number of failures, with unlinks that may come back, from `HandoffAssumption` (a period is a
span or more, as `min_retention_secs` makes it). None of the three is inductive, because each
says where data is and not why it will stay there. `HandoffInv` adds, for every place that takes
part:

- `SettledInv`: a span with a row, or whose row was retired, is closed and nothing of it is in a
  table, in the head or in a list, so no data ever joins it again. This is what makes a row final.
- `PlacesInv` and `FlightInv`: a span in flight is in one place: a job, the block writer's hands, a
  message, or landed in the open transaction. It is listed and closed, and the head holds none of
  it. Without that a span could be handed over twice, or chunks be sealed into it after it was read.
- `HeldInv`: what the block writer read is still what `chunks` holds of the span when its message
  is handled, because the pass spares a span in flight.
- `TxnInv`, `HeadInv`, `FilesInv`, `PassInv`: the open transaction is the committed tables but for
  what landed; the head covers what it held at the commit; a committed row's file is there; the
  files the pass is about to retire are dead.

That every row's file is known (`RowsKnown`, part of `SpansTracked`) is a lemma of its own
(`KnownStep`), which `HandoffInv` does not use. It is one-sided: a query can put back an entry that a
retirement evicted, so the known files are not the rows (section 6). With the queries' installs it is
proved again (`QueryKnows`), as part of `QueriesSound`.

`OpenNeverRefusedHolds` has the hypothesis `WholeScans`: a scan ends in the commit that began it,
and an unlink survives a power loss. Neither can be dropped: `span_batches` refutes the property
without the first, and the first of the divergences below without the second. `ReopenInv` is the strengthening:
every file has a row, waits to be unlinked, or is of a span in flight that still has chunks.

**SpanQueries** (`QueryAlwaysComplete`, which states `QueriesSound`). A query's steps are followed through the store's:
what its copy of the head lacks has left the head for good (`LeftHead`, which needs `ClosedInv`:
only closed spans have chunks, and no unit is ahead of the clock); so it is in `chunks` or in the
file of a row when the transaction begins; and a row's span is settled, so the file holds the unit
until the retention unlinks it, which is then answered as `Corrupt` and never as an absence.

**MailIntake** (`IntakeInvariant`, and from it `MailStoredOnceHolds` and `NeverRewindsHolds`), for
any reports, window, slack and bounds, from `MailIntakeAssumption`, which says that a run numbers
its reports. The core is `AcceptedInv`: a stored report has its receipt, or it was pruned, and then
the report is behind the window of the running scan's clock reading and of every later one. A scan
reads the clock once and the prune uses the same reading, so a report that passes for fresh and has
no receipt was never stored. `StoredOnce` alone says nothing of the prune or of a scan that has read
its clock already. `RegisteredInv` (only a mail row has current receipts, as DELETE retires them in the
transaction that takes the row) and `NewestInv` (the current receipts have a newest one, which the
prune keeps) carry `LastSeenIsNewest` through a late report, and `LiveInv` ties the live metrics to
last seen, so that the newest report never moves them back.

`MailNeverRewindsHolds` adds the sweep, under `SteadyIntervals`: reports of one creation second have
one interval. `mark_overdue` compares the newest creation time only, so a DELETE and a registration by a
report of the same second with a longer interval, both between the sweep's reading and its mark, pass
for the receipt it read. An instance with two such reports violates `SweepNeverOverrides`; an
agent makes two such reports only by a restart with another interval within one second.

**PushIdentity** (`IdentityAlwaysKept`), for any agents, ids, starts and power losses, from
`IdentityAssumption`. `OneIdPerFile` says nothing of an agent that has linked its file and not
settled, nor of one that is about to link. `IdentityInv` adds what an agent holds at each step of its
start: an id while it writes, a flushed temporary file before the link, and the id in the file from
the link on. So a link, which finds the file missing, finds no agent linked or running; and a file in
place has its content on the disk (`FileOK`), so a power loss leaves it or takes it whole.

**BucketRate** (`RateAlwaysExact`), for any capacity that is not zero, any period, and messages at
any times, from `BucketAssumption`. `RateExact` speaks of the messages taken and not of the bucket.
`Regained(i)` counts the tokens a bucket full before its i-th take has been given since. `RateInv`:
they took their periods of the refill clock, from whichever take they are counted, which bounds
every window. `TightInv`: while a token is missing they took exactly that for some take, the one
from the last full bucket, which is why a refusal is earned. Both need the remainder of a period to stay in
the refill clock, and the clock of a full bucket to restart.

**RoundIntake** (`RoundsAlwaysOnce`), for any sources, rounds, ring, paces and budgets, from
`RoundAssumption`. `RoundsOnce` looks back over the whole history, of which the code keeps a ring and
two buckets. `RecentInv`: the ring is the last `RECENT_ROUNDS` rounds stored since the entry was made,
in order, so a round that is not in it was not stored among them. `PaceInv`: the points a source was
charged since any of them fit the time its pace has had, less what the bucket still holds
(`TakeCounts`, the lemma `BucketRate` uses too). The first attempt failed on `SourcesPaced`, which
had been stated for all pairs of points and is false where the first is the later; it now says `i <= j`.

**HubRegistry** (`RegistryAlwaysKeeps`), for any number of polls, edits and failures. `RegInv` is the
types, the agent's among them, and that no alert record is without its row. A poll under way holds a copy
of a row that may since have been edited or deleted; what makes that harmless is `RowWrites`: every
statement of a poll, a push or a fill writes fields of a row that exists, and never makes one.

**PushSession** (`SocketsAlwaysSafe`), for any sockets and timeouts, from `SessionAssumption`. `SessInv`
adds what a socket has at each stage (`Sound`): no answer before one is given, and none but `auth_ok`
once it receives; the token, for whoever got past it; a lease only with `auth_ok`; and while it lingers, the time held and the time left, which add up to the whole linger.
`OnlyOutlivedFeedMail` goes through because a socket is let in to a push or a polled row only
(`AdmittedTo`), and a DELETE or a PUT puts everyone who is in among the outlived.

**SummaryFeed** (`FeedGoesForward`), for any subscribers, changes and failures, from `FeedAssumption`.
`FeedInv`: what a build has read and what was last built is in the past of the registry and of the live
metrics, and what a subscriber last got is not after the summary nor after the one being built.

**FleetHistory** (`HistoryAlwaysKept`), for any retentions, batches, queries and bounds, from
`HistoryAssumption`. `PassInv`: what a pass is through with stays done, whatever is stored between its
batches, because a new point is not past the pass's cutoff. What a step takes out of the table is past
its own retention and, of the snapshot's rows, the oldest (`Takes`); that alone keeps `FreshRowsKept` and
`SnapshotHistoryWhole` (`TakenOut`). A query is answered from the rows in time order, which exists
because ids are a row's own: each row's place is the number of rows not after it (`OrderedExists`), and
reversed, cut and reversed again it is a stretch (`LastRows`).

**AgentCollector** (`AlertsAlwaysSound`, `AlertsAlwaysEarned`), for any groups, rules, levels, clock
steps, panics and replacements, from `CollectorAssumption`. The rules keep times of the system clock,
which steps; the properties speak of monotonic time. `OnClock` relates them: on the clock a moment was
seen on, a rule's `since` and last notification are where the monotonic clock says. It is kept for two
clocks at once, the one now and the one the running read began on, because a step may come while the
read runs; a moment of a clock that was left says nothing any more (`LaterMoments`). An id is minted
past all earlier ones: the ids of a tick are counted off by a cardinality (`MintedIds`), and their
greatest exists because the rules are finitely many (`GreatestNatural`). `PublishedInv` carries
a group's lineage and what a rule is shown.

**AgentReaders** (`ReadersAlwaysServed`), for any intervals, rings and bounds, from `ReadersAssumption`.
What was sent is a history without bound; `FramesInv` bounds it by the cursors, and says that a
connection in its handshake has no frame yet, so the round it repeats is its first. `RingInv`: the rings
have no gap. `TickInv`: a tick still to come was set on a snapshot fresh at the time. `StreamInv`: what
the stream said was right at its last tick, and the next one is not overdue. Every step falls under one
of three (`Quiet`, `SendsSnapshot`, `SendsRound`), and the sequences are argued on once for each.

**MailClient** (`ReportsAlwaysSound`), for any interval, spacing, caps, incidents and outcomes of the
relay, from `MailClientAssumption`. `BatchInv` ties the samples kept to the next scheduled report, so
that whichever tick closes the batch, the report's window holds them (`ReportsFit`). `AccountInv`: every
number given out is in one place, and what waits, what the relay took and what was lost are in order;
`CountInv` counts the lost ones. `NoteAlerts` walks over the incidents by a recursive function:
that it exists and what it returns is proved by induction on the walk (`WalkExists`, `NotedWalks`), and
that a list of different incidents has room for one more, when they are no more than the cap, by an
injection (`RoomLeft`).

Induction over the naturals is to be had here in one form: the library's theorems take an operator, but
a set of naturals that is not empty has a least member (`LeastNatural`, from `NatLessThanWellFounded` and
`WFMin`), and `SetInduction` follows from it.

Every inductive invariant was checked by TLC on the instance of its module's run before it was
proved.

Only model-checked: `AppScrape`, `AgentStartup`, `AgentEnvironment` and every module of the `rules` run
but `BucketRate`, `RoundIntake` and `FleetHistory`. `AgentStartup` and the store's formats compute by folds
and recursion over their data; `AppScrape` and `AgentEnvironment` were not attempted; the others compare a rule with a reference definition over inputs that the
run enumerates. Also `SentWhenBackoffAllows` and `OpenNeverRefused`
of several commits, which the code does not keep, and every liveness property, which is out of this
prover's reach.

## 6. Findings

- **A scan of several commits can make an open fail** (`span_batches`). `Retention::scan`
  returns `Scan::More` before `forget_emptied`, so a span already due whose last chunk the batch
  deleted is handed over all the same: an empty block file is written. A crash before its row
  commits leaves a file that no rule explains. RFC 0010 says the file is deleted at open.
- **A report handed over restarts the mail backoff** (`mail_backoff`). The delivery task's `select!`
  makes a new `sleep(wait)` each turn, so each report it receives starts the wait again: with a
  backoff near the mail interval the front is not sent when the backoff allows, and while reports
  keep coming it may not be sent at all.

### Known divergences

Met while modelling, and not held by a run of their own:

- **An unlink is not synced** (`block/file.rs:145`). Its `pending_unlinks` entry is removed in a
  durable commit while the directory is not; after a power loss the file may be back, with neither
  row nor entry, and the open is refused. `UnlinkReturns = TRUE` in `MCSpanReopen.cfg` shows it as a
  violation of `OpenNeverRefused`.
- **A query does not retry** (`store/query.rs:227`) when a retirement unlinks its file; RFC 0010 §11
  says it does. It answers `Corrupt`. `QueryNeverCorrupt` in `MCSpanQueries.cfg` shows it.
- **A query can put back an evicted entry** (`store/blocks.rs:155`), so the known files, which the
  stats count, are not "one entry per committed `blocks` row" (`store/blocks.rs:64`).
  `OneEntryPerRow` in `MCSpanQueries.cfg` shows it; what does hold is `RowsKnown`.
- **A push connection can feed a mail system's row**. The registration refuses a mail row, but a
  connection that is open already stores whatever row its id has (`db/history.rs:102` asks only that
  there is one): after a DELETE and a mail registration, or a PUT of a `mail://` url, its snapshots go to
  the mail system. RFC 0017 says both that a push connection can never feed a mail row (lines 289-291)
  and that a holder of the push token still can (511-513). `OnlyOutlivedFeedMail` says what holds.

Differences between RFC and code that change no property: the backlog counts spans whose attempt
failed, not all that wait; a handoff writes all chunks of its span, not only live ones.

## 7. Not modelled

- Pages, JSON layout, static files, wording and logging.
- The store's full widths and CRC collisions (the repository's property tests cover the codec at
  full width); the rewrite of a block file, which the plan asks for and no code does yet; the
  capacity plan's free-space floor; schema migrations.
- Of the environment: escapes in mountinfo, disks, networks, the process list, display texts.
- Of a mail report: lengths of names, the number of disks, and so `TooLarge`, also of an armoured text;
  `TimeOutOfRange`, `NotAReport`, and the nonce's length and the text's encoding; a wall clock that steps
  forward within a batch.
- Of a scrape: the meters other than the requests, the server errors and the uptime.
- A removal of a partial or linked block file that itself fails (`block/file.rs:137-139`, best effort).
- Steps that are one here and two in the code, with nothing of their own between them: the registry and
  the alert count of a dashboard build (they fail separately), and `record` and `send_replace` of a
  collector's tick. A poll that outlasts the next tick is in `HubRegistry` and not in the freshness rule.
- `FleetHistory` drops a delayed point that has already expired; the code inserts it and the next
  pruning takes it.
- Agents whose clock is far ahead (they prune their own history, as ARCHITECTURE.md says), and a
  hub clock that steps back past the receipts' window.
- A send that blocks for ever at the agent, and a Maildir with a whole scan's worth of files that
  can be neither read nor removed.

`PROJECT.json` names what each component leaves out.

## 8. Plan

Done: models of the components but the pages, less what section 7 and `PROJECT.json` say each leaves
out; the proofs of `StoreLog`'s refinement, and of the
safety of `StoreLifecycle`, `PushPresence`, `SpanHandoff`, `SpanQueries`, `MailIntake`, `HubRegistry`,
`PushSession`, `SummaryFeed`, `BucketRate`, `RoundIntake`, `FleetHistory`, `AgentCollector`, `AgentReaders`,
`MailClient` and `PushIdentity`.

Left, for the proofs: the rounds of `AppScrape`, `ReadingsSound` of `AgentEnvironment`, and `StartSound` of
`AgentStartup` once its fold is a recursive function as `MailClient`'s walk is.
