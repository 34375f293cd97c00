----------------------------- MODULE SpanHandoff -----------------------------
(***************************************************************************)
(* The span handoff and the retention pass of the hub store (RFC 0010 §5,  *)
(* §6): closed spans move from redb's `chunks` to block files written by   *)
(* the block writer thread, expired chunks and files go, and an open       *)
(* reconciles the files with the tables after a crash at any step.         *)
(*                                                                         *)
(* Time is counted in spans of the one tier modelled: span s is written    *)
(* while hub time is s and is closed once hub time is past it.  A series'  *)
(* data in a span is one unit, <<s, x>>, open in the head, sealed, in      *)
(* `chunks`, or in a file.  StoreLog is the account of how the head itself *)
(* survives; here the head at the last commit is `db.open`.                *)
(***************************************************************************)
EXTENDS Integers, Sequences, FiniteSets, FiniteSetsExt

CONSTANTS MaxNow,       \* bound: hub time, in spans
          NSeries,      \* the number of series
          Period,       \* each series' retention period, in spans
          Batch,        \* BATCH: entries one step of a pass may visit
          BacklogBound, \* BACKLOG_BOUND
          MaxFaults,    \* bound: failed block writes and unlinks
          UnlinkReturns,\* whether a power loss may undo an unlink not yet synced
          NoRow, NoFile

Series == 0..NSeries - 1
Spans == 0..MaxNow
Times == 0..MaxNow

ASSUME HandoffAssumption ==
    /\ MaxNow \in Nat /\ NSeries \in Nat \ {0} /\ Batch \in Nat \ {0}
    /\ BacklogBound \in Nat /\ MaxFaults \in Nat /\ UnlinkReturns \in BOOLEAN
    /\ Period \in [Series -> Nat \ {0}]   \* min_retention_secs is a span or more
    /\ \A held \in SUBSET Series : held # NoRow /\ held # NoFile

VARIABLES
    db,       \* hub.redb as committed
    files,    \* the block file of each span: the series in it, or NoFile
    unsynced, \* unlinks the directory's metadata may not hold yet
    faults,   \* failures so far (MaxFaults)
    status,
    txn,      \* the interval's write transaction, as its own reads see it
    now, ret, \* hub time and the retention clock, in memory
    open, sealed,                     \* the head
    waiting, inFlight, failed, due,   \* Handoffs
    landed,   \* Writer.landed
    stage,    \* Retention.stage
    known,    \* Blocks.known: the entry of each span, if it has one
    jobs,     \* the block writer's queue
    bw,       \* the block writer: the span it has read, and its chunks
    inbox     \* its messages the writer has not handled

head == <<now, ret, open, sealed>>
handoffs == <<waiting, inFlight, failed, due>>
threads == <<jobs, bw, inbox>>
vars == <<db, files, unsynced, faults, status, txn, head, handoffs, landed, stage, known, threads>>

Closed(s, t) == t > s
Dead(c, r) == r > c[1] + Period[c[2]]

HubNowStrict(sys) == IF sys > now THEN sys ELSE now + 1  \* mutant

\* Core::hub_now: hub time follows the system clock forward and holds when it steps back.
HubNow(sys) == IF sys > now THEN sys ELSE now

SpansOf(cs) == {c[1] : c \in cs}
InSpan(cs, s) == {c[2] : c \in {d \in cs : d[1] = s}}
HasRow(rows) == {s \in Spans : rows[s] # NoRow}
HasFile == {s \in Spans : files[s] # NoFile}

Idle == [span |-> -1, held |-> {}]
NoPass == [at |-> "none"]

\* No store is open.
MemoryGone ==
    /\ now' = 0 /\ ret' = 0 /\ open' = {} /\ sealed' = {}
    /\ waiting' = {} /\ inFlight' = {} /\ failed' = {} /\ due' = {}
    /\ landed' = {} /\ stage' = NoPass /\ known' = [s \in Spans |-> "none"]
    /\ jobs' = <<>> /\ bw' = Idle /\ inbox' = <<>>
    /\ txn' = [chunks |-> {}, rows |-> [s \in Spans |-> NoRow], pend |-> {}]

Init ==
    /\ db = [chunks |-> {}, rows |-> [s \in Spans |-> NoRow], pend |-> {},
             now |-> 0, ret |-> 0, open |-> {}]
    /\ files = [s \in Spans |-> NoFile] /\ unsynced = {} /\ faults = 0
    /\ status = "down"
    /\ now = 0 /\ ret = 0 /\ open = {} /\ sealed = {}
    /\ waiting = {} /\ inFlight = {} /\ failed = {} /\ due = {}
    /\ landed = {} /\ stage = NoPass /\ known = [s \in Spans |-> "none"]
    /\ jobs = <<>> /\ bw = Idle /\ inbox = <<>>
    /\ txn = [chunks |-> {}, rows |-> [s \in Spans |-> NoRow], pend |-> {}]

-----------------------------------------------------------------------------
\* The writer.

\* A point of series x: it joins the open chunk of its span, sealing an older one.
AppendPoint(x, sys) ==
    LET t == HubNow(sys)
        old == {c \in open : c[2] = x /\ c[1] # t}
    IN
    /\ status = "running"
    /\ now' = t
    /\ open' = (open \ old) \cup {<<t, x>>}
    /\ sealed' = sealed \cup old
    /\ UNCHANGED <<db, files, unsynced, faults, status, txn, ret, handoffs, landed, stage,
                   known, threads>>

Backlog == Cardinality(failed) > BacklogBound

ChosenAgain(t) == {s \in waiting : Closed(s, t)}  \* mutant

\* Handoffs::choose.
Chosen(t) == {s \in waiting \ inFlight : Closed(s, t)}

\* The writer's sweep: closed spans' open chunks are sealed, then the closed spans in
\* `chunks` become due.
Sweep(sys) ==
    LET t == HubNow(sys)
        late == {c \in open : Closed(c[1], t)}
    IN
    /\ status = "running" /\ ~Backlog
    /\ now' = t
    /\ open' = open \ late /\ sealed' = sealed \cup late
    /\ due' = due \cup Chosen(t)
    /\ UNCHANGED <<db, files, unsynced, faults, status, txn, ret, waiting, inFlight, failed,
                   landed, stage, known, threads>>

\* A sweep that meets too many failing spans: the store fails stop.  (A block writer that
\* outlives the writer leaves the files a crash a little later would have left.)
BacklogStops ==
    /\ status = "running" /\ Backlog
    /\ status' = "failed"
    /\ MemoryGone
    /\ UNCHANGED <<db, files, unsynced, faults>>

\* Retention::begin: the clock moves to r, held by hub time, by the system clock (which may
\* have stepped back) and by twice the monotonic time since the last pass.
PassBegin(sys, r) ==
    /\ status = "running" /\ stage = NoPass
    /\ r <= HubNow(sys) /\ r <= sys
    /\ now' = HubNow(sys) /\ ret' = r
    /\ stage' = [at |-> "scan", from |-> 0]
    /\ UNCHANGED <<db, files, unsynced, faults, status, txn, open, sealed, handoffs, landed,
                   known, threads>>

HandOffKeepsChunks(m) ==  \* mutant
    /\ txn' = [txn EXCEPT !.rows[m.span] = m.held]
    /\ landed' = landed \cup {m.span}
    /\ UNCHANGED status

\* commit_handoff: the row, and the deletion of the span's chunks, join the transaction.
HandOffWritten(m) ==
    IF txn.rows[m.span] # NoRow
    THEN status' = "failed" /\ UNCHANGED <<txn, landed>>
    ELSE /\ txn' = [txn EXCEPT !.rows[m.span] = m.held,
                               !.chunks = {c \in @ : c[1] # m.span}]
         /\ landed' = landed \cup {m.span}
         /\ UNCHANGED status

AttemptStuck(m) == failed' = failed \cup {m.span} /\ UNCHANGED inFlight  \* mutant

\* Handoffs::failed: the span waits for the next sweep.
AttemptFailed(m) == failed' = failed \cup {m.span} /\ inFlight' = inFlight \ {m.span}

EntryKept(m) == UNCHANGED txn  \* mutant

\* Writer::unlinked: the file's pending_unlinks entry goes with this commit.
EntryCleared(m) == txn' = [txn EXCEPT !.pend = @ \ {m.span}]

\* The writer handles the block writer's next message.
Receive ==
    /\ status = "running" /\ inbox # <<>>
    /\ inbox' = Tail(inbox)
    /\ LET m == Head(inbox) IN
        \/ m.kind = "written" /\ HandOffWritten(m) /\ UNCHANGED handoffs
        \/ m.kind = "failed" /\ AttemptFailed(m) /\ UNCHANGED <<txn, landed, status, waiting, due>>
        \/ m.kind = "unlinked" /\ EntryCleared(m) /\ UNCHANGED <<landed, status, handoffs>>
    /\ UNCHANGED <<db, files, unsynced, faults, head, stage, known, jobs, bw>>

-----------------------------------------------------------------------------
\* One step of the retention pass, inside a commit.  `cs` is `chunks` with what the commit
\* seals; a span in flight is left alone.

Key(c) == c[1] * NSeries + c[2]

\* delete_dead_chunks: the first Batch entries from the scan's position on...
Visited(cs) ==
    LET ahead == {c \in cs : Key(c) >= stage.from} IN
    {c \in ahead : Cardinality({d \in ahead : Key(d) < Key(c)}) < Batch}

DeadInFlight(cs) == {c \in Visited(cs) : Dead(c, ret)}  \* mutant

\* ... those of them to delete, and the entries the next step visits.
DeadFound(cs) == {c \in Visited(cs) : Dead(c, ret) /\ c[1] \notin inFlight}
Unvisited(cs) == {c \in cs : Key(c) >= stage.from} \ Visited(cs)

\* forget_emptied: the idle spans the scan left with no chunk.
Emptied(cs) == ((waiting \cup SpansOf(sealed)) \ inFlight) \ SpansOf(cs \ DeadFound(cs))

ExpiredInPart(rows) ==  \* mutant
    {s \in HasRow(rows) \ inFlight : \E x \in rows[s] : Dead(<<s, x>>, ret)}

\* file_fate: a file whose every holder is dead, unless it is in flight.
Expired(rows) == {s \in HasRow(rows) \ inFlight : \A x \in rows[s] : Dead(<<s, x>>, ret)}

\* retire(): from the front of the queue while Batch entries allow, at least one.
Cost(q) == MapThenSumSet(LAMBDA s : 2 + Cardinality(txn.rows[s]), q)
RetiredNow(q) == {s \in q : s = Min(q) \/ Cost({t \in q : t <= s}) <= Batch}

\* Retention::step: the chunks deleted, the spans emptied, the files retired, the next stage.
PassStep(cs) ==
    CASE stage.at = "scan" /\ Unvisited(cs) # {} ->
           [gone |-> DeadFound(cs), emptied |-> {}, retired |-> {},
            next |-> [at |-> "scan", from |-> Min({Key(c) : c \in Unvisited(cs)})]]
      [] stage.at = "scan" /\ Unvisited(cs) = {} ->
           [gone |-> DeadFound(cs),
            emptied |-> Emptied(cs),
            retired |-> {},
            next |-> [at |-> "files", queue |-> Expired(txn.rows)]]
      [] stage.at = "files" /\ stage.queue # {} ->
           [gone |-> {}, emptied |-> {}, retired |-> RetiredNow(stage.queue),
            next |-> [at |-> "files", queue |-> stage.queue \ RetiredNow(stage.queue)]]
      [] OTHER -> [gone |-> {}, emptied |-> {}, retired |-> {}, next |-> NoPass]

WrittenKeepingRows(p) ==  \* mutant
    [chunks |-> (txn.chunks \cup sealed) \ p.gone, rows |-> txn.rows, pend |-> txn.pend \cup p.retired]

\* The tables as the commit leaves them.
Written(p) ==
    [chunks |-> (txn.chunks \cup sealed) \ p.gone,
     rows |-> [s \in Spans |-> IF s \in p.retired THEN NoRow ELSE txn.rows[s]],
     pend |-> txn.pend \cup p.retired]

Committed(p) ==
    [chunks |-> Written(p).chunks, rows |-> Written(p).rows, pend |-> Written(p).pend,
     now |-> now, ret |-> ret, open |-> open]

\* Jobs for the spans of a set, in span order: the i-th is for the one with i spans up to it.
Rank(s, ss) == Cardinality({t \in ss : t <= s})
Jobs(op, ss) ==
    [i \in 1..Cardinality(ss) |-> [op |-> op, span |-> CHOOSE s \in ss : Rank(s, ss) = i]]

KnownUninstalled(p) == [s \in Spans |-> IF s \in p.retired THEN "none" ELSE known[s]]  \* mutant

\* Blocks::install of the files that landed, Blocks::evict of the retired.
KnownAfter(p) == [s \in Spans |-> IF s \in p.retired THEN "none"
                                  ELSE IF s \in landed THEN "readable" ELSE known[s]]

\* A commit that succeeds, and after_commit: files that landed are known, the due spans go to
\* the block writer, retired files are forgotten and go there to be unlinked.
Commit ==
    /\ status = "running"
    /\ \E p \in {PassStep(txn.chunks \cup sealed)} :
       LET wait == (waiting \cup SpansOf(sealed)) \ p.emptied
           hand == due \ p.emptied
       IN
       /\ db' = Committed(p)
       /\ txn' = Written(p)
       /\ sealed' = {}
       /\ waiting' = wait \ landed
       /\ inFlight' = (inFlight \ landed) \cup hand
       /\ failed' = (failed \ p.emptied) \ landed
       /\ due' = {}
       /\ landed' = {}
       /\ stage' = p.next
       /\ known' = KnownAfter(p)
       /\ jobs' = jobs \o Jobs("hand off", hand) \o Jobs("unlink", p.retired)
    /\ UNCHANGED <<files, unsynced, faults, status, now, ret, open, bw, inbox>>

\* A commit that fails, whether or not it landed in redb: the store fails stop.
CommitFails ==
    /\ status = "running"
    /\ status' = "failed"
    /\ \/ db' = Committed(PassStep(txn.chunks \cup sealed))
       \/ UNCHANGED db
    /\ MemoryGone
    /\ UNCHANGED <<files, unsynced, faults>>

-----------------------------------------------------------------------------
\* The block writer, one job at a time.

\* read_span: the span's chunks, from a read transaction begun now.
ReadSpan ==
    /\ status = "running" /\ bw = Idle
    /\ jobs # <<>> /\ Head(jobs).op = "hand off"
    /\ jobs' = Tail(jobs)
    /\ bw' = [span |-> Head(jobs).span, held |-> InSpan(db.chunks, Head(jobs).span)]
    /\ UNCHANGED <<db, files, unsynced, faults, status, txn, head, handoffs, landed, stage,
                   known, inbox>>

\* BlockDir::write: the file is linked under its name and the directory synced, unless a
\* file is there already.
WriteSpan ==
    /\ status = "running" /\ bw # Idle
    /\ bw' = Idle
    /\ IF files[bw.span] = NoFile
       THEN /\ files' = [files EXCEPT ![bw.span] = bw.held]
            /\ inbox' = Append(inbox, [kind |-> "written", span |-> bw.span, held |-> bw.held])
            /\ unsynced' = {}
       ELSE /\ inbox' = Append(inbox, [kind |-> "failed", span |-> bw.span])
            /\ UNCHANGED <<files, unsynced>>
    /\ UNCHANGED <<db, faults, status, txn, head, handoffs, landed, stage, known, jobs>>

\* The read, the encoding or the write failed: nothing is left under either name. The removal
\* of the linked file after its directory's sync failed is best effort in write and is taken to
\* succeed; were it to fail as well, each later attempt would find the name taken.
WriteSpanFails ==
    /\ status = "running" /\ bw # Idle /\ faults < MaxFaults
    /\ faults' = faults + 1
    /\ bw' = Idle
    /\ inbox' = Append(inbox, [kind |-> "failed", span |-> bw.span])
    /\ UNCHANGED <<db, files, unsynced, status, txn, head, handoffs, landed, stage, known, jobs>>

\* A retired file is unlinked.  The directory is not synced.
Unlink ==
    /\ status = "running" /\ bw = Idle
    /\ jobs # <<>> /\ Head(jobs).op = "unlink"
    /\ jobs' = Tail(jobs)
    /\ LET s == Head(jobs).span IN
        /\ files' = [files EXCEPT ![s] = NoFile]
        /\ unsynced' = IF UnlinkReturns /\ files[s] # NoFile
                       THEN unsynced \cup {<<s, files[s]>>} ELSE unsynced
        /\ inbox' = Append(inbox, [kind |-> "unlinked", span |-> s])
    /\ UNCHANGED <<db, faults, status, txn, head, handoffs, landed, stage, known, bw>>

\* An unlink that fails keeps its pending_unlinks entry: the next open finishes it.
UnlinkFails ==
    /\ status = "running" /\ bw = Idle /\ faults < MaxFaults
    /\ jobs # <<>> /\ Head(jobs).op = "unlink"
    /\ jobs' = Tail(jobs)
    /\ faults' = faults + 1
    /\ UNCHANGED <<db, files, unsynced, status, txn, head, handoffs, landed, stage, known, bw,
                   inbox>>

-----------------------------------------------------------------------------
\* Crashes and opens.

\* The process dies or its store is dropped; on a power loss an unlink the directory does not
\* hold yet is undone.
Crash ==
    /\ status = "running"
    /\ status' = "down"
    /\ MemoryGone
    /\ \E back \in SUBSET unsynced :
        files' = [s \in Spans |-> IF \E f \in back : f[1] = s
                                  THEN (CHOOSE f \in back : f[1] = s)[2] ELSE files[s]]
    /\ unsynced' = {}
    /\ UNCHANGED <<db, faults>>

\* reconcile(): a file that no row and no pending unlink names...
Orphans == {s \in HasFile \ db.pend : db.rows[s] = NoRow}

\* ... is a redundant copy by rule (a): its span is closed by the persisted clock, sealed in
\* every tail, and has chunks in redb.  (db.open has the log's points beside the tails', so
\* this asks more than the code.)
Redundant(s) ==
    /\ Closed(s, db.now)
    /\ s \notin SpansOf(db.open)
    /\ s \in SpansOf(db.chunks)

\* open(): files reconciled, pending unlinks cleared, the head swept at hub time t, a first
\* pass begun with the retention clock at r, which moves forward by nothing.
Opens(t, r) ==
    LET late == {c \in db.open : Closed(c[1], t)}
        kept == {s \in HasFile : s \notin db.pend /\ s \notin Orphans}
    IN
    /\ status' = "running"
    /\ files' = [s \in Spans |-> IF s \in kept THEN files[s] ELSE NoFile]
    /\ db' = [db EXCEPT !.pend = {}]
    /\ txn' = [chunks |-> db.chunks, rows |-> db.rows, pend |-> {}]
    /\ now' = t /\ ret' = r
    /\ open' = db.open \ late /\ sealed' = late
    /\ waiting' = SpansOf(db.chunks) /\ inFlight' = {} /\ failed' = {} /\ due' = {}
    /\ landed' = {}
    /\ stage' = [at |-> "scan", from |-> 0]
    /\ known' = [s \in Spans |-> IF db.rows[s] = NoRow THEN "none"
                                 ELSE IF s \in kept THEN "readable" ELSE "unreadable"]
    /\ jobs' = <<>> /\ bw' = Idle /\ inbox' = <<>>
    /\ UNCHANGED <<unsynced, faults>>

\* An open, refused (OpenError::UnexplainedBlock) when a file no rule explains is there.
Open(sys, r) ==
    /\ status \in {"down", "failed"} /\ r <= db.ret /\ r <= sys
    /\ IF \A s \in Orphans : Redundant(s)
       THEN Opens(IF sys > db.now THEN sys ELSE db.now, r)
       ELSE /\ status' = "refused"
            /\ UNCHANGED <<db, files, unsynced, faults, txn, head, handoffs, landed, stage,
                           known, threads>>

Next ==
    \/ \E x \in Series, sys \in Times : AppendPoint(x, sys)
    \/ \E sys \in Times : Sweep(sys)
    \/ \E sys, r \in Times : PassBegin(sys, r) \/ Open(sys, r)
    \/ Receive \/ Commit \/ CommitFails \/ BacklogStops \/ Crash
    \/ ReadSpan \/ WriteSpan \/ WriteSpanFails \/ Unlink \/ UnlinkFails

Spec == Init /\ [][Next]_vars

\* The writer's loop runs (its inbox, its sweep and its commits each come round), and the
\* block writer serves its queue.
Fairness ==
    /\ WF_vars(\E sys \in Times : Sweep(sys)) /\ WF_vars(Commit) /\ WF_vars(Receive)
    /\ WF_vars(ReadSpan \/ WriteSpan \/ Unlink)

FairSpec == Spec /\ Fairness

-----------------------------------------------------------------------------
\* What redb answers for: the head at the last commit, `chunks`, and the rows' files.
Rowed(d) == UNION {{<<s, x>> : x \in d.rows[s]} : s \in HasRow(d.rows)}
Stored(d) == d.open \cup d.chunks \cup Rowed(d)

Messages == [kind : {"written"}, span : Spans, held : SUBSET Series]
            \cup [kind : {"failed", "unlinked"}, span : Spans]

\* Every variable has the shape the code's types give it.
TypeOK ==
    /\ db \in [chunks : SUBSET (Spans \X Series), rows : [Spans -> (SUBSET Series) \cup {NoRow}],
               pend : SUBSET Spans, now : Times, ret : Times, open : SUBSET (Spans \X Series)]
    /\ files \in [Spans -> (SUBSET Series) \cup {NoFile}]
    /\ status \in {"down", "running", "failed", "refused"}
    /\ now \in Times /\ ret \in Times
    /\ open \subseteq Spans \X Series /\ sealed \subseteq Spans \X Series
    /\ waiting \cup inFlight \cup failed \cup due \cup landed \subseteq Spans
    /\ known \in [Spans -> {"none", "readable", "unreadable"}]
    /\ \A i \in DOMAIN inbox : inbox[i] \in Messages
    /\ bw \in [span : Spans \cup {-1}, held : SUBSET Series]

\* "A span's chunks are in exactly one of `chunks` or the file a `blocks` row names, and the
\* file is durable before the row exists" (RFC 0010 §6), at every crash point.
OnePlace ==
    \A s \in HasRow(db.rows) :
        /\ files[s] = db.rows[s]
        /\ s \notin SpansOf(db.chunks) /\ s \notin SpansOf(db.open)

\* Committed data goes from the store only when the pass finds it dead: no handoff, crash,
\* reconciliation or retirement loses anything a policy still keeps.
OnlyTheDeadGo ==
    \A c \in Stored(db) : c \notin Stored(db') => Dead(c, db'.ret)

\* A file is unlinked only once nothing names it: its row is gone, and what it held is dead
\* or still in redb.
NoNamedFileUnlinked ==
    \A s \in HasFile : files'[s] = NoFile => db'.rows[s] = NoRow

\* An open after any crash starts the store: "a crash at any step leaves either the chunks in
\* redb and at most an orphan file (deleted at open), or the row and its durable file".
OpenNeverRefused == status # "refused"

\* A span in flight is with the block writer exactly once: as a job, in its hands, as a
\* message, or in the open transaction.  So none is handed over twice or forgotten there.
InFlightOnce ==
    status = "running" =>
        \A s \in Spans :
            LET places ==
                    Cardinality({i \in DOMAIN jobs : jobs[i] = [op |-> "hand off", span |-> s]})
                    + Cardinality({i \in DOMAIN inbox : /\ inbox[i].kind # "unlinked"
                                                        /\ inbox[i].span = s})
                    + (IF bw.span = s THEN 1 ELSE 0) + (IF s \in landed THEN 1 ELSE 0)
            IN  places = IF s \in inFlight THEN 1 ELSE 0

\* A span with chunks in redb stays on the writer's list until its row is committed, so a
\* failed or crashed handoff is always tried again; and no span ever gets a second row.
WaitingComplete ==
    status = "running" =>
        /\ SpansOf(txn.chunks) \subseteq waiting
        /\ SpansOf(db.chunks) \subseteq waiting
        /\ \A i \in DOMAIN inbox :
            inbox[i].kind = "written" => txn.rows[inbox[i].span] = NoRow

\* Every committed row's file has its entry in memory.  (Not the other way round: a query may put
\* back the entry of a file that was retired under it, see SpanQueries.)
RowsKnown == status = "running" => \A s \in HasRow(db.rows) : known[s] # "none"

\* While the store stays up, every span that has closed leaves redb, for its file or for good:
\* a failed attempt is tried again, and nothing waits on a span that no one works on.
ClosedSpansLeave ==
    \A s \in Spans :
        <>[](status = "running") =>
            []((Closed(s, now) /\ s \in SpansOf(open \cup sealed \cup db.chunks))
               => <>(s \notin SpansOf(open \cup sealed \cup db.chunks)))

\* While the store stays up and no unlink fails, a retired file's entry is cleared.
PendingUnlinksClear ==
    \A s \in Spans :
        <>[](status = "running" /\ faults = 0) => [](s \in db.pend => <>(s \notin db.pend))

\* The bookkeeping of handoffs agrees with the data: a span is in flight once, every row's
\* file is known, and every span with chunks waits for the block writer or is with it, so that
\* none is left behind in redb.
SpansTracked ==
    /\ TypeOK
    /\ InFlightOnce
    /\ RowsKnown
    /\ WaitingComplete

\* Nothing leaves the store too early: data goes only when it is dead, and a file only once no
\* row names it.
RemovalsSound ==
    [][/\ OnlyTheDeadGo
       /\ NoNamedFileUnlinked]_vars

\* Nothing is stuck between the writer, the block writer and the pass: closed spans leave redb
\* though an attempt failed, and retired files' entries are cleared.
SpansDrain == ClosedSpansLeave /\ PendingUnlinksClear

-----------------------------------------------------------------------------
(* The inductive invariant the proofs rest on.                               *)

JobType == [op : {"hand off", "unlink"}, span : Spans]

\* The types TypeOK leaves out.
HandoffTypeOK ==
    /\ TypeOK
    /\ txn \in [chunks : SUBSET (Spans \X Series), rows : [Spans -> (SUBSET Series) \cup {NoRow}],
                pend : SUBSET Spans]
    /\ unsynced \subseteq Spans \X (SUBSET Series)
    /\ jobs \in Seq(JobType) /\ inbox \in Seq(Messages)
    /\ bw = Idle \/ bw.span \in Spans

Running == status = "running"

\* A span no data will ever join again: it is closed, and in no table, chunk or list.
Settled(s) ==
    /\ Closed(s, db.now) /\ s \notin SpansOf(db.chunks) /\ s \notin SpansOf(db.open)
    /\ Running => s \notin SpansOf(open) /\ s \notin SpansOf(sealed) /\ s \notin waiting

\* The spans of files being unlinked, and of those a power loss may bring back.
Unlinking == {jobs[i].span : i \in {j \in DOMAIN jobs : jobs[j].op = "unlink"}}
                \cup {inbox[i].span : i \in {j \in DOMAIN inbox : inbox[j].kind = "unlinked"}}
Undone == {f[1] : f \in unsynced}

\* A span with a row, and one whose row was retired, is settled; the two are never confused.
SettledInv ==
    /\ \A s \in HasRow(db.rows) \cup db.pend \cup Undone : Settled(s)
    /\ (db.pend \cup Undone) \cap HasRow(db.rows) = {}
    /\ Running => \A s \in Unlinking : Settled(s) /\ s \notin HasRow(db.rows)

\* A committed row's file is there.
FilesInv == \A s \in HasRow(db.rows) : files[s] = db.rows[s]

\* The head holds what it held at the last commit.
HeadInv == Running => db.now <= now /\ db.open \subseteq open \cup sealed

\* The open transaction is the committed tables, but for the spans that landed.
TxnInv ==
    Running =>
        /\ txn.chunks = {c \in db.chunks : c[1] \notin landed}
        /\ txn.rows = [s \in Spans |-> IF s \in landed THEN files[s] ELSE db.rows[s]]
        /\ txn.pend \subseteq db.pend

\* What the block writer read, wrote and reported is what the tables hold of the span.
HeldInv ==
    Running =>
        /\ \A s \in landed : files[s] = InSpan(db.chunks, s)
        /\ bw # Idle => bw.held = InSpan(db.chunks, bw.span)
        /\ \A i \in DOMAIN inbox : inbox[i].kind = "written" =>
               /\ inbox[i].held = InSpan(db.chunks, inbox[i].span)
               /\ files[inbox[i].span] = inbox[i].held

\* The places of a span in flight, no two of them of one span.
HandOffs == {i \in DOMAIN jobs : jobs[i].op = "hand off"}
Results == {i \in DOMAIN inbox : inbox[i].kind # "unlinked"}
PlacesInv ==
    Running =>
        /\ inFlight = {jobs[i].span : i \in HandOffs} \cup {inbox[i].span : i \in Results}
                         \cup {s \in Spans : s = bw.span} \cup landed
        /\ \A i, j \in HandOffs : jobs[i].span = jobs[j].span => i = j
        /\ \A i, j \in Results : inbox[i].span = inbox[j].span => i = j
        /\ \A i \in HandOffs : jobs[i].span # bw.span /\ jobs[i].span \notin landed
        /\ \A i \in Results : inbox[i].span # bw.span /\ inbox[i].span \notin landed
        /\ \A i \in HandOffs, j \in Results : jobs[i].span # inbox[j].span
        /\ bw.span \notin landed

\* A span due or in flight is listed and closed, and nothing of it is still in the head.
FlightInv ==
    Running =>
        /\ SpansOf(db.chunks) \cup due \cup inFlight \subseteq waiting
        /\ due \cap inFlight = {}
        /\ \A s \in due \cup inFlight : Closed(s, now) /\ s \notin SpansOf(open)
        /\ \A s \in inFlight : /\ Closed(s, db.now)
                              /\ s \notin SpansOf(sealed) /\ s \notin SpansOf(db.open)

\* The files the pass is retiring have rows whose every holder is dead.
PassInv ==
    Running /\ stage.at = "files" =>
        \A s \in stage.queue : s \in HasRow(db.rows) /\ \A x \in db.rows[s] : Dead(<<s, x>>, ret)

HandoffInv ==
    /\ HandoffTypeOK /\ SettledInv /\ FilesInv /\ HeadInv /\ TxnInv /\ HeldInv /\ PlacesInv
    /\ FlightInv /\ PassInv

\* The spans whose file the block writer has reported.
Reported == {inbox[i].span : i \in {j \in DOMAIN inbox : inbox[j].kind = "written"}}

\* Why an open can explain every file, where no unlink comes back and a scan ends in the commit
\* that began it: a listed span has chunks, and a file has a row, waits to be unlinked, or is of
\* a span in flight, whose chunks are still in redb.
ReopenInv ==
    /\ unsynced = {} /\ status # "refused"
    /\ Running =>
        /\ waiting \subseteq SpansOf(db.chunks)
        /\ HasFile \subseteq HasRow(db.rows) \cup txn.pend \cup landed \cup Reported
        /\ \A i \in DOMAIN inbox : inbox[i].kind = "unlinked" => files[inbox[i].span] = NoFile
    /\ ~Running => \A s \in Orphans : Redundant(s)
=============================================================================
