------------------------------- MODULE StoreLog -------------------------------
(***************************************************************************)
(* The hub store's writer (system-hub/hub-store/src/store): points are     *)
(* appended to series in memory, and a group commit writes the interval's  *)
(* points to the points log, the chunks that sealed to `chunks`, and the   *)
(* tails that are due.  A rotation writes every tail once and then lets    *)
(* the log before it go.  An open loads the tails and replays the log.     *)
(*                                                                         *)
(* One tier (raw) of each series is modelled; SeriesState has all three.   *)
(* A request of several points is that many Append steps at one hub time.  *)
(***************************************************************************)
EXTENDS Integers, FiniteSets

CONSTANTS Keys,        \* series keys
          NoId,        \* "not interned"
          IdMax,       \* stands for u32::MAX: the id that is never given
          SpanSecs,    \* length of a span
          GraceSecs,   \* how long after its end a span stays open
          ChunkPoints, \* points that fill a chunk
          MaxTime,     \* bound: system time
          MaxCommits   \* bound: commits over the life of the data directory

ASSUME ConstAssumption ==
    /\ IdMax \in Nat /\ NoId \notin 0..IdMax
    /\ SpanSecs \in Nat \ {0} /\ GraceSecs \in Nat /\ ChunkPoints \in Nat \ {0}
    /\ MaxTime \in Nat /\ MaxCommits \in Nat

Ids == 0..IdMax
Times == 1..MaxTime
NoSpan == -1

VARIABLES
    \* hub.redb, as of the last commit
    dIds,     \* SERIES_KEY and SERIES: the id of each interned key
    dTail,    \* TAILS: each series' state when its tail was last written
    dLog,     \* POINTS_LOG: [seq, id, ts] for every logged point
    dChunks,  \* CHUNKS
    dClock, dNextId, dSeq,   \* META
    \* the process
    status,   \* the store's stage of life
    replay,   \* log points the open has still to apply
    clock, nextId, seq,      \* HubClock.last_issued, next_id, commit_seq
    ids,      \* the head: the id of every key in it
    head,     \* each series' state
    dirty, touched, fresh,   \* entry.dirty, Core.touched, Core.new_series
    points,   \* Core.points: the interval's points, not yet logged
    sealed,   \* Core.sealed, and every entry's `pending`
    logBound, rotSeq, rotTodo   \* log_bound and the rotation

disk == <<dIds, dTail, dLog, dChunks, dClock, dNextId, dSeq>>
batch == <<touched, fresh, points, sealed>>
rotation == <<logBound, rotSeq, rotTodo>>
vars == <<disk, status, replay, clock, nextId, seq, ids, head, dirty, batch, rotation>>

-----------------------------------------------------------------------------
\* One series' raw tier.

SpanOf(ts) == ts - (ts % SpanSecs)
Closed(span, now) == now > span + SpanSecs + GraceSecs

\* SeriesState::new.  `last` is 0 when the series has no point.
NewSeries == [last |-> 0, span |-> NoSpan, open |-> {}, next |-> 0]

\* The chunk a series' open points seal into.
Chunk(id, s) == [span |-> s.span, id |-> id, seq |-> s.next, pts |-> s.open]
SealedState(s) == [last |-> s.last, span |-> s.span, open |-> {}, next |-> s.next + 1]

\* The state a point is pushed into when it starts a new span.
InSpan(s, ts) ==
    IF s.span = SpanOf(ts) THEN s
    ELSE [s EXCEPT !.open = {}, !.span = SpanOf(ts), !.next = 0]

\* Open::push_in: what the point seals (a new span's, or a full, open chunk)...
SealedBy(id, s, ts) ==
    IF /\ s.open # {}
       /\ s.span # SpanOf(ts) \/ Cardinality(s.open) >= ChunkPoints
    THEN {Chunk(id, s)} ELSE {}

\* ... and the series with the point in it.
Pushed(s, ts) ==
    LET t == InSpan(s, ts)
        u == IF Cardinality(t.open) >= ChunkPoints THEN SealedState(t) ELSE t
    IN  [last |-> ts, span |-> u.span, open |-> u.open \cup {ts}, next |-> u.next]

\* seal_closed: the open chunk of a span that hub time has left behind.
SealsAt(s, now) == s.open # {} /\ Closed(s.span, now)

-----------------------------------------------------------------------------
Max2(a, b) == IF a >= b THEN a ELSE b

Index == {i \in Ids : \E k \in Keys : ids[k] = i}

ChunkKeyNoSpan(c) == <<c.id, c.seq>>  \* mutant
ChunkKey(c) == <<c.span, c.id, c.seq>>

\* Rows inserted in `chunks`: a row of the same key is replaced.
Upserted(rows, new) == {r \in rows : \A c \in new : ChunkKey(c) # ChunkKey(r)} \cup new

\* No store is open: what the process held is gone, and no call reaches it.
MemoryGone ==
    /\ replay' = {}
    /\ clock' = 0 /\ nextId' = 0 /\ seq' = 0
    /\ ids' = [k \in Keys |-> NoId]
    /\ head' = [i \in Ids |-> NewSeries]
    /\ dirty' = {} /\ touched' = {} /\ fresh' = {} /\ points' = {} /\ sealed' = {}
    /\ logBound' = 0 /\ rotSeq' = 0 /\ rotTodo' = {}

\* A new data directory.
Init ==
    /\ dIds = [k \in Keys |-> NoId]
    /\ dTail = [i \in Ids |-> NewSeries]
    /\ dLog = {} /\ dChunks = {}
    /\ dClock = 0 /\ dNextId = 0 /\ dSeq = 0
    /\ status = "down" /\ replay = {}
    /\ clock = 0 /\ nextId = 0 /\ seq = 0
    /\ ids = [k \in Keys |-> NoId]
    /\ head = [i \in Ids |-> NewSeries]
    /\ dirty = {} /\ touched = {} /\ fresh = {} /\ points = {} /\ sealed = {}
    /\ logBound = 0 /\ rotSeq = 0 /\ rotTodo = {}

-----------------------------------------------------------------------------
\* open(): the head from the tails, every record's series interned.
Open ==
    /\ status \in {"down", "closed", "failed"}
    /\ status' = "opening"
    /\ replay' = dLog
    /\ clock' = dClock /\ nextId' = dNextId /\ seq' = dSeq
    /\ ids' = dIds
    /\ head' = dTail
    /\ dirty' = {} /\ touched' = {} /\ fresh' = {} /\ points' = {} /\ sealed' = {}
    /\ logBound' = 0 /\ rotSeq' = dSeq /\ rotTodo' = {}
    /\ UNCHANGED disk

ReplaysAll(p) == TRUE  \* mutant

\* A point already in the tail or in a sealed chunk is not applied twice.
Replays(p) == p.ts > head[p.id].last

\* replay(): the log in commit order, each point only after its series' last.
ReplayPoint ==
    /\ status = "opening"
    /\ \E p \in replay :
        /\ \A q \in replay : p.seq < q.seq \/ (p.seq = q.seq /\ p.ts <= q.ts)
        /\ replay' = replay \ {p}
        /\ IF Replays(p)
           THEN LET new == SealedBy(p.id, head[p.id], p.ts) IN
                /\ head' = [head EXCEPT ![p.id] = Pushed(@, p.ts)]
                /\ dirty' = dirty \cup {p.id}
                /\ sealed' = sealed \cup new
                /\ touched' = IF new = {} THEN touched ELSE touched \cup {p.id}
           ELSE UNCHANGED <<head, dirty, sealed, touched>>
    /\ UNCHANGED <<disk, status, clock, nextId, seq, ids, fresh, points, rotation>>

\* Core::sweep at `now`: every open chunk of a closed span is sealed.
SweepAt(now) ==
    LET due == {i \in Index : SealsAt(head[i], now)} IN
    /\ head' = [i \in Ids |-> IF i \in due THEN SealedState(head[i]) ELSE head[i]]
    /\ sealed' = sealed \cup {Chunk(i, head[i]) : i \in due}
    /\ touched' = touched \cup due

\* The rest of open(): hub time is issued, the head swept, the writer starts a rotation.
Opened(sys) ==
    /\ status = "opening" /\ replay = {}
    /\ status' = "running"
    /\ clock' = Max2(clock, sys)
    /\ SweepAt(clock')
    /\ rotSeq' = seq /\ rotTodo' = Index
    /\ UNCHANGED <<disk, replay, nextId, seq, ids, dirty, fresh, points, logBound>>

-----------------------------------------------------------------------------
\* activate(): the id a key's point goes to.
IdFor(k) == IF ids[k] # NoId THEN ids[k] ELSE nextId

\* SeriesCapReached and NotAfterLast.  (OutOfDomain and KindMismatch change nothing.)
Rejected(k, at) == (ids[k] = NoId /\ nextId = IdMax) \/ at <= head[IdFor(k)].last

\* append_point() for a series in the head or a new one, stamped with hub time.
Append(k, sys) ==
    LET at == Max2(clock, sys)
        id == IdFor(k)
        new == SealedBy(id, head[id], at)
    IN
    /\ status = "running"
    /\ clock' = at
    /\ IF Rejected(k, at)
       THEN UNCHANGED <<nextId, ids, head, dirty, touched, fresh, points, sealed>>
       ELSE /\ ids' = [ids EXCEPT ![k] = id]
            /\ nextId' = IF ids[k] = NoId THEN nextId + 1 ELSE nextId
            /\ fresh' = IF ids[k] = NoId THEN fresh \cup {id} ELSE fresh
            /\ head' = [head EXCEPT ![id] = Pushed(@, at)]
            /\ dirty' = dirty \cup {id}
            /\ sealed' = sealed \cup new
            /\ touched' = IF ids[k] = NoId \/ new # {} THEN touched \cup {id} ELSE touched
            /\ points' = points \cup {[id |-> id, ts |-> at]}
    /\ UNCHANGED <<disk, status, replay, seq, rotation>>

\* The writer's periodic sweep.
Sweep(sys) ==
    /\ status = "running"
    /\ clock' = Max2(clock, sys)
    /\ SweepAt(clock')
    /\ UNCHANGED <<disk, status, replay, nextId, seq, ids, dirty, fresh, points, rotation>>

-----------------------------------------------------------------------------
TailsDueOnly(due) == due \cap Index \cap dirty  \* mutant

\* write_tails(): of the series due, those with something to write.
TailsWritten(due) == (touched \cup due) \cap Index \cap (dirty \cup touched)

MetaWithoutIds == dClock' = clock /\ dSeq' = seq + 1 /\ UNCHANGED dNextId   \* mutant
MetaWithoutClock == dNextId' = nextId /\ dSeq' = seq + 1 /\ UNCHANGED dClock  \* mutant
MetaWithoutSeq == dClock' = clock /\ dNextId' = nextId /\ UNCHANGED dSeq     \* mutant

\* The clocks and counters every commit persists.
WriteMeta == dClock' = clock /\ dNextId' = nextId /\ dSeq' = seq + 1

\* The interval's log entry, at the commit's sequence; none for an empty interval.
LogWith == IF points = {} THEN dLog
           ELSE {e \in dLog : e.seq # seq}
                \cup {[seq |-> seq, id |-> p.id, ts |-> p.ts] : p \in points}

\* write_interval(): everything one transaction holds.
WriteInterval(due) ==
    /\ dLog' = {e \in LogWith : e.seq >= logBound}
    /\ dChunks' = Upserted(dChunks, sealed)
    /\ dTail' = [i \in Ids |-> IF i \in TailsWritten(due) THEN head[i] ELSE dTail[i]]
    /\ dIds' = [k \in Keys |-> IF ids[k] \in fresh \cap TailsWritten(due)
                               THEN ids[k] ELSE dIds[k]]
    /\ WriteMeta

\* Rotation::due: the share of the queue, in id order, that the elapsed time covers.
RotationDue(n) == {i \in rotTodo : i < n}

AfterCommitEager(due) ==  \* mutant
    /\ seq' = seq + 1
    /\ IF rotTodo \ due = {}
       THEN logBound' = seq + 1 /\ rotSeq' = seq + 1 /\ rotTodo' = Index
       ELSE rotTodo' = rotTodo \ due /\ UNCHANGED <<logBound, rotSeq>>

AfterCommitEarly(due) ==  \* mutant
    /\ seq' = seq + 1
    /\ IF rotTodo \ due = {}
       THEN logBound' = rotSeq - 1 /\ rotSeq' = seq + 1 /\ rotTodo' = Index
       ELSE rotTodo' = rotTodo \ due /\ UNCHANGED <<logBound, rotSeq>>

\* after_commit(): a finished rotation frees the log before it and starts the next.
AfterCommit(due) ==
    /\ seq' = seq + 1
    /\ IF rotTodo \ due = {}
       THEN logBound' = rotSeq /\ rotSeq' = seq + 1 /\ rotTodo' = Index
       ELSE rotTodo' = rotTodo \ due /\ UNCHANGED <<logBound, rotSeq>>

\* commit(Flush::Rotation) that succeeds.
CommitInterval(n) ==
    /\ status = "running" /\ seq < MaxCommits
    /\ WriteInterval(RotationDue(n))
    /\ AfterCommit(RotationDue(n))
    /\ dirty' = dirty \ TailsWritten(RotationDue(n))
    /\ touched' = {} /\ fresh' = {} /\ points' = {} /\ sealed' = {}
    /\ UNCHANGED <<status, replay, clock, nextId, ids, head>>

\* commit() that fails: whether or not the transaction landed, the store fails stop.
CommitFails(n) ==
    /\ status = "running" /\ seq < MaxCommits
    /\ WriteInterval(RotationDue(n)) \/ UNCHANGED disk
    /\ status' = "failed"
    /\ MemoryGone

\* finish(): commit(Flush::All), then the store is closed.
Close ==
    /\ status = "running" /\ seq < MaxCommits
    /\ WriteInterval(Index)
    /\ status' = "closed"
    /\ MemoryGone

\* The process dies, or the store is dropped (Abandon): nothing more is committed.
Crash ==
    /\ status \in {"opening", "running"}
    /\ status' = "down"
    /\ MemoryGone
    /\ UNCHANGED disk

Next ==
    \/ Open \/ ReplayPoint \/ Close \/ Crash
    \/ \E sys \in Times : Opened(sys) \/ Sweep(sys)
    \/ \E sys \in Times, k \in Keys : Append(k, sys)
    \/ \E n \in Ids : CommitInterval(n) \/ CommitFails(n)

Spec == Init /\ [][Next]_vars

-----------------------------------------------------------------------------
\* What the two sides hold.

ChunkPts(rows, id) == UNION {c.pts : c \in {r \in rows : r.id = id}}
LogPts(id) == {e.ts : e \in {l \in dLog : l.id = id}}
MemPts(id) == head[id].open \cup ChunkPts(sealed, id) \cup ChunkPts(dChunks, id)
DiskPts(id) == dTail[id].open \cup ChunkPts(dChunks, id) \cup LogPts(id)

Held == {p \in Keys \X Times : ids[p[1]] # NoId /\ p[2] \in MemPts(ids[p[1]])}
Durable == {p \in Keys \X Times : dIds[p[1]] # NoId /\ p[2] \in DiskPts(dIds[p[1]])}
Answered == IF status = "running" THEN Held ELSE Durable

\* The store keeps DurableSet's promise: every step of the writer, an open and a
\* crash included, is an accepted point, a commit of exactly what is held, a
\* fall back to exactly what is durable, or nothing.  A log entry that goes while
\* a tail it covers was not written, or a replay that skips a point, breaks it.
Promise == INSTANCE DurableSet WITH
    held <- Answered, durable <- Durable
KeepsPromise == Promise!AbsSpec

Series == [last : 0..MaxTime, span : {NoSpan} \cup (0..MaxTime),
           open : SUBSET Times, next : Nat]
Chunks == [span : {NoSpan} \cup (0..MaxTime), id : Ids, seq : Nat, pts : SUBSET Times]
LogPoints == [seq : Nat, id : Ids, ts : Times]

\* The tables have the shape the schema gives them...
DiskTypeOK ==
    /\ dIds \in [Keys -> Ids \cup {NoId}]
    /\ dTail \in [Ids -> Series]
    /\ dLog \subseteq LogPoints
    /\ dChunks \subseteq Chunks
    /\ dClock \in 0..MaxTime /\ dNextId \in Ids /\ dSeq \in Nat

\* ... what the process holds is of the writer's and the head's types...
MemoryTypeOK ==
    /\ replay \subseteq LogPoints
    /\ clock \in 0..MaxTime /\ nextId \in Ids /\ seq \in Nat
    /\ ids \in [Keys -> Ids \cup {NoId}]
    /\ head \in [Ids -> Series]
    /\ dirty \subseteq Ids /\ touched \subseteq Ids /\ fresh \subseteq Ids
    /\ points \subseteq [id : Ids, ts : Times]
    /\ sealed \subseteq Chunks
    /\ logBound \in Nat /\ rotSeq \in Nat /\ rotTodo \subseteq Ids

\* ... and the store is in a stage of its life.
TypeOK ==
    /\ DiskTypeOK /\ MemoryTypeOK
    /\ status \in {"down", "opening", "running", "failed", "closed"}

\* A point is in one place: its series' open chunk or one sealed chunk.  A tail
\* not rewritten in the commit that holds its chunk would give it two after replay.
OnePlace ==
    status = "running" =>
        LET rows == dChunks \cup sealed IN
        /\ \A c, d \in rows : c.id = d.id /\ c.pts \cap d.pts # {} => c = d
        /\ \A c \in rows : c.pts \cap head[c.id].open = {}

\* A chunk's key is given once: no commit replaces a row with another chunk.
ChunkKeysOnce ==
    \A c, d \in dChunks \cup sealed : ChunkKey(c) = ChunkKey(d) => c = d

\* open() never finds "a logged point of no series" or "a tail of no series", and a
\* series of the table is in the head once the store runs, so activate() never has
\* to reopen one from its tail.
InternedBeforeUse ==
    /\ \A e \in dLog : \E k \in Keys : dIds[k] = e.id
    /\ \A i \in Ids : dTail[i] # NewSeries => \E k \in Keys : dIds[k] = i
    /\ status = "running" => \A k \in Keys : dIds[k] # NoId => ids[k] = dIds[k]

\* Two keys never share an id, across any crashes: neither a table nor a log entry
\* can hold one series' points under another's name.
IdsUnique ==
    \A k, l \in Keys : k # l =>
        /\ dIds[k] # NoId => dIds[k] # dIds[l] /\ dIds[k] < dNextId
        /\ ids[k] # NoId => ids[k] # ids[l]

\* "A committed point is never later than the committed clock" (clock.rs), so hub time
\* resumed after a crash never stamps a point into a series' past.
ClockCoversPoints ==
    /\ \A i \in Ids : \A t \in DiskPts(i) : t <= dClock
    /\ status = "running" => \A i \in Index : head[i].last <= clock

\* The log lists a series' points in time order, so replaying it in commit order
\* applies every point that is not in the tail already.
LogInOrder ==
    \A e, f \in dLog : e.id = f.id /\ e.seq < f.seq => e.ts < f.ts

\* What the writer keeps right over appends, sweeps, rotations, failed commits, closes, crashes
\* and opens: ids are never shared and every tail and log entry names an interned series, no
\* committed point is later than the committed clock, the log lists a series' points in order,
\* a point is in one place, and no commit replaces a row of chunks.
StoreSafe ==
    /\ TypeOK
    /\ InternedBeforeUse
    /\ IdsUnique
    /\ ClockCoversPoints
    /\ LogInOrder
    /\ OnePlace
    /\ ChunkKeysOnce

-----------------------------------------------------------------------------
(* The inductive invariant behind these properties, in three layers: ids,   *)
(* series, and the log.  Each layer is inductive given the ones before it;  *)
(* StoreLogProofs proves that.                                              *)

Live == status \in {"opening", "running"}

-----------------------------------------------------------------------------
\* Ids.  A key's id is its own and below the counter, in memory and in the tables; the head
\* agrees with the tables, and what it has beyond them is queued for this commit's tails.
IdsInv ==
    /\ \A k, l \in Keys : k # l /\ dIds[k] # NoId => dIds[k] # dIds[l]
    /\ \A k, l \in Keys : k # l /\ ids[k] # NoId => ids[k] # ids[l]
    /\ \A k \in Keys : dIds[k] # NoId => dIds[k] < dNextId
    /\ \A k \in Keys : ids[k] # NoId => ids[k] < nextId
    /\ Live => \A k \in Keys : dIds[k] # NoId => ids[k] = dIds[k]
    /\ Live => \A k \in Keys : ids[k] # dIds[k] => ids[k] \in fresh \cap touched
    /\ status = "opening" => ids = dIds /\ replay \subseteq dLog
    /\ \A p \in points : p.id \in Index
    /\ \A e \in dLog : \E k \in Keys : dIds[k] = e.id
    /\ \A i \in Ids : dTail[i] # NewSeries => \E k \in Keys : dIds[k] = i

-----------------------------------------------------------------------------
\* Series.

\* A series' open points are its last ones, and its span is the last point's.
SeriesOK(s) ==
    /\ \A t \in s.open : t <= s.last
    /\ s.span = NoSpan \/ (s.last \in Times /\ s.span = SpanOf(s.last))
    /\ s.span = NoSpan => s.open = {}

\* A chunk's key comes before the next one the series will give.
Below(c, s) == c.span < s.span \/ (c.span = s.span /\ c.seq < s.next)

\* The series' sealed chunks are behind its state.
Fits(rows, i, s) ==
    /\ SeriesOK(s)
    /\ \A c \in rows : c.id = i =>
        /\ Below(c, s)
        /\ \A t \in c.pts : t <= s.last /\ t \notin s.open

DistinctRows(rows) ==
    \A c, d \in rows : c.id = d.id /\ c # d =>
        ChunkKey(c) # ChunkKey(d) /\ c.pts \cap d.pts = {}

\* A tail fits the committed chunks, and the head all chunks; the head is ahead of the tails
\* exactly where it is dirty or touched; and hub time is ahead of every series.
SeriesInv ==
    /\ \A i \in Ids : Fits(dChunks, i, dTail[i]) /\ dTail[i].last <= dClock
    /\ DistinctRows(dChunks \cup sealed)
    /\ ~Live => sealed = {}
    /\ \A c \in sealed : c.id \in touched \cap Index
    /\ \A e \in dLog : e.ts <= dClock
    /\ \A p \in points : p.ts <= clock
    /\ Live =>
        /\ dClock <= clock
        /\ \A i \in Ids : /\ Fits(dChunks \cup sealed, i, head[i])
                          /\ dTail[i].last <= head[i].last /\ head[i].last <= clock
                          /\ i \notin Index => head[i] = NewSeries
                          /\ i \in Index \ (dirty \cup touched) => head[i] = dTail[i]

-----------------------------------------------------------------------------
\* The log.

Logged(id, t) == t \in dTail[id].open \cup ChunkPts(dChunks, id)

\* The points of a set of records that are the series'.
TimesOf(ps, id) == {p.ts : p \in {r \in ps : r.id = id}}

\* A logged point that its series' tail is past is in the tail or in a chunk already.
DiskLogInv ==
    /\ \A e \in dLog : e.seq < dSeq
    /\ LogInOrder
    /\ \A e \in dLog : e.ts <= dTail[e.id].last => Logged(e.id, e.ts)

\* While an open replays, memory and the points still to replay are what is on disk.
ReplayInv ==
    status = "opening" =>
        /\ points = {} /\ seq = dSeq /\ logBound = 0
        /\ \A i \in Ids : MemPts(i) \cup TimesOf(replay, i) = DiskPts(i)
        /\ \A p \in replay : p.ts <= head[p.id].last => p.ts \in MemPts(p.id)

\* While the store runs, memory is what is on disk and the interval's points; the log that
\* may go is in the tails, as is what the rotation has passed.
RunInv ==
    status = "running" =>
        /\ seq = dSeq /\ rotSeq <= seq /\ logBound <= seq
        /\ \A i \in Ids : MemPts(i) = DiskPts(i) \cup TimesOf(points, i)
        /\ \A p \in points : /\ dTail[p.id].last < p.ts
                             /\ \A e \in dLog : e.id = p.id => e.ts < p.ts
        /\ \A e \in dLog : e.seq < logBound => e.ts <= dTail[e.id].last
        /\ \A e \in dLog : e.seq < rotSeq /\ e.id \notin rotTodo => e.ts <= dTail[e.id].last

LogInv == DiskLogInv /\ ReplayInv /\ RunInv

\* The whole of it.
IndInv == TypeOK /\ IdsInv /\ SeriesInv /\ LogInv
=============================================================================
