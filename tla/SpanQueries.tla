----------------------------- MODULE SpanQueries -----------------------------
(***************************************************************************)
(* A query (hub-store/src/store/query.rs) beside the writer, the block     *)
(* writer and the retention pass of SpanHandoff.  It copies the series'    *)
(* head first, then begins a read transaction, then reads the span's block *)
(* file in two steps, and takes no lock across them.  One query of one     *)
(* series over one span is followed; a wider query repeats the last steps  *)
(* for each of its spans under the same read transaction.                  *)
(***************************************************************************)
EXTENDS SpanHandoff

VARIABLE q   \* the query: where it is, what it copied, what it answers

qvars == <<vars, q>>

NoQuery == [pc |-> "none"]

QInit == Init /\ q = NoQuery

\* The series' data anywhere in the store.
Anywhere == open \cup sealed \cup db.chunks \cup Rowed(db)

\* head_view: the unsealed points, the pending chunks, and whether the series sealed anything
\* in the span or after it (last_span).
View(x, s) ==
    /\ status = "running" /\ q = NoQuery
    /\ q' = [pc |-> "viewed", x |-> x, s |-> s,
             unsealed |-> <<s, x>> \in open, pending |-> <<s, x>> \in sealed,
             reach |-> \E c \in Anywhere \ open : c[2] = x /\ c[1] >= s,
             held |-> <<s, x>> \in Anywhere]
    /\ UNCHANGED vars

\* begin_read: the chunks, the row and the retention clock are those of one commit.
BeginRead ==
    /\ status = "running" /\ q.pc = "viewed"
    /\ q' = [pc |-> "reading", x |-> q.x, s |-> q.s,
             fromHead |-> q.unsealed \/ q.pending, reach |-> q.reach,
             live |-> ~Dead(<<q.s, q.x>>, db.ret),
             row |-> db.rows[q.s] # NoRow, chunk |-> <<q.s, q.x>> \in db.chunks,
             due |-> q.held /\ <<q.s, q.x>> \in Anywhere]
    /\ UNCHANGED vars

ReadsFile == q.pc = "reading" /\ q.live /\ q.reach /\ q.row

AnswersStored(stored) == q.live /\ stored  \* mutant

\* What the query answers, given what it read: nothing of a dead span, and the head's copy
\* merged with the stored chunks.
Answers(stored) == q.live /\ (stored \/ q.fromHead)

Done(found) == q' = [pc |-> "done", live |-> q.live, due |-> q.due, found |-> found]

\* A dead span is skipped, and a span with no row is read from `chunks`.
ReadChunks ==
    /\ q.pc = "reading" /\ ~ReadsFile
    /\ Done(IF Answers(q.reach /\ q.chunk) THEN "yes" ELSE "no")
    /\ UNCHANGED vars

\* series_chunks: the span's entry in memory, else its summary is read and kept.
ReadSummary ==
    LET state == IF known[q.s] # "none" THEN known[q.s]
                 ELSE IF files[q.s] # NoFile THEN "readable" ELSE "unreadable"
    IN
    /\ status = "running" /\ ReadsFile
    /\ known' = [known EXCEPT ![q.s] = state]
    /\ IF state = "readable" THEN q' = [q EXCEPT !.pc = "summary"] ELSE Done("corrupt")
    /\ UNCHANGED <<db, files, unsynced, faults, status, txn, head, handoffs, landed, stage,
                   threads>>

\* read_series: the file is opened and the series' chunks read.
ReadSeries ==
    /\ status = "running" /\ q.pc = "summary"
    /\ IF files[q.s] = NoFile THEN Done("corrupt")
       ELSE Done(IF Answers(q.x \in files[q.s]) THEN "yes" ELSE "no")
    /\ UNCHANGED vars

\* The answer is returned; a crash ends the query with its process.
Returned == q.pc = "done" /\ q' = NoQuery /\ UNCHANGED vars

StoreStep ==
    /\ Next
    /\ q' = IF status' = "running" THEN q ELSE NoQuery

QueryStep ==
    \/ \E x \in Series, s \in Spans : View(x, s)
    \/ BeginRead \/ ReadChunks \/ ReadSummary \/ ReadSeries \/ Returned

QNext == StoreStep \/ QueryStep

QSpec == QInit /\ [][QNext]_qvars

-----------------------------------------------------------------------------
\* What a series held in a live span when the query copied the head, and holds when its read
\* transaction begins, is in the answer, whichever of seal, commit, handoff and landing come
\* in between; and nothing dead is.
QueryComplete ==
    q.pc = "done" =>
        /\ q.due /\ q.live /\ q.found # "corrupt" => q.found = "yes"
        /\ q.found = "yes" => q.live

\* No file is ever damaged here, so a query never answers Corrupt: RFC 0010 §11 has it retry
\* in a fresh read transaction when a retirement unlinked the file it was about to read.
\* The code does not: no configuration claims this, and the README shows the counterexample.
QueryNeverCorrupt == q.pc = "done" => q.found # "corrupt"

\* "The block files as the store knows them: one entry per committed `blocks` row" (blocks.rs).
\* Nor does this hold: a query puts back the entry of a file it read before its retirement.
OneEntryPerRow ==
    status = "running" => {s \in Spans : known[s] # "none"} = HasRow(db.rows)

\* A query's answer is complete, and the entries it puts in memory, and the evictions beside it,
\* leave no committed row's file without one (`Blocks`).
QueriesSound == QueryComplete /\ RowsKnown

-----------------------------------------------------------------------------
(* The inductive invariant the proof of QueryComplete rests on.              *)

\* What is sealed or committed is of closed spans, and nothing is of a span to come.
ClosedInv ==
    /\ \A c \in db.chunks : Closed(c[1], db.now)
    /\ \A c \in db.open : c[1] <= db.now
    /\ Running => /\ \A c \in sealed : Closed(c[1], now)
                  /\ \A c \in open : c[1] <= now

\* A unit that has left the head, and whose span is closed: it does not come back there.
LeftHead(c) == Closed(c[1], now) /\ c \notin open /\ c \notin sealed

\* What a query keeps at each of its steps.
QueryType ==
    {NoQuery}
    \cup [pc : {"viewed"}, x : Series, s : Spans, unsealed : BOOLEAN, pending : BOOLEAN,
          reach : BOOLEAN, held : BOOLEAN]
    \cup [pc : {"reading", "summary"}, x : Series, s : Spans, fromHead : BOOLEAN, reach : BOOLEAN,
          live : BOOLEAN, row : BOOLEAN, chunk : BOOLEAN, due : BOOLEAN]
    \cup [pc : {"done"}, live : BOOLEAN, due : BOOLEAN, found : {"yes", "no", "corrupt"}]

\* What the head's copy lacks has left the head; what neither the copy nor the transaction has
\* in `chunks` is in the file, until that is unlinked for good.
QueryInv ==
    /\ q \in QueryType
    /\ q.pc # "none" => Running
    /\ q.pc = "viewed" /\ q.held /\ ~q.unsealed /\ ~q.pending => q.reach /\ LeftHead(<<q.s, q.x>>)
    /\ q.pc \in {"reading", "summary"} =>
        /\ q.row => Settled(q.s)
        /\ q.due /\ q.live /\ ~q.fromHead =>
               /\ q.reach /\ (q.row \/ q.chunk)
               /\ q.row => files[q.s] = NoFile \/ q.x \in files[q.s]
    /\ q.pc = "summary" => q.row
    /\ QueryComplete
=============================================================================
