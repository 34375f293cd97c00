-------------------------- MODULE SpanQueriesProofs --------------------------
(***************************************************************************)
(* A query's answer is complete, for any number of spans, series and       *)
(* faults, and any interleaving with the store (SpanQueries).              *)
(***************************************************************************)
EXTENDS SpanQueries, SpanHandoffProofs

-----------------------------------------------------------------------------
(* What a step of the store does to what a query relies on.                *)

\* A commit that reached redb, of closed spans only.
LEMMA CommitCloses ==
    ASSUME HandoffInv, ClosedInv, Running, NEW p, PassSound(txn.chunks \cup sealed, p),
           db' = Committed(p)
    PROVE  (\A c \in db.chunks : Closed(c[1], db.now))' /\ (\A c \in db.open : c[1] <= db.now)'
<1>1. db'.chunks = (txn.chunks \cup sealed) \ p.gone /\ db'.now = now /\ db'.open = open
  BY DEF Committed, Written
<1>2. txn.chunks \subseteq db.chunks /\ db.now <= now
  BY DEF HandoffInv, TxnInv, HeadInv
<1>3. /\ now \in Times /\ db.now \in Times /\ db.chunks \subseteq Spans \X Series
      /\ sealed \subseteq Spans \X Series
  BY DEF HandoffInv, HandoffTypeOK, TypeOK
<1>4. \A c \in txn.chunks \cup sealed : Closed(c[1], now)
  <2>1. \A c \in db.chunks : Closed(c[1], now)
    <3>1. \A c \in db.chunks : c[1] \in Spans /\ Closed(c[1], db.now)
      BY <1>3 DEF ClosedInv
    <3> QED
      BY <1>2, <1>3, <3>1, HandoffAssumption DEF Closed, Spans, Times
  <2> QED
    BY <1>2, <2>1 DEF ClosedInv
<1> QED
  BY <1>1, <1>4 DEF ClosedInv

\* Every step keeps ClosedInv: a chunk is sealed when hub time leaves its span.
LEMMA ClosedStep ==
    ASSUME HandoffInv, ClosedInv, [Next]_vars
    PROVE  ClosedInv'
<1>0. /\ now \in Times /\ open \subseteq Spans \X Series /\ sealed \subseteq Spans \X Series
      /\ db.now \in Times /\ db.open \subseteq Spans \X Series /\ HandoffTypeOK
  BY DEF HandoffInv, HandoffTypeOK, TypeOK
<1>1. ASSUME NEW x \in Series, NEW sys \in Times, AppendPoint(x, sys) PROVE ClosedInv'
  <2>1. PICK t : t = HubNow(sys)
    OBVIOUS
  <2>2. /\ open' = (open \ {c \in open : c[2] = x /\ c[1] # t}) \cup {<<t, x>>}
        /\ sealed' = sealed \cup {c \in open : c[2] = x /\ c[1] # t} /\ now' = t /\ db' = db
        /\ Running
    BY <1>1, <2>1 DEF AppendPoint, Running
  <2>3. t \in Times /\ now <= t
    BY <1>0, <2>1, HubNowForward
  <2>4. \A c \in sealed : c[1] \in Spans /\ Closed(c[1], now)
    BY <1>0, <2>2 DEF ClosedInv
  <2>5. \A c \in open : c[1] \in Spans /\ c[1] <= now
    BY <1>0, <2>2 DEF ClosedInv
  <2>6. \A c \in sealed' : Closed(c[1], t)
    BY <1>0, <2>2, <2>3, <2>4, <2>5, HandoffAssumption DEF Closed, Spans, Times
  <2>7. \A c \in open' : c[1] <= t
    BY <1>0, <2>2, <2>3, <2>5, HandoffAssumption DEF Spans, Times
  <2> QED
    BY <2>2, <2>6, <2>7 DEF ClosedInv
<1>2. ASSUME NEW sys \in Times, Sweep(sys) PROVE ClosedInv'
  <2>1. PICK t : t = HubNow(sys)
    OBVIOUS
  <2>2. /\ open' = open \ {c \in open : Closed(c[1], t)}
        /\ sealed' = sealed \cup {c \in open : Closed(c[1], t)} /\ now' = t /\ db' = db
        /\ Running
    BY <1>2, <2>1 DEF Sweep, Running
  <2>3. t \in Times /\ now <= t
    BY <1>0, <2>1, HubNowForward
  <2>4. \A c \in sealed : c[1] \in Spans /\ Closed(c[1], now)
    BY <1>0, <2>2 DEF ClosedInv
  <2>5. \A c \in open : c[1] \in Spans /\ c[1] <= now
    BY <1>0, <2>2 DEF ClosedInv
  <2>6. \A c \in sealed' : Closed(c[1], t)
    BY <1>0, <2>2, <2>3, <2>4, HandoffAssumption DEF Closed, Spans, Times
  <2>7. \A c \in open' : c[1] <= t
    BY <1>0, <2>2, <2>3, <2>5, HandoffAssumption DEF Spans, Times
  <2> QED
    BY <2>2, <2>6, <2>7 DEF ClosedInv
<1>3. ASSUME NEW sys \in Times, NEW r \in Times, PassBegin(sys, r) PROVE ClosedInv'
  <2>1. now' = HubNow(sys) /\ open' = open /\ sealed' = sealed /\ db' = db /\ Running
    BY <1>3 DEF PassBegin, Running
  <2>2. now' \in Times /\ now <= now'
    BY <1>0, <2>1, HubNowForward
  <2>3. \A c \in sealed : c[1] \in Spans /\ Closed(c[1], now)
    BY <1>0, <2>1 DEF ClosedInv
  <2>4. \A c \in open : c[1] \in Spans /\ c[1] <= now
    BY <1>0, <2>1 DEF ClosedInv
  <2>5. (\A c \in sealed : Closed(c[1], now')) /\ (\A c \in open : c[1] <= now')
    BY <1>0, <2>2, <2>3, <2>4, HandoffAssumption DEF Closed, Spans, Times
  <2> QED
    BY <2>1, <2>5 DEF ClosedInv
<1>4. ASSUME NEW sys \in Times, NEW r \in Times, Open(sys, r) PROVE ClosedInv'
  <2>1. CASE status' = "refused"
    <3>1. db' = db /\ ~Running'
      BY <1>4, <2>1 DEF Open, Opens, Running
    <3> QED
      BY <3>1 DEF ClosedInv
  <2>2. CASE status' # "refused"
    <3>1. PICK t : t = IF sys > db.now THEN sys ELSE db.now
      OBVIOUS
    <3>2. Opens(t, r)
      BY <1>4, <2>2, <3>1 DEF Open
    <3>3. /\ open' = db.open \ {c \in db.open : Closed(c[1], t)}
          /\ sealed' = {c \in db.open : Closed(c[1], t)} /\ now' = t
          /\ db' = [db EXCEPT !.pend = {}]
      BY <3>2 DEF Opens
    <3>4. db'.chunks = db.chunks /\ db'.open = db.open /\ db'.now = db.now
      BY <3>3 DEF HandoffInv, HandoffTypeOK, TypeOK
    <3>5. t \in Times /\ db.now <= t
      BY <1>0, <3>1, HandoffAssumption DEF Times
    <3>6. \A c \in db.open : c[1] \in Spans /\ c[1] <= db.now
      BY <1>0 DEF ClosedInv
    <3>7. \A c \in open' : c[1] <= t
      BY <1>0, <3>3, <3>5, <3>6, HandoffAssumption DEF Spans, Times
    <3> QED
      BY <3>3, <3>4, <3>7 DEF ClosedInv
  <2> QED
    BY <2>1, <2>2
<1>5. CASE Commit
  <2>1. PICK p : p = PassStep(txn.chunks \cup sealed)
    OBVIOUS
  <2>2. db' = Committed(p) /\ Running /\ sealed' = {} /\ open' = open /\ now' = now
    BY <1>5, <2>1 DEF Commit, Running
  <2>3. PassSound(txn.chunks \cup sealed, p)
    BY <2>1, <2>2, PassStepSound
  <2> QED
    BY <2>2, <2>3, CommitCloses DEF ClosedInv
<1>6. CASE CommitFails
  <2>1. PICK p : p = PassStep(txn.chunks \cup sealed)
    OBVIOUS
  <2>2. (db' = Committed(p) \/ db' = db) /\ Running /\ ~Running'
    BY <1>6, <2>1 DEF CommitFails, Running
  <2>3. PassSound(txn.chunks \cup sealed, p)
    BY <2>1, <2>2, PassStepSound
  <2> QED
    BY <2>2, <2>3, CommitCloses DEF ClosedInv
<1>7. CASE BacklogStops \/ Crash
  <2>1. db' = db /\ ~Running'
    BY <1>7 DEF BacklogStops, Crash, Running
  <2> QED
    BY <2>1 DEF ClosedInv
<1>8. CASE \/ Receive \/ ReadSpan \/ WriteSpan \/ WriteSpanFails \/ Unlink \/ UnlinkFails
           \/ UNCHANGED vars
  <2>1. UNCHANGED <<db, now, open, sealed>> /\ (Running' => Running)
    BY <1>8 DEF Receive, ReadSpan, WriteSpan, WriteSpanFails, Unlink, UnlinkFails, vars, head, Running
  <2> QED
    BY <2>1 DEF ClosedInv
<1> QED
  BY <1>1, <1>2, <1>3, <1>4, <1>5, <1>6, <1>7, <1>8 DEF Next

\* The steps that leave a running store running, by what they do to the head, the tables and
\* the files.
LEMMA RunningSteps ==
    ASSUME [Next]_vars, Running, Running'
    PROVE  \/ \E x \in Series, sys \in Times : AppendPoint(x, sys)
           \/ \E sys \in Times : Sweep(sys)
           \/ \E sys, r \in Times : PassBegin(sys, r)
           \/ Commit
           \/ UNCHANGED <<db, now, open, sealed, waiting>>
<1>1. ASSUME NEW sys, NEW r PROVE ~Open(sys, r)
  BY DEF Open, Running
<1>2. ~CommitFails /\ ~BacklogStops /\ ~Crash
  BY DEF CommitFails, BacklogStops, Crash, Running
<1>3. Receive \/ ReadSpan \/ WriteSpan \/ WriteSpanFails \/ Unlink \/ UnlinkFails \/ UNCHANGED vars
        => UNCHANGED <<db, now, open, sealed, waiting>>
  BY DEF Receive, ReadSpan, WriteSpan, WriteSpanFails, Unlink, UnlinkFails, vars, head, handoffs
<1> QED
  BY <1>1, <1>2, <1>3 DEF Next

\* A unit that has left the head stays out of it while the store runs.
LEMMA LeftHeadStays ==
    ASSUME HandoffInv, [Next]_vars, Running, Running', NEW c \in Spans \X Series, LeftHead(c)
    PROVE  LeftHead(c)'
<1>0. HandoffTypeOK /\ now \in Times /\ c[1] \in Spans
  BY DEF HandoffInv, HandoffTypeOK, TypeOK
<1>1. ASSUME NEW x \in Series, NEW sys \in Times, AppendPoint(x, sys) PROVE LeftHead(c)'
  <2>1. PICK t : t = HubNow(sys)
    OBVIOUS
  <2>2. /\ open' = (open \ {e \in open : e[2] = x /\ e[1] # t}) \cup {<<t, x>>}
        /\ sealed' = sealed \cup {e \in open : e[2] = x /\ e[1] # t} /\ now' = t
    BY <1>1, <2>1 DEF AppendPoint
  <2>3. t \in Times /\ now <= t
    BY <1>0, <2>1, HubNowForward
  <2>4. Closed(c[1], t) /\ c[1] # t
    BY <1>0, <2>3, HandoffAssumption DEF LeftHead, Closed, Spans, Times
  <2>5. c # <<t, x>>
    BY <2>4
  <2> QED
    BY <2>2, <2>4, <2>5 DEF LeftHead
<1>2. ASSUME NEW sys \in Times, Sweep(sys) PROVE LeftHead(c)'
  <2>1. /\ open' \subseteq open /\ sealed' \subseteq sealed \cup open /\ now' = HubNow(sys)
    BY <1>2 DEF Sweep
  <2>2. now' \in Times /\ now <= now'
    BY <1>0, <2>1, HubNowForward
  <2>3. Closed(c[1], now')
    BY <1>0, <2>2, HandoffAssumption DEF LeftHead, Closed, Spans, Times
  <2> QED
    BY <2>1, <2>3 DEF LeftHead
<1>3. ASSUME NEW sys \in Times, NEW r \in Times, PassBegin(sys, r) PROVE LeftHead(c)'
  <2>1. open' = open /\ sealed' = sealed /\ now' = HubNow(sys)
    BY <1>3 DEF PassBegin
  <2>2. now' \in Times /\ now <= now'
    BY <1>0, <2>1, HubNowForward
  <2>3. Closed(c[1], now')
    BY <1>0, <2>2, HandoffAssumption DEF LeftHead, Closed, Spans, Times
  <2> QED
    BY <2>1, <2>3 DEF LeftHead
<1>4. CASE Commit
  BY <1>4 DEF Commit, LeftHead
<1>5. CASE UNCHANGED <<db, now, open, sealed, waiting>>
  BY <1>5 DEF LeftHead
<1> QED
  BY <1>1, <1>2, <1>3, <1>4, <1>5, RunningSteps

\* A settled span stays settled while the store runs.
LEMMA SettledStays ==
    ASSUME HandoffInv, [Next]_vars, Running, Running', NEW s \in Spans, Settled(s)
    PROVE  Settled(s)'
<1>0. /\ HandoffTypeOK /\ now \in Times /\ db.now \in Times /\ db.now <= now
      /\ Closed(s, db.now) /\ s \notin SpansOf(db.chunks) /\ s \notin SpansOf(db.open)
      /\ s \notin SpansOf(open) /\ s \notin SpansOf(sealed) /\ s \notin waiting
  BY DEF HandoffInv, HandoffTypeOK, TypeOK, HeadInv, Settled
<1>1. Closed(s, now)
  BY <1>0, HandoffAssumption DEF Closed, Spans, Times
<1>2. ASSUME NEW x \in Series, NEW sys \in Times, AppendPoint(x, sys) PROVE Settled(s)'
  <2>1. PICK t : t = HubNow(sys)
    OBVIOUS
  <2>2. /\ open' \subseteq open \cup {<<t, x>>} /\ sealed' \subseteq sealed \cup open
        /\ db' = db /\ waiting' = waiting
    BY <1>2, <2>1 DEF AppendPoint, handoffs
  <2>3. t \in Times /\ now <= t
    BY <1>0, <2>1, HubNowForward
  <2>4. s # t
    BY <1>0, <1>1, <2>3, HandoffAssumption DEF Closed, Spans, Times
  <2>5. s \notin SpansOf(open') /\ s \notin SpansOf(sealed')
    BY <1>0, <2>2, <2>4 DEF SpansOf
  <2> QED
    BY <1>0, <2>2, <2>5 DEF Settled
<1>3. ASSUME NEW sys \in Times, Sweep(sys) PROVE Settled(s)'
  <2>1. open' \subseteq open /\ sealed' \subseteq sealed \cup open /\ db' = db /\ waiting' = waiting
    BY <1>3 DEF Sweep
  <2>2. s \notin SpansOf(open') /\ s \notin SpansOf(sealed')
    BY <1>0, <2>1 DEF SpansOf
  <2> QED
    BY <1>0, <2>1, <2>2 DEF Settled
<1>4. ASSUME NEW sys \in Times, NEW r \in Times, PassBegin(sys, r) PROVE Settled(s)'
  <2>1. open' = open /\ sealed' = sealed /\ db' = db /\ waiting' = waiting
    BY <1>4 DEF PassBegin, handoffs
  <2> QED
    BY <1>0, <2>1 DEF Settled
<1>5. CASE Commit
  <2>1. PICK p : p = PassStep(txn.chunks \cup sealed)
    OBVIOUS
  <2>2. /\ db' = Committed(p) /\ sealed' = {} /\ open' = open
        /\ waiting' \subseteq waiting \cup SpansOf(sealed)
    BY <1>5, <2>1 DEF Commit
  <2>3. db'.chunks \subseteq txn.chunks \cup sealed /\ db'.now = now /\ db'.open = open
    BY <2>2 DEF Committed, Written
  <2>4. txn.chunks \subseteq db.chunks
    BY DEF HandoffInv, TxnInv
  <2>5. s \notin SpansOf(db'.chunks) /\ s \notin SpansOf(sealed') /\ s \notin waiting'
    BY <1>0, <2>2, <2>3, <2>4 DEF SpansOf
  <2> QED
    BY <1>0, <1>1, <2>2, <2>3, <2>5 DEF Settled
<1>6. CASE UNCHANGED <<db, now, open, sealed, waiting>>
  BY <1>0, <1>6 DEF Settled
<1> QED
  BY <1>2, <1>3, <1>4, <1>5, <1>6, RunningSteps

\* The file of a settled span may be unlinked, and is never written again.
LEMMA SettledFile ==
    ASSUME HandoffInv, [Next]_vars, Running, Running', NEW s \in Spans, Settled(s)
    PROVE  files'[s] = files[s] \/ files'[s] = NoFile
<1>0. files \in [Spans -> (SUBSET Series) \cup {NoFile}]
  BY DEF HandoffInv, HandoffTypeOK, TypeOK
<1>1. CASE WriteSpan
  <2>1. bw.span \in inFlight /\ bw.span \in Spans
    BY <1>1, InFlightNotSettled DEF WriteSpan
  <2>2. s # bw.span
    BY <2>1, InFlightNotSettled
  <2>3. files' = files \/ files' = [files EXCEPT ![bw.span] = bw.held]
    BY <1>1 DEF WriteSpan
  <2> QED
    BY <1>0, <2>1, <2>2, <2>3
<1>2. CASE Unlink
  <2>1. PICK z : files' = [files EXCEPT ![z] = NoFile]
    BY <1>2 DEF Unlink
  <2> QED
    BY <1>0, <2>1
<1>3. ASSUME ~WriteSpan, ~Unlink PROVE files' = files
  <2>1. ASSUME NEW sys, NEW r PROVE ~Open(sys, r)
    BY DEF Open, Running
  <2>2. ~CommitFails /\ ~BacklogStops /\ ~Crash
    BY DEF CommitFails, BacklogStops, Crash, Running
  <2> QED
    BY <1>3, <2>1, <2>2 DEF Next, AppendPoint, Sweep, PassBegin, Receive, Commit, ReadSpan, WriteSpanFails,
                            UnlinkFails, vars
<1> QED
  BY <1>1, <1>2, <1>3

-----------------------------------------------------------------------------
(* A query's own steps.                                                    *)

\* What the type of a query says at each step.
LEMMA QueryShape ==
    ASSUME q \in QueryType
    PROVE  /\ q.pc \in {"none", "viewed", "reading", "summary", "done"}
           /\ q.pc \in {"viewed", "reading", "summary"} => q.x \in Series /\ q.s \in Spans
           /\ q.pc = "viewed" =>
                 q \in [pc : {"viewed"}, x : Series, s : Spans, unsealed : BOOLEAN, pending : BOOLEAN,
                       reach : BOOLEAN, held : BOOLEAN]
           /\ q.pc \in {"reading", "summary"} =>
                 q \in [pc : {"reading", "summary"}, x : Series, s : Spans, fromHead : BOOLEAN,
                       reach : BOOLEAN, live : BOOLEAN, row : BOOLEAN, chunk : BOOLEAN, due : BOOLEAN]
BY DEF QueryType, NoQuery

\* A query changes nothing of the store but the entry of the file it reads.
LEMMA QueryKeepsStore ==
    ASSUME HandoffInv, ClosedInv, QueryInv, QueryStep
    PROVE  HandoffInv' /\ ClosedInv'
<1>1. /\ UNCHANGED <<db, files, unsynced, status, txn, now, ret, open, sealed, waiting, inFlight,
                     failed, due, landed, stage, jobs, bw, inbox>>
      /\ known' \in [Spans -> {"none", "readable", "unreadable"}]
  <2>0. known \in [Spans -> {"none", "readable", "unreadable"}]
    BY DEF HandoffInv, HandoffTypeOK, TypeOK
  <2>1. CASE ReadSummary
    <3>1. PICK state \in {"none", "readable", "unreadable"} : known' = [known EXCEPT ![q.s] = state]
      <4>1. q.s \in Spans
        BY <2>1, QueryShape DEF ReadSummary, ReadsFile, QueryInv
      <4>2. known[q.s] \in {"none", "readable", "unreadable"}
        BY <2>0, <4>1
      <4> QED
        BY <2>1, <4>2 DEF ReadSummary
    <3>2. known' \in [Spans -> {"none", "readable", "unreadable"}]
      BY <2>0, <3>1
    <3> QED
      BY <2>1, <3>2 DEF ReadSummary, head, handoffs, threads
  <2>2. ASSUME UNCHANGED vars
        PROVE  /\ UNCHANGED <<db, files, unsynced, status, txn, now, ret, open, sealed, waiting, inFlight,
                              failed, due, landed, stage, jobs, bw, inbox>>
               /\ known' = known
    BY <2>2 DEF vars, head, handoffs, threads
  <2> QED
    BY <2>0, <2>1, <2>2 DEF QueryStep, View, BeginRead, ReadChunks, ReadSeries, Returned
<1>0. HandoffTypeOK /\ SettledInv /\ FilesInv /\ HeadInv /\ TxnInv /\ HeldInv /\ PlacesInv /\ FlightInv
      /\ PassInv
  BY DEF HandoffInv
<1>2. HandoffTypeOK' /\ HeadInv' /\ FlightInv'
  BY <1>0, <1>1 DEF HandoffTypeOK, TypeOK, HeadInv, FlightInv, Running
<1>3. SettledInv'
  <2>1. HasRow(db.rows)' = HasRow(db.rows) /\ Undone' = Undone /\ Unlinking' = Unlinking /\ Running' = Running
    BY <1>1 DEF HasRow, Undone, Unlinking, Running
  <2>2. \A s : Settled(s) => Settled(s)'
    BY <1>1 DEF Settled, Running
  <2> QED
    BY <1>0, <1>1, <2>1, <2>2 DEF SettledInv
<1>4. FilesInv' /\ TxnInv' /\ HeldInv' /\ PlacesInv' /\ PassInv'
  BY <1>0, <1>1, FilesSame, TxnSame, HeldSame, PlacesSame, PassSame
<1>5. ClosedInv'
  BY <1>1 DEF ClosedInv, Running
<1> QED
  BY <1>2, <1>3, <1>4, <1>5 DEF HandoffInv

\* The store's steps leave a query what it relies on, or end it.
LEMMA StoreKeepsQuery ==
    ASSUME HandoffInv, QueryInv, [Next]_vars, q' = IF status' = "running" THEN q ELSE NoQuery
    PROVE  QueryInv'
<1>1. CASE ~Running' \/ q.pc = "none"
  <2>1. q'.pc = "none" /\ q' \in QueryType
    BY <1>1, QueryShape DEF NoQuery, Running, QueryType, QueryInv
  <2> QED
    BY <2>1 DEF QueryInv, QueryComplete
<1>2. CASE Running' /\ q.pc # "none"
  <2>1. Running /\ Running' /\ q' = q
    BY <1>2 DEF QueryInv, Running
  <2>2. q.pc = "viewed" /\ q.held /\ ~q.unsealed /\ ~q.pending => LeftHead(<<q.s, q.x>>)'
    <3>1. q.pc = "viewed" => <<q.s, q.x>> \in Spans \X Series
      BY QueryShape DEF QueryInv
    <3>2. PICK c : c = <<q.s, q.x>>
      OBVIOUS
    <3>3. q.pc = "viewed" /\ q.held /\ ~q.unsealed /\ ~q.pending => LeftHead(c)'
      BY <2>1, <3>1, <3>2, LeftHeadStays DEF QueryInv
    <3>4. c[1] = q.s
      BY <3>2
    <3> QED
      BY <2>1, <3>2, <3>3, <3>4 DEF LeftHead
  <2>3. q.pc \in {"reading", "summary"} /\ q.row =>
            Settled(q.s)' /\ (files'[q.s] = files[q.s] \/ files'[q.s] = NoFile)
    <3>1. ASSUME NEW s \in Spans, Settled(s)
          PROVE  Settled(s)' /\ (files'[s] = files[s] \/ files'[s] = NoFile)
      BY <2>1, <3>1, SettledStays, SettledFile
    <3>2. q.pc \in {"reading", "summary"} /\ q.row => q.s \in Spans /\ Settled(q.s)
      BY QueryShape DEF QueryInv
    <3> QED
      BY <2>1, <3>1, <3>2 DEF Settled
  <2> QED
    BY <2>1, <2>2, <2>3 DEF QueryInv, QueryComplete
<1> QED
  BY <1>1, <1>2

\* What is anywhere in the store and not in the head is of a closed span.
LEMMA StoredClosed ==
    ASSUME HandoffInv, ClosedInv, Running, NEW s \in Spans, NEW x \in Series,
           <<s, x>> \in db.chunks \cup Rowed(db)
    PROVE  /\ Closed(s, now)
           /\ <<s, x>> \notin db.chunks => db.rows[s] # NoRow /\ x \in db.rows[s]
<1>1. db.now <= now /\ db.now \in Times /\ now \in Times
  BY DEF HandoffInv, HeadInv, HandoffTypeOK, TypeOK
<1>2. <<s, x>> \in Rowed(db) => s \in HasRow(db.rows) /\ x \in db.rows[s]
  BY DEF Rowed
<1>3. Closed(s, db.now)
  <2>1. CASE <<s, x>> \in db.chunks
    <3>1. PICK c \in db.chunks : c = <<s, x>>
      BY <2>1
    <3>2. Closed(c[1], db.now) /\ c[1] = s
      BY <3>1 DEF ClosedInv
    <3> QED
      BY <3>2
  <2>2. CASE s \in HasRow(db.rows)
    BY <2>2 DEF HandoffInv, SettledInv, Settled
  <2> QED
    BY <1>2, <2>1, <2>2
<1>4. Closed(s, now)
  BY <1>1, <1>3, HandoffAssumption DEF Closed, Spans, Times
<1> QED
  BY <1>2, <1>4 DEF HasRow

\* The copy of the head: what it lacks of the series' data in the span has left the head.
LEMMA ViewKeeps ==
    ASSUME HandoffInv, ClosedInv, NEW x \in Series, NEW s \in Spans, View(x, s)
    PROVE  QueryInv'
<1>1. PICK c : c = <<s, x>>
  OBVIOUS
<1>2. /\ Running /\ Running' /\ UNCHANGED <<now, open, sealed>>
  BY DEF View, Running, vars, head
<1>3. /\ q'.pc = "viewed" /\ q'.x = x /\ q'.s = s
      /\ q'.unsealed = (c \in open) /\ q'.pending = (c \in sealed)
      /\ q'.reach = (\E e \in Anywhere \ open : e[2] = x /\ e[1] >= s)
      /\ q'.held = (c \in Anywhere) /\ q' \in QueryType
  BY <1>1 DEF View, QueryType
<1>4. ASSUME c \in Anywhere, c \notin open, c \notin sealed
      PROVE  (\E e \in Anywhere \ open : e[2] = x /\ e[1] >= s) /\ Closed(s, now)
  <2>1. c \in db.chunks \cup Rowed(db)
    BY <1>4 DEF Anywhere
  <2>2. Closed(s, now)
    BY <1>1, <1>2, <2>1, StoredClosed
  <2>3. c[2] = x /\ c[1] = s /\ s >= s
    BY <1>1 DEF Spans
  <2> QED
    BY <1>4, <2>2, <2>3
<1>5. q'.held /\ ~q'.unsealed /\ ~q'.pending => q'.reach /\ LeftHead(c)'
  <2>1. c[1] = s
    BY <1>1
  <2> QED
    BY <1>2, <1>3, <1>4, <2>1 DEF LeftHead
<1>6. c = <<q'.s, q'.x>>
  BY <1>1, <1>3
<1>7. q'.held /\ ~q'.unsealed /\ ~q'.pending => q'.reach /\ LeftHead(<<q.s, q.x>>)'
  BY <1>5, <1>6 DEF LeftHead
<1> QED
  BY <1>2, <1>3, <1>7 DEF QueryInv, QueryComplete

\* The read transaction: what the copy lacks it has in `chunks` or names the file of.
LEMMA BeginReadKeeps ==
    ASSUME HandoffInv, ClosedInv, QueryInv, BeginRead
    PROVE  QueryInv'
<1>1. PICK x \in Series, s \in Spans : x = q.x /\ s = q.s
  BY QueryShape DEF BeginRead, QueryInv
<1>2. PICK c : c = <<s, x>>
  OBVIOUS
<1>3. /\ Running /\ Running' /\ UNCHANGED <<db, files, now, open, sealed, waiting>>
  BY DEF BeginRead, Running, vars, head, handoffs
<1>4. /\ q'.pc = "reading" /\ q'.x = x /\ q'.s = s
      /\ q'.fromHead = (q.unsealed \/ q.pending) /\ q'.reach = q.reach
      /\ q'.row = (db.rows[s] # NoRow) /\ q'.chunk = (c \in db.chunks)
      /\ q'.due = (q.held /\ c \in Anywhere) /\ q' \in QueryType
  <2>1. q \in [pc : {"viewed"}, x : Series, s : Spans, unsealed : BOOLEAN, pending : BOOLEAN,
              reach : BOOLEAN, held : BOOLEAN]
    BY QueryShape DEF BeginRead, QueryInv
  <2> QED
    BY <1>1, <1>2, <2>1 DEF BeginRead, QueryType
<1>5. db.rows[s] # NoRow => Settled(s) /\ files[s] = db.rows[s] /\ c \notin db.chunks
  <2>1. db.rows[s] # NoRow => s \in HasRow(db.rows)
    BY DEF HasRow
  <2>2. db.rows[s] # NoRow => Settled(s) /\ files[s] = db.rows[s]
    BY <2>1 DEF HandoffInv, SettledInv, FilesInv
  <2>3. Settled(s) => c \notin db.chunks
    BY <1>2 DEF Settled, SpansOf
  <2> QED
    BY <2>2, <2>3
<1>6. ASSUME q.held, ~q.unsealed, ~q.pending, c \in Anywhere
      PROVE  /\ q.reach /\ (db.rows[s] # NoRow \/ c \in db.chunks)
             /\ db.rows[s] # NoRow => x \in files[s]
  <2>1. q.reach /\ LeftHead(<<q.s, q.x>>)
    BY <1>6 DEF QueryInv, BeginRead
  <2>2. LeftHead(c)
    BY <1>1, <1>2, <2>1
  <2>3. <<s, x>> \in db.chunks \cup Rowed(db)
    BY <1>2, <1>6, <2>2 DEF LeftHead, Anywhere
  <2>4. c \notin db.chunks => db.rows[s] # NoRow /\ x \in db.rows[s]
    BY <1>2, <1>3, <2>3, StoredClosed
  <2> QED
    BY <1>5, <2>1, <2>4
<1>7. q'.row => Settled(q.s)'
  BY <1>3, <1>4, <1>5 DEF Settled
<1>8. q'.due /\ q'.live /\ ~q'.fromHead =>
          /\ q'.reach /\ (q'.row \/ q'.chunk)
          /\ q'.row => files'[q'.s] = NoFile \/ q'.x \in files'[q'.s]
  BY <1>3, <1>4, <1>6
<1> QED
  BY <1>3, <1>4, <1>7, <1>8 DEF QueryInv, QueryComplete

\* The answer: from `chunks`, from the file, or Corrupt when the file is gone.
LEMMA AnswerKeeps ==
    ASSUME QueryInv, ReadChunks \/ ReadSummary \/ ReadSeries \/ Returned
    PROVE  QueryInv'
<1>r. Running' = Running
  BY DEF ReadChunks, ReadSummary, ReadSeries, Returned, Running, vars
<1>0. /\ q \in QueryType
      /\ q.pc \in {"reading", "summary"} =>
           q \in [pc : {"reading", "summary"}, x : Series, s : Spans, fromHead : BOOLEAN, reach : BOOLEAN,
                 live : BOOLEAN, row : BOOLEAN, chunk : BOOLEAN, due : BOOLEAN]
  BY QueryShape DEF QueryInv
<1>a. ASSUME NEW found \in {"yes", "no", "corrupt"}, q.pc \in {"reading", "summary"}, Done(found)
      PROVE  q' \in QueryType
  BY <1>0, <1>a DEF Done, QueryType
<1>1. CASE ReadChunks
  <2>1. q.pc = "reading" /\ ~(q.live /\ q.reach /\ q.row) /\ Running
    BY <1>1 DEF ReadChunks, ReadsFile, QueryInv
  <2>2. /\ q'.pc = "done" /\ q'.live = q.live /\ q'.due = q.due
        /\ q'.found = IF q.live /\ ((q.reach /\ q.chunk) \/ q.fromHead) THEN "yes" ELSE "no"
        /\ q' \in QueryType
    BY <1>1, <1>a, <2>1 DEF ReadChunks, Done, Answers
  <2>3. q.due /\ q.live /\ ~q.fromHead => q.reach /\ (q.row \/ q.chunk)
    BY <2>1 DEF QueryInv
  <2> QED
    BY <1>r, <2>1, <2>2, <2>3 DEF QueryInv, QueryComplete
<1>2. CASE ReadSummary
  <2>1. q.pc = "reading" /\ q.live /\ q.reach /\ q.row /\ Running
    BY <1>2 DEF ReadSummary, ReadsFile, QueryInv
  <2>2. UNCHANGED <<db, files, status, now, open, sealed, waiting>>
    BY <1>2 DEF ReadSummary, head, handoffs
  <2>3. CASE q' = [q EXCEPT !.pc = "summary"]
    <3>1. q' \in QueryType /\ q'.pc = "summary" /\ q'.x = q.x /\ q'.s = q.s /\ q'.fromHead = q.fromHead
          /\ q'.reach = q.reach /\ q'.live = q.live /\ q'.row = q.row /\ q'.chunk = q.chunk /\ q'.due = q.due
      BY <1>0, <2>1, <2>3 DEF QueryType
    <3> QED
      BY <1>r, <2>1, <2>2, <3>1 DEF QueryInv, QueryComplete, Settled
  <2>4. CASE Done("corrupt")
    <3>1. q'.pc = "done" /\ q'.live = q.live /\ q'.found = "corrupt" /\ q' \in QueryType
      BY <1>a, <2>1, <2>4 DEF Done
    <3> QED
      BY <1>r, <2>1, <3>1 DEF QueryInv, QueryComplete
  <2> QED
    BY <1>2, <2>3, <2>4 DEF ReadSummary
<1>3. CASE ReadSeries
  <2>1. /\ q.pc = "summary" /\ q.row /\ Running
        /\ q.due /\ q.live /\ ~q.fromHead => files[q.s] = NoFile \/ q.x \in files[q.s]
    BY <1>3 DEF ReadSeries, QueryInv
  <2>2. CASE files[q.s] = NoFile
    <3>1. q'.pc = "done" /\ q'.live = q.live /\ q'.found = "corrupt" /\ q' \in QueryType
      BY <1>3, <1>a, <2>1, <2>2 DEF ReadSeries, Done
    <3> QED
      BY <1>r, <2>1, <3>1 DEF QueryInv, QueryComplete
  <2>3. CASE files[q.s] # NoFile
    <3>1. /\ q'.pc = "done" /\ q'.live = q.live /\ q'.due = q.due
          /\ q'.found = IF q.live /\ (q.x \in files[q.s] \/ q.fromHead) THEN "yes" ELSE "no"
          /\ q' \in QueryType
      BY <1>3, <1>a, <2>1, <2>3 DEF ReadSeries, Done, Answers
    <3> QED
      BY <1>r, <2>1, <2>3, <3>1 DEF QueryInv, QueryComplete
  <2> QED
    BY <2>2, <2>3
<1>4. CASE Returned
  <2>1. q'.pc = "none" /\ q' \in QueryType
    BY <1>4 DEF Returned, NoQuery, QueryType
  <2> QED
    BY <2>1 DEF QueryInv, QueryComplete
<1> QED
  BY <1>1, <1>2, <1>3, <1>4

\* A query only adds to the entries in memory.
LEMMA QueryKnows ==
    ASSUME HandoffInv, RowsKnown, QueryStep
    PROVE  RowsKnown'
<1>1. db' = db /\ status' = status
  BY DEF QueryStep, View, BeginRead, ReadChunks, ReadSummary, ReadSeries, Returned, vars
<1>2. \A s \in Spans : known[s] # "none" => known'[s] # "none"
  <2>1. known \in [Spans -> {"none", "readable", "unreadable"}]
    BY DEF HandoffInv, HandoffTypeOK, TypeOK
  <2>2. CASE ReadSummary
    <3>1. PICK k : known' = [known EXCEPT ![q.s] = k] /\ (known[q.s] # "none" => k = known[q.s])
      BY <2>2 DEF ReadSummary
    <3> QED
      BY <2>1, <3>1
  <2>3. CASE ~ReadSummary
    BY <2>3 DEF QueryStep, View, BeginRead, ReadChunks, ReadSeries, Returned, vars
  <2> QED
    BY <2>2, <2>3
<1> QED
  BY <1>1, <1>2 DEF RowsKnown, HasRow

\* A query's answer has everything of a live span the series held both when the head was copied
\* and when the read transaction began, and nothing of a dead one: whatever seals, commits,
\* handoffs, retirements and unlinks come between the query's steps, for any number of series
\* and spans (hub-store/src/store/query.rs).  And no committed row's file is without its entry,
\* whatever a query puts back and a commit evicts.
THEOREM QueryAlwaysComplete == QSpec => []QueriesSound
<1> DEFINE Inv == HandoffInv /\ ClosedInv /\ QueryInv /\ RowsKnown
<1>1. QInit => Inv
  <2> SUFFICES ASSUME QInit PROVE Inv
    OBVIOUS
  <2>1. HandoffInv
    BY InitInv DEF QInit
  <2>2. ClosedInv
    BY DEF QInit, Init, ClosedInv, Running
  <2>3. QueryInv
    BY DEF QInit, NoQuery, QueryType, QueryInv, QueryComplete
  <2>4. RowsKnown
    BY DEF QInit, Init, RowsKnown
  <2> QED
    BY <2>1, <2>2, <2>3, <2>4
<1>2. Inv /\ [QNext]_qvars => Inv'
  <2> SUFFICES ASSUME HandoffInv, ClosedInv, QueryInv, RowsKnown, [QNext]_qvars PROVE Inv'
    OBVIOUS
  <2>1. CASE StoreStep
    BY <2>1, HandoffStep, ClosedStep, StoreKeepsQuery, KnownStep DEF StoreStep
  <2>2. CASE QueryStep
    <3>1. HandoffInv' /\ ClosedInv'
      BY <2>2, QueryKeepsStore
    <3>2. QueryInv'
      BY <2>2, ViewKeeps, BeginReadKeeps, AnswerKeeps DEF QueryStep
    <3>3. RowsKnown'
      BY <2>2, QueryKnows
    <3> QED
      BY <3>1, <3>2, <3>3
  <2>3. CASE UNCHANGED qvars
    <3>1. UNCHANGED vars /\ q' = q
      BY <2>3 DEF qvars
    <3>2. HandoffInv' /\ ClosedInv'
      BY <3>1, HandoffStep, ClosedStep
    <3>3. UNCHANGED <<db, files, status, now, open, sealed, waiting>>
      BY <3>1 DEF vars, head, handoffs
    <3>4. QueryInv'
      BY <3>1, <3>3 DEF QueryInv, QueryComplete, LeftHead, Settled, Running
    <3>5. RowsKnown'
      BY <3>1, KnownStep
    <3> QED
      BY <3>2, <3>4, <3>5
  <2> QED
    BY <2>1, <2>2, <2>3 DEF QNext
<1>3. Inv => QueriesSound
  BY DEF QueryInv, QueriesSound
<1> QED
  BY <1>1, <1>2, <1>3, PTL DEF QSpec
=============================================================================
