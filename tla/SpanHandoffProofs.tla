-------------------------- MODULE SpanHandoffProofs --------------------------
(***************************************************************************)
(* The handoff and the retention pass keep every span's data in one place,  *)
(* for any number of spans, series, faults and crashes (SpanHandoff).       *)
(***************************************************************************)
EXTENDS SpanHandoff, FiniteSetTheorems, TLAPS

-----------------------------------------------------------------------------
(* The queue of the block writer.                                          *)

\* A proper part of a finite set has fewer members.
LEMMA SmallerSet ==
    ASSUME NEW S, NEW T, IsFiniteSet(S), T \subseteq S, T # S
    PROVE  Cardinality(T) \in Nat /\ Cardinality(S) \in Nat /\ Cardinality(T) < Cardinality(S)
<1>1. T \in SUBSET S
  OBVIOUS
<1>2. IsFiniteSet(T) /\ Cardinality(T) <= Cardinality(S) /\ Cardinality(S) # Cardinality(T)
  BY <1>1, FS_Subset
<1>3. Cardinality(T) \in Nat /\ Cardinality(S) \in Nat
  BY <1>2, FS_CardinalityType
<1> QED
  BY <1>2, <1>3

\* Ranks tell the spans of a set apart and number them without a gap.
LEMMA RankNumbers ==
    ASSUME NEW ss \in SUBSET Spans
    PROVE  /\ IsFiniteSet(ss) /\ Cardinality(ss) \in Nat
           /\ \A s \in ss : Rank(s, ss) \in 1..Cardinality(ss)
           /\ \A s, t \in ss : Rank(s, ss) = Rank(t, ss) => s = t
           /\ \A i \in 1..Cardinality(ss) : \E s \in ss : Rank(s, ss) = i
<1> DEFINE Upto(s) == {t \in ss : t <= s}
<1>1. MaxNow \in Nat /\ ss \subseteq Nat /\ \A s \in ss : s <= MaxNow
  BY HandoffAssumption DEF Spans
<1>2. IsFiniteSet(ss) /\ Cardinality(ss) \in Nat
  BY <1>1, FS_BoundedSetOfNaturals, FS_CardinalityType
<1>3. \A s \in ss : IsFiniteSet(Upto(s)) /\ Rank(s, ss) = Cardinality(Upto(s)) /\ Rank(s, ss) \in Nat
                    /\ Rank(s, ss) <= Cardinality(ss)
  <2> SUFFICES ASSUME NEW s \in ss
               PROVE IsFiniteSet(Upto(s)) /\ Rank(s, ss) = Cardinality(Upto(s)) /\ Rank(s, ss) \in Nat
                     /\ Rank(s, ss) <= Cardinality(ss)
    OBVIOUS
  <2>1. Upto(s) \in SUBSET ss
    OBVIOUS
  <2>2. IsFiniteSet(Upto(s)) /\ Cardinality(Upto(s)) <= Cardinality(ss)
    BY <1>2, <2>1, FS_Subset
  <2>3. Rank(s, ss) = Cardinality(Upto(s))
    BY DEF Rank
  <2> HIDE DEF Upto
  <2> QED
    BY <2>2, <2>3, FS_CardinalityType
<1>4. \A s \in ss : Rank(s, ss) # 0
  <2> SUFFICES ASSUME NEW s \in ss, Rank(s, ss) = 0 PROVE FALSE
    OBVIOUS
  <2>1. Upto(s) = {}
    BY <1>3, FS_EmptySet
  <2>2. s \in Upto(s)
    BY <1>1
  <2> QED
    BY <2>1, <2>2
<1>5. \A s, t \in ss : s < t => Rank(s, ss) < Rank(t, ss)
  <2> SUFFICES ASSUME NEW s \in ss, NEW t \in ss, s < t PROVE Rank(s, ss) < Rank(t, ss)
    OBVIOUS
  <2>0. \A u \in ss : u \in Nat
    BY <1>1
  <2>5. \A u \in ss : u <= s => u <= t
    BY <2>0
  <2>1. Upto(s) \subseteq Upto(t) /\ t \in Upto(t) /\ t \notin Upto(s)
    BY <2>0, <2>5
  <2>2. IsFiniteSet(Upto(t))
    BY <1>3
  <2> HIDE DEF Upto
  <2>3. Upto(s) # Upto(t)
    BY <2>1
  <2>4. Cardinality(Upto(s)) < Cardinality(Upto(t))
    BY <2>1, <2>2, <2>3, SmallerSet
  <2> QED
    BY <1>3, <2>4
<1> HIDE DEF Upto
<1>6. \A s, t \in ss : Rank(s, ss) = Rank(t, ss) => s = t
  <2> SUFFICES ASSUME NEW s \in ss, NEW t \in ss, Rank(s, ss) = Rank(t, ss) PROVE s = t
    OBVIOUS
  <2>1. s \in Int /\ t \in Int /\ Rank(s, ss) \in Int /\ Rank(t, ss) \in Int
    BY <1>1, <1>3
  <2> QED
    BY <1>5, <2>1
<1>7. \A i \in 1..Cardinality(ss) : \E s \in ss : Rank(s, ss) = i
  <2> DEFINE N == 1..Cardinality(ss)
             f == [s \in ss |-> Rank(s, ss)]
  <2>1. f \in Injection(ss, N)
    BY <1>2, <1>3, <1>4, <1>6 DEF Injection, IsInjective
  <2>2. IsFiniteSet(N) /\ Cardinality(N) = Cardinality(ss)
    BY <1>2, FS_Interval
  <2>3. f \in Surjection(ss, N)
    BY <1>2, <2>1, <2>2, FS_Injection
  <2> QED
    BY <2>3 DEF Surjection
<1> QED
  BY <1>2, <1>3, <1>4, <1>6, <1>7

\* A function on 1..n is a sequence.
LEMMA SeqOfFunction ==
    ASSUME NEW n \in Nat, NEW S, NEW f \in [1..n -> S]
    PROVE  f \in Seq(S) /\ DOMAIN f = 1..n
OBVIOUS

\* One job for each span of a set, in some order.
OneJobEach(js, what, ss) ==
    /\ js \in Seq(JobType)
    /\ \A i \in DOMAIN js : js[i].op = what /\ js[i].span \in ss
    /\ \A i, j \in DOMAIN js : js[i].span = js[j].span => i = j
    /\ \A s \in ss : \E i \in DOMAIN js : js[i].span = s

\* The jobs made for a set of spans are one for each, and for no other.
LEMMA JobsOneEach ==
    ASSUME NEW ss \in SUBSET Spans, NEW what \in {"hand off", "unlink"}
    PROVE  OneJobEach(Jobs(what, ss), what, ss)
<1>1. PICK n \in Nat : n = Cardinality(ss)
  BY RankNumbers
<1>2. PICK order \in [1..n -> ss] : order = [i \in 1..n |-> CHOOSE s \in ss : Rank(s, ss) = i]
  BY <1>1, RankNumbers
<1>3. \A i \in 1..n : order[i] \in ss /\ Rank(order[i], ss) = i
  <2> SUFFICES ASSUME NEW i \in 1..n PROVE order[i] \in ss /\ Rank(order[i], ss) = i
    OBVIOUS
  <2>1. \E s \in ss : Rank(s, ss) = i
    BY <1>1, RankNumbers
  <2>2. order[i] = CHOOSE s \in ss : Rank(s, ss) = i
    BY <1>2, Zenon
  <2> QED
    BY <2>1, <2>2, Zenon
<1>4. \A s \in ss : Rank(s, ss) \in 1..n /\ order[Rank(s, ss)] = s
  BY <1>1, <1>2, RankNumbers
<1>5. \A i, j \in 1..n : order[i] = order[j] => i = j
  BY <1>3
<1>6. \A s \in ss : \E i \in 1..n : order[i] = s
  BY <1>4
<1>7. PICK js : js = [i \in 1..n |-> [op |-> what, span |-> order[i]]]
  OBVIOUS
<1>8. OneJobEach(js, what, ss)
  <2>1. js \in [1..n -> JobType]
    BY <1>7 DEF JobType
  <2>2. js \in Seq(JobType) /\ DOMAIN js = 1..n
    BY <2>1, SeqOfFunction
  <2>3. \A i \in 1..n : js[i].op = what /\ js[i].span = order[i] /\ order[i] \in ss
    BY <1>7
  <2>4. \A s \in ss : \E i \in DOMAIN js : js[i].span = s
    BY <1>6, <2>2, <2>3
  <2>5. \A i, j \in DOMAIN js : js[i].span = js[j].span => i = j
    <3> SUFFICES ASSUME NEW i \in 1..n, NEW j \in 1..n, js[i].span = js[j].span PROVE i = j
      BY <2>2, Zenon
    <3>1. order[i] = order[j]
      BY <2>3, Zenon
    <3> QED
      BY <1>5, <3>1, Zenon
  <2> QED
    BY <2>2, <2>3, <2>4, <2>5, Zenon DEF OneJobEach
<1>9. Jobs(what, ss) = js
  BY <1>1, <1>2, <1>7 DEF Jobs
<1> QED
  BY <1>8, <1>9, Zenon

-----------------------------------------------------------------------------
(* Steps that leave a part of the invariant's state alone.                 *)

\* Each part of the invariant holds after a step that leaves what it reads alone.
LEMMA FilesSame ==
    ASSUME FilesInv, UNCHANGED <<db, files>> PROVE FilesInv'
BY DEF FilesInv, HasRow

\* The same, for the open transaction.
LEMMA TxnSame ==
    ASSUME TxnInv, UNCHANGED <<status, db, txn, landed, files>> PROVE TxnInv'
BY DEF TxnInv, Running

\* The same, for what the block writer read.
LEMMA HeldSame ==
    ASSUME HeldInv, UNCHANGED <<status, landed, bw, inbox, files, db>> PROVE HeldInv'
BY DEF HeldInv, Running

\* The same, for the places of a span in flight.
LEMMA PlacesSame ==
    ASSUME PlacesInv, UNCHANGED <<status, inFlight, landed, jobs, bw, inbox>> PROVE PlacesInv'
<1>1. HandOffs' = HandOffs /\ Results' = Results
  BY DEF HandOffs, Results
<1> QED
  BY <1>1 DEF PlacesInv, Running

\* The same, for the pass.
LEMMA PassSame ==
    ASSUME PassInv, UNCHANGED <<status, db, stage, ret>> PROVE PassInv'
BY DEF PassInv, Running

\* The same, for the files queries know.
LEMMA KnownSame ==
    ASSUME RowsKnown, UNCHANGED <<status, db, known>> PROVE RowsKnown'
BY DEF RowsKnown

\* The spans the tables, the unlinks and the queues name are spans.
LEMMA NamedAreSpans ==
    ASSUME HandoffTypeOK
    PROVE  HasRow(db.rows) \cup db.pend \cup Undone \cup Unlinking \subseteq Spans
<1>1. HasRow(db.rows) \cup db.pend \subseteq Spans
  BY DEF HandoffTypeOK, TypeOK, HasRow
<1>2. Undone \subseteq Spans
  BY DEF HandoffTypeOK, Undone
<1>3. \A i \in DOMAIN jobs : jobs[i].span \in Spans
  <2>1. jobs \in Seq(JobType)
    BY DEF HandoffTypeOK
  <2>2. \A i \in DOMAIN jobs : jobs[i] \in JobType
    BY <2>1
  <2> QED
    BY <2>2 DEF JobType
<1>4. \A i \in DOMAIN inbox : inbox[i].span \in Spans
  BY DEF HandoffTypeOK, TypeOK, Messages
<1> QED
  BY <1>1, <1>2, <1>3, <1>4 DEF Unlinking

\* Spans stay settled when nothing new is named.
LEMMA SettledKept ==
    ASSUME HandoffTypeOK, SettledInv, Running, UNCHANGED <<status, db>>,
           Undone' \cup Unlinking' \subseteq Undone \cup Unlinking,
           \A s \in Spans : Settled(s) => Settled(s)'
    PROVE  SettledInv'
<1>2. HasRow(db.rows) \cup db.pend \cup Undone \cup Unlinking \subseteq Spans
  BY NamedAreSpans
<1>1. HasRow(db.rows)' = HasRow(db.rows) /\ db.pend' = db.pend /\ Running' = Running
  BY DEF HasRow, Running
<1> QED
  BY <1>1, <1>2 DEF SettledInv

-----------------------------------------------------------------------------
(* The initial state, and the writer's steps between commits.              *)

\* The invariant holds of a store never opened.
LEMMA InitInv == Init => HandoffInv
<1> SUFFICES ASSUME Init PROVE HandoffInv
  OBVIOUS
<1>0. 0 \in Times /\ <<>> \in Seq(JobType) /\ <<>> \in Seq(Messages)
  BY HandoffAssumption DEF Times
<1> USE DEF Init, Running
<1>1. HandoffTypeOK
  <2>2. [s \in Spans |-> NoRow] \in [Spans -> (SUBSET Series) \cup {NoRow}]
    OBVIOUS
  <2>3. db \in [chunks : SUBSET (Spans \X Series), rows : [Spans -> (SUBSET Series) \cup {NoRow}],
                pend : SUBSET Spans, now : Times, ret : Times, open : SUBSET (Spans \X Series)]
    BY <1>0, <2>2
  <2>4. files \in [Spans -> (SUBSET Series) \cup {NoFile}] /\ known \in [Spans -> {"none", "readable", "unreadable"}]
    OBVIOUS
  <2>5. /\ status \in {"down", "running", "failed", "refused"} /\ now \in Times /\ ret \in Times
        /\ open \subseteq Spans \X Series /\ sealed \subseteq Spans \X Series
        /\ waiting \cup inFlight \cup failed \cup due \cup landed \subseteq Spans
        /\ bw \in [span : Spans \cup {-1}, held : SUBSET Series] /\ bw = Idle
        /\ unsynced \subseteq Spans \X (SUBSET Series)
    BY <1>0 DEF Idle
  <2>6. txn \in [chunks : SUBSET (Spans \X Series), rows : [Spans -> (SUBSET Series) \cup {NoRow}],
                 pend : SUBSET Spans]
    BY <2>2
  <2>7. jobs \in Seq(JobType) /\ inbox \in Seq(Messages) /\ \A i \in DOMAIN inbox : inbox[i] \in Messages
    BY <1>0
  <2> HIDE DEF Init
  <2> QED
    BY <2>3, <2>4, <2>5, <2>6, <2>7, Zenon DEF HandoffTypeOK, TypeOK
<1>2. HasRow(db.rows) = {} /\ Undone = {} /\ db.pend = {}
  BY DEF HasRow, Undone
<1>3. SettledInv /\ FilesInv
  BY <1>2 DEF SettledInv, FilesInv
<1>4. HeadInv /\ TxnInv /\ HeldInv /\ PlacesInv /\ FlightInv /\ PassInv
  BY DEF HeadInv, TxnInv, HeldInv, PlacesInv, FlightInv, PassInv
<1> QED
  BY <1>1, <1>3, <1>4 DEF HandoffInv

\* Hub time never goes back.
LEMMA HubNowForward ==
    ASSUME HandoffTypeOK, NEW sys \in Times
    PROVE  HubNow(sys) \in Times /\ now <= HubNow(sys)
BY HandoffAssumption DEF HandoffTypeOK, TypeOK, Times, HubNow

\* A point keeps the invariant: it goes to the span of hub time, which is neither closed nor in
\* flight.
LEMMA AppendPointInv ==
    ASSUME HandoffInv, NEW x \in Series, NEW sys \in Times, AppendPoint(x, sys)
    PROVE  HandoffInv'
<1> DEFINE t == HubNow(sys)
           old == {c \in open : c[2] = x /\ c[1] # t}
<1>0. HandoffTypeOK /\ SettledInv /\ FilesInv /\ HeadInv /\ TxnInv /\ HeldInv /\ PlacesInv /\ FlightInv
      /\ PassInv
  BY DEF HandoffInv
<1>1. /\ t \in Times /\ now \in Times /\ db.now \in Times /\ now <= t
      /\ now' = t /\ open' = (open \ old) \cup {<<t, x>>} /\ sealed' = sealed \cup old
      /\ status = "running"
  BY <1>0, HubNowForward DEF AppendPoint, HandoffTypeOK, TypeOK
<1>r. status = "running"
  BY <1>1
<1>u. UNCHANGED <<db, files, unsynced, faults, status, txn, ret, waiting, inFlight, failed, due, landed,
                  stage, known, jobs, bw, inbox>>
  BY DEF AppendPoint, handoffs, threads
<1> HIDE DEF t
<1>2. /\ open \subseteq Spans \X Series /\ sealed \subseteq Spans \X Series
      /\ Times \subseteq Int /\ Spans \subseteq Int
  BY <1>0, HandoffAssumption DEF HandoffTypeOK, TypeOK, Times, Spans
<1>3. HandoffTypeOK'
  BY <1>0, <1>1, <1>u, <1>2 DEF HandoffTypeOK, TypeOK, Times, Spans
<1>4. /\ SpansOf(open') \subseteq SpansOf(open) \cup {t}
      /\ SpansOf(sealed') \subseteq SpansOf(open) \cup SpansOf(sealed)
      /\ open \cup sealed \subseteq open' \cup sealed'
  BY <1>1 DEF SpansOf
<1>5. \A s \in Spans : Closed(s, now) \/ Closed(s, db.now) => s # t /\ Closed(s, now')
  <2>1. db.now <= now
    BY <1>0, <1>1 DEF HeadInv, Running
  <2>2. t \in Int /\ now \in Int /\ db.now \in Int /\ \A s \in Spans : s \in Int
    BY <1>1, <1>2
  <2> QED
    BY <1>1, <2>1, <2>2 DEF Closed
<1>6. SettledInv'
  <2>1. \A s \in Spans : Settled(s) => Settled(s)'
    BY <1>1, <1>u, <1>4, <1>5 DEF Settled, Running
  <2>2. Unlinking' = Unlinking /\ Undone' = Undone
    BY <1>u DEF Unlinking, Undone
  <2> QED
    BY <1>0, <1>r, <1>u, <2>1, <2>2, SettledKept DEF Running
<1>7. HeadInv'
  <2>1. db.now <= now /\ db.open \subseteq open \cup sealed
    BY <1>0, <1>1 DEF HeadInv, Running
  <2>2. t \in Int /\ now \in Int /\ db.now \in Int
    BY <1>1, <1>2
  <2> QED
    BY <1>1, <1>u, <1>4, <2>1, <2>2 DEF HeadInv
<1>8. FilesInv' /\ TxnInv' /\ HeldInv' /\ PlacesInv' /\ PassInv'
  BY <1>0, <1>u, FilesSame, TxnSame, HeldSame, PlacesSame, PassSame
<1>9. FlightInv'
  <2>1. due \cup inFlight \subseteq Spans
    BY <1>0 DEF HandoffTypeOK, TypeOK
  <2> QED
    BY <1>0, <1>r, <1>u, <1>4, <1>5, <2>1 DEF FlightInv, Running
<1> QED
  BY <1>3, <1>6, <1>7, <1>8, <1>9 DEF HandoffInv

\* A sweep keeps the invariant: what it makes due is listed, closed and no longer in the head.
LEMMA SweepInv ==
    ASSUME HandoffInv, NEW sys \in Times, Sweep(sys)
    PROVE  HandoffInv'
<1> DEFINE t == HubNow(sys)
           late == {c \in open : Closed(c[1], t)}
<1>0. HandoffTypeOK /\ SettledInv /\ FilesInv /\ HeadInv /\ TxnInv /\ HeldInv /\ PlacesInv /\ FlightInv
      /\ PassInv
  BY DEF HandoffInv
<1>1. /\ t \in Times /\ now \in Times /\ db.now \in Times /\ now <= t
      /\ now' = t /\ open' = open \ late /\ sealed' = sealed \cup late /\ due' = due \cup Chosen(t)
  BY <1>0, HubNowForward DEF Sweep, HandoffTypeOK, TypeOK
<1>r. status = "running"
  BY DEF Sweep
<1>u. UNCHANGED <<db, files, unsynced, faults, status, txn, ret, waiting, inFlight, failed, landed,
                  stage, known, jobs, bw, inbox>>
  BY DEF Sweep, threads
<1> HIDE DEF t
<1>2. /\ open \subseteq Spans \X Series /\ sealed \subseteq Spans \X Series /\ waiting \subseteq Spans
      /\ due \cup inFlight \subseteq Spans /\ Times \subseteq Int /\ Spans \subseteq Int
  BY <1>0, HandoffAssumption DEF HandoffTypeOK, TypeOK, Times, Spans
<1>c. Chosen(t) \subseteq waiting \ inFlight /\ \A s \in Chosen(t) : Closed(s, t)
  BY DEF Chosen
<1>3. HandoffTypeOK'
  BY <1>0, <1>1, <1>u, <1>2, <1>c DEF HandoffTypeOK, TypeOK
<1>4. /\ SpansOf(open') \subseteq SpansOf(open)
      /\ SpansOf(sealed') \subseteq SpansOf(open) \cup SpansOf(sealed)
      /\ open \cup sealed \subseteq open' \cup sealed'
      /\ \A s \in SpansOf(open') : ~Closed(s, t)
  BY <1>1 DEF SpansOf
<1>5. \A s \in Spans : Closed(s, now) => Closed(s, now')
  BY <1>1, <1>2 DEF Closed
<1>6. SettledInv'
  <2>1. \A s \in Spans : Settled(s) => Settled(s)'
    BY <1>u, <1>4 DEF Settled, Running
  <2>2. Unlinking' = Unlinking /\ Undone' = Undone
    BY <1>u DEF Unlinking, Undone
  <2> QED
    BY <1>0, <1>r, <1>u, <2>1, <2>2, SettledKept DEF Running
<1>7. HeadInv'
  <2>1. db.now <= now /\ db.open \subseteq open \cup sealed
    BY <1>0, <1>r DEF HeadInv, Running
  <2>2. t \in Int /\ now \in Int /\ db.now \in Int
    BY <1>1, <1>2
  <2> QED
    BY <1>1, <1>u, <1>4, <2>1, <2>2 DEF HeadInv
<1>8. FilesInv' /\ TxnInv' /\ HeldInv' /\ PlacesInv' /\ PassInv'
  BY <1>0, <1>u, FilesSame, TxnSame, HeldSame, PlacesSame, PassSame
<1>9. FlightInv'
  <2>1. now' = t /\ due' = due \cup Chosen(t)
    BY <1>1
  <2>2. \A s \in due' \cup inFlight' : Closed(s, now') /\ s \notin SpansOf(open')
    BY <1>0, <1>r, <1>u, <1>2, <1>c, <1>4, <1>5, <2>1 DEF FlightInv, Running
  <2> QED
    BY <1>0, <1>r, <1>u, <1>c, <1>4, <2>1, <2>2 DEF FlightInv, Running
<1> QED
  BY <1>3, <1>6, <1>7, <1>8, <1>9 DEF HandoffInv

\* The beginning of a pass keeps the invariant.
LEMMA PassBeginInv ==
    ASSUME HandoffInv, NEW sys \in Times, NEW r \in Times, PassBegin(sys, r)
    PROVE  HandoffInv'
<1>0. HandoffTypeOK /\ SettledInv /\ FilesInv /\ HeadInv /\ TxnInv /\ HeldInv /\ PlacesInv /\ FlightInv
      /\ PassInv
  BY DEF HandoffInv
<1>1. /\ now' \in Times /\ now \in Times /\ db.now \in Times /\ now <= now' /\ ret' = r
      /\ stage' = [at |-> "scan", from |-> 0]
  BY <1>0, HubNowForward DEF PassBegin, HandoffTypeOK, TypeOK
<1>r. status = "running"
  BY DEF PassBegin
<1>u. UNCHANGED <<db, files, unsynced, faults, status, txn, open, sealed, waiting, inFlight, failed, due,
                  landed, known, jobs, bw, inbox>>
  BY DEF PassBegin, handoffs, threads
<1>2. /\ due \cup inFlight \subseteq Spans /\ Times \subseteq Int /\ Spans \subseteq Int
  BY <1>0, HandoffAssumption DEF HandoffTypeOK, TypeOK, Times, Spans
<1>3. HandoffTypeOK'
  BY <1>0, <1>1, <1>u DEF HandoffTypeOK, TypeOK
<1>5. \A s \in Spans : Closed(s, now) => Closed(s, now')
  BY <1>1, <1>2 DEF Closed
<1>6. SettledInv'
  <2>1. \A s \in Spans : Settled(s) => Settled(s)'
    BY <1>u DEF Settled, Running
  <2>2. Unlinking' = Unlinking /\ Undone' = Undone
    BY <1>u DEF Unlinking, Undone
  <2> QED
    BY <1>0, <1>r, <1>u, <2>1, <2>2, SettledKept DEF Running
<1>7. HeadInv'
  <2>1. now' \in Int /\ now \in Int /\ db.now \in Int
    BY <1>1, <1>2
  <2> QED
    BY <1>0, <1>1, <1>u, <2>1 DEF HeadInv, Running
<1>8. FilesInv' /\ TxnInv' /\ HeldInv' /\ PlacesInv'
  BY <1>0, <1>u, FilesSame, TxnSame, HeldSame, PlacesSame
<1>9. FlightInv'
  BY <1>0, <1>u, <1>2, <1>5 DEF FlightInv, Running
<1>10. PassInv'
  BY <1>1 DEF PassInv
<1> QED
  BY <1>3, <1>6, <1>7, <1>8, <1>9, <1>10 DEF HandoffInv

-----------------------------------------------------------------------------
(* A step of the pass, and the commit that holds it.                       *)

\* The rows a pass may retire: committed, and every holder dead.
Retirable == {s \in HasRow(db.rows) : \A x \in db.rows[s] : Dead(<<s, x>>, ret)}

\* A span that landed is in flight until the commit.
LEMMA LandedInFlight == PlacesInv /\ Running => landed \subseteq inFlight
BY DEF PlacesInv

\* The files a scan finds expired have committed rows whose every holder is dead.
LEMMA ExpiredRetirable ==
    ASSUME HandoffInv, Running
    PROVE  Expired(txn.rows) \subseteq Retirable
<1>1. landed \subseteq inFlight
  BY LandedInFlight DEF HandoffInv
<1>2. \A s \in Spans : s \notin landed => txn.rows[s] = db.rows[s]
  BY DEF HandoffInv, TxnInv
<1>3. \A s \in Expired(txn.rows) : s \in Spans /\ s \notin landed /\ txn.rows[s] # NoRow
                                   /\ \A x \in txn.rows[s] : Dead(<<s, x>>, ret)
  BY <1>1 DEF Expired, HasRow
<1> QED
  BY <1>2, <1>3 DEF Retirable, HasRow

\* What a step of the pass deletes is dead and not in flight, what it forgets has no chunk left,
\* and what it retires, now or later, is dead throughout.
PassSound(cs, p) ==
    /\ p.gone \subseteq cs /\ \A c \in p.gone : Dead(c, ret) /\ c[1] \notin inFlight
    /\ p.emptied \subseteq (waiting \cup SpansOf(sealed)) \ inFlight
    /\ p.emptied \cap SpansOf(cs \ p.gone) = {}
    /\ p.retired \subseteq Retirable
    /\ p.next.at = "files" => p.next.queue \subseteq Retirable \ p.retired

\* Every step of the pass is sound, whatever its stage.
LEMMA PassStepSound ==
    ASSUME HandoffInv, Running, NEW cs
    PROVE  PassSound(cs, PassStep(cs))
<1>1. DeadFound(cs) \subseteq cs /\ \A c \in DeadFound(cs) : Dead(c, ret) /\ c[1] \notin inFlight
  BY DEF DeadFound, Visited
<1>2. /\ Emptied(cs) \subseteq (waiting \cup SpansOf(sealed)) \ inFlight
      /\ Emptied(cs) \cap SpansOf(cs \ DeadFound(cs)) = {}
  BY DEF Emptied
<1>3. Expired(txn.rows) \subseteq Retirable
  BY ExpiredRetirable
<1>4. stage.at = "files" => stage.queue \subseteq Retirable
  BY DEF HandoffInv, PassInv, Retirable
<1>5. RetiredNow(stage.queue) \subseteq stage.queue
  BY DEF RetiredNow
<1>6. CASE stage.at = "scan" /\ Unvisited(cs) # {}
  <2>1. PassStep(cs) = [gone |-> DeadFound(cs), emptied |-> {}, retired |-> {},
                        next |-> [at |-> "scan", from |-> Min({Key(c) : c \in Unvisited(cs)})]]
    BY <1>6 DEF PassStep
  <2> QED
    BY <1>1, <2>1 DEF PassSound
<1>7. CASE stage.at = "scan" /\ Unvisited(cs) = {}
  <2>1. PassStep(cs) = [gone |-> DeadFound(cs), emptied |-> Emptied(cs), retired |-> {},
                        next |-> [at |-> "files", queue |-> Expired(txn.rows)]]
    BY <1>7 DEF PassStep
  <2>2. PICK p : p = PassStep(cs)
    OBVIOUS
  <2>3. /\ p.gone = DeadFound(cs) /\ p.emptied = Emptied(cs) /\ p.retired = {}
        /\ p.next.at = "files" /\ p.next.queue = Expired(txn.rows)
    BY <2>1, <2>2
  <2>4. p.next.queue \subseteq Retirable \ p.retired /\ p.retired \subseteq Retirable
    BY <1>3, <2>3
  <2>5. p.emptied \cap SpansOf(cs \ p.gone) = {} /\ p.emptied \subseteq (waiting \cup SpansOf(sealed)) \ inFlight
    BY <1>2, <2>3, Zenon
  <2>6. p.gone \subseteq cs /\ \A c \in p.gone : Dead(c, ret) /\ c[1] \notin inFlight
    BY <1>1, <2>3, Zenon
  <2>7. PassSound(cs, p)
    BY <2>4, <2>5, <2>6, Zenon DEF PassSound
  <2> QED
    BY <2>2, <2>7
<1>8. CASE stage.at = "files" /\ stage.queue # {}
  <2>1. PassStep(cs) = [gone |-> {}, emptied |-> {}, retired |-> RetiredNow(stage.queue),
                        next |-> [at |-> "files", queue |-> stage.queue \ RetiredNow(stage.queue)]]
    BY <1>8 DEF PassStep
  <2> QED
    BY <1>4, <1>5, <1>8, <2>1 DEF PassSound
<1>9. CASE /\ ~(stage.at = "scan" /\ Unvisited(cs) # {}) /\ ~(stage.at = "scan" /\ Unvisited(cs) = {})
           /\ ~(stage.at = "files" /\ stage.queue # {})
  <2>1. PassStep(cs) = [gone |-> {}, emptied |-> {}, retired |-> {}, next |-> NoPass]
    BY <1>9 DEF PassStep
  <2> QED
    BY <2>1 DEF PassSound, NoPass
<1> QED
  BY <1>6, <1>7, <1>8, <1>9

\* What a commit leaves in redb.  Every row names a file that is there; and a span with a row,
\* one retired, and one whose file is being unlinked is in no chunk, not in the head, and off
\* the list, and the last two have no row.
Leftover(d) == d.pend \cup Undone \cup Unlinking
CommitSound(d) ==
    /\ \A s \in Spans : d.rows[s] # NoRow => files[s] = d.rows[s]
    /\ \A s \in HasRow(d.rows) \cup Leftover(d) :
           /\ s \in Spans /\ Closed(s, now)
           /\ s \notin SpansOf(d.chunks) /\ s \notin SpansOf(open) /\ s \notin SpansOf(sealed)
           /\ s \in waiting => s \in landed
    /\ Leftover(d) \cap HasRow(d.rows) = {}

\* A commit with a sound step of the pass leaves redb sound.
LEMMA CommitIsSound ==
    ASSUME HandoffInv, Running, NEW p, PassSound(txn.chunks \cup sealed, p)
    PROVE  /\ Committed(p) \in [chunks : SUBSET (Spans \X Series),
                                rows : [Spans -> (SUBSET Series) \cup {NoRow}],
                                pend : SUBSET Spans, now : Times, ret : Times,
                                open : SUBSET (Spans \X Series)]
           /\ CommitSound(Committed(p))
           /\ \A s \in Spans : s \in HasRow(Committed(p).rows) <=> /\ s \in landed \cup HasRow(db.rows)
                                                                  /\ s \notin p.retired
           /\ \A s \in landed : files[s] \in SUBSET Series /\ files[s] # NoRow
           /\ landed \subseteq inFlight /\ inFlight \subseteq waiting
<1>0. HandoffTypeOK /\ SettledInv /\ FilesInv /\ HeadInv /\ TxnInv /\ HeldInv /\ PlacesInv /\ FlightInv
  BY DEF HandoffInv
<1>1. PICK d : d = Committed(p)
  OBVIOUS
<1>2. /\ d.chunks = (txn.chunks \cup sealed) \ p.gone
      /\ d.rows = [s \in Spans |-> IF s \in p.retired THEN NoRow ELSE txn.rows[s]]
      /\ d.pend = txn.pend \cup p.retired /\ d.now = now /\ d.ret = ret /\ d.open = open
  BY <1>1 DEF Committed, Written
<1>3. p.retired \subseteq HasRow(db.rows) /\ HasRow(db.rows) \subseteq Spans
  BY DEF PassSound, Retirable, HasRow
<1>4. Committed(p) \in [chunks : SUBSET (Spans \X Series), rows : [Spans -> (SUBSET Series) \cup {NoRow}],
                        pend : SUBSET Spans, now : Times, ret : Times, open : SUBSET (Spans \X Series)]
  <2>1. txn.rows \in [Spans -> (SUBSET Series) \cup {NoRow}] /\ txn.chunks \subseteq Spans \X Series
        /\ txn.pend \subseteq Spans /\ sealed \subseteq Spans \X Series /\ open \subseteq Spans \X Series
        /\ now \in Times /\ ret \in Times
    BY <1>0 DEF HandoffTypeOK, TypeOK
  <2>2. [s \in Spans |-> IF s \in p.retired THEN NoRow ELSE txn.rows[s]] \in [Spans -> (SUBSET Series) \cup {NoRow}]
    BY <2>1
  <2>3. p.retired \subseteq Spans
    BY <1>3
  <2> QED
    BY <2>1, <2>2, <2>3 DEF Committed, Written
<1>5. landed \subseteq inFlight /\ inFlight \subseteq waiting /\ landed \subseteq Spans
  BY <1>0, LandedInFlight DEF FlightInv, HandoffTypeOK, TypeOK
<1>6. \A s \in landed : files[s] \in SUBSET Series /\ files[s] # NoRow
  <2>1. \A s \in landed : files[s] = InSpan(db.chunks, s)
    BY <1>0 DEF HeldInv
  <2>2. db.chunks \subseteq Spans \X Series
    BY <1>0 DEF HandoffTypeOK, TypeOK
  <2>3. \A s : InSpan(db.chunks, s) \subseteq Series
    BY <2>2 DEF InSpan
  <2> QED
    BY <2>1, <2>3, HandoffAssumption
<1>7. \A s \in Spans : d.rows[s] = IF s \in p.retired THEN NoRow ELSE IF s \in landed THEN files[s] ELSE db.rows[s]
  <2>1. \A s \in Spans : txn.rows[s] = IF s \in landed THEN files[s] ELSE db.rows[s]
    BY <1>0 DEF TxnInv
  <2> QED
    BY <1>2, <2>1
<1>8. \A s \in Spans : s \in HasRow(d.rows) <=> s \notin p.retired /\ s \in landed \cup HasRow(db.rows)
  BY <1>6, <1>7 DEF HasRow
<1>9. \A s \in Spans : d.rows[s] # NoRow => files[s] = d.rows[s]
  BY <1>0, <1>7 DEF FilesInv, HasRow
<1>10. \A s \in HasRow(db.rows) \cup db.pend \cup Undone \cup Unlinking : s \in Spans /\ Settled(s)
  BY <1>0, NamedAreSpans DEF SettledInv
<1>11. (db.pend \cup Undone \cup Unlinking) \cap HasRow(db.rows) = {}
  BY <1>0 DEF SettledInv
<1>12. Leftover(d) \subseteq HasRow(db.rows) \cup db.pend \cup Undone \cup Unlinking
  <2>1. txn.pend \subseteq db.pend
    BY <1>0 DEF TxnInv
  <2> QED
    BY <1>2, <1>3, <2>1 DEF Leftover
<1>13. HasRow(d.rows) \subseteq HasRow(db.rows) \cup landed
  BY <1>8 DEF HasRow
<1>14. SpansOf(d.chunks) \subseteq SpansOf(txn.chunks) \cup SpansOf(sealed)
  BY <1>2 DEF SpansOf
<1>15. \A s \in SpansOf(txn.chunks) : s \in SpansOf(db.chunks) /\ s \notin landed
  BY <1>0 DEF TxnInv, SpansOf
<1>16. \A s \in Spans : Closed(s, db.now) => Closed(s, now)
  <2>1. db.now \in Int /\ now \in Int /\ \A s \in Spans : s \in Int
    BY <1>0, HandoffAssumption DEF HandoffTypeOK, TypeOK, Times, Spans
  <2>2. db.now <= now
    BY <1>0 DEF HeadInv
  <2> QED
    BY <2>1, <2>2 DEF Closed
<1>17. ASSUME NEW s \in landed
       PROVE  /\ s \in Spans /\ Closed(s, now)
              /\ s \notin SpansOf(d.chunks) /\ s \notin SpansOf(open) /\ s \notin SpansOf(sealed)
  BY <1>0, <1>5, <1>14, <1>15 DEF FlightInv
<1>18. ASSUME NEW s \in HasRow(db.rows) \cup db.pend \cup Undone \cup Unlinking
       PROVE  /\ s \in Spans /\ Closed(s, now) /\ s \notin waiting
              /\ s \notin SpansOf(d.chunks) /\ s \notin SpansOf(open) /\ s \notin SpansOf(sealed)
  BY <1>10, <1>14, <1>15, <1>16 DEF Settled
<1>19. Leftover(d) \cap HasRow(d.rows) = {}
  <2> SUFFICES ASSUME NEW s \in Leftover(d), s \in HasRow(d.rows) PROVE FALSE
    OBVIOUS
  <2>1. s \in Spans /\ s \notin waiting /\ s \notin landed
    BY <1>5, <1>12, <1>18
  <2>2. s \notin p.retired /\ s \in HasRow(db.rows)
    BY <1>8, <2>1
  <2>3. s \in txn.pend \cup Undone \cup Unlinking /\ txn.pend \subseteq db.pend
    BY <1>0, <1>2, <2>2 DEF Leftover, TxnInv
  <2> QED
    BY <1>11, <2>2, <2>3
<1>20. \A s \in HasRow(d.rows) \cup Leftover(d) :
           /\ s \in Spans /\ Closed(s, now)
           /\ s \notin SpansOf(d.chunks) /\ s \notin SpansOf(open) /\ s \notin SpansOf(sealed)
           /\ s \in waiting => s \in landed
  BY <1>12, <1>13, <1>17, <1>18, Zenon
<1>21. \A s \in Spans : s \in HasRow(d.rows) <=> s \in landed \cup HasRow(db.rows) /\ s \notin p.retired
  BY <1>8
<1>22. CommitSound(d)
  BY <1>9, <1>19, <1>20, Zenon DEF CommitSound
<1> QED
  BY <1>1, <1>4, <1>5, <1>6, <1>21, <1>22

-----------------------------------------------------------------------------
(* Steps that stop the store.                                              *)

\* With no store open, what redb and the directory hold is all that matters.
LEMMA StoppedInv ==
    ASSUME status' \in {"down", "failed"}, MemoryGone,
           db' \in [chunks : SUBSET (Spans \X Series), rows : [Spans -> (SUBSET Series) \cup {NoRow}],
                   pend : SUBSET Spans, now : Times, ret : Times, open : SUBSET (Spans \X Series)],
           files' \in [Spans -> (SUBSET Series) \cup {NoFile}],
           unsynced' \subseteq Spans \X (SUBSET Series),
           \A s \in HasRow(db'.rows) \cup db'.pend \cup Undone' :
               Closed(s, db'.now) /\ s \notin SpansOf(db'.chunks) /\ s \notin SpansOf(db'.open),
           (db'.pend \cup Undone') \cap HasRow(db'.rows) = {},
           \A s \in HasRow(db'.rows) : files'[s] = db'.rows[s]
    PROVE  HandoffInv'
<1>0. 0 \in Times /\ <<>> \in Seq(JobType) /\ <<>> \in Seq(Messages)
  BY HandoffAssumption DEF Times
<1>1. HandoffTypeOK'
  <2>2. [s \in Spans |-> NoRow] \in [Spans -> (SUBSET Series) \cup {NoRow}]
    OBVIOUS
  <2>3. known' \in [Spans -> {"none", "readable", "unreadable"}]
    BY DEF MemoryGone
  <2>5. /\ now' \in Times /\ ret' \in Times
        /\ open' \subseteq Spans \X Series /\ sealed' \subseteq Spans \X Series
        /\ waiting' \cup inFlight' \cup failed' \cup due' \cup landed' \subseteq Spans
        /\ bw' \in [span : Spans \cup {-1}, held : SUBSET Series] /\ bw' = Idle
    BY <1>0 DEF MemoryGone, Idle
  <2>6. txn' \in [chunks : SUBSET (Spans \X Series), rows : [Spans -> (SUBSET Series) \cup {NoRow}],
                  pend : SUBSET Spans]
    BY <2>2 DEF MemoryGone
  <2>7. jobs' \in Seq(JobType) /\ inbox' \in Seq(Messages) /\ \A i \in DOMAIN inbox' : inbox'[i] \in Messages
    BY <1>0 DEF MemoryGone
  <2>8. status' \in {"down", "running", "failed", "refused"}
    OBVIOUS
  <2> QED
    BY <2>3, <2>5, <2>6, <2>7, <2>8, Zenon DEF HandoffTypeOK, TypeOK
<1>2. ~Running'
  BY DEF Running
<1>3. SettledInv' /\ FilesInv'
  BY <1>2 DEF SettledInv, FilesInv, Settled
<1>4. HeadInv' /\ TxnInv' /\ HeldInv' /\ PlacesInv' /\ FlightInv' /\ PassInv'
  BY <1>2 DEF HeadInv, TxnInv, HeldInv, PlacesInv, FlightInv, PassInv
<1> QED
  BY <1>1, <1>3, <1>4 DEF HandoffInv

\* Without a commit, redb holds what it held.
LEMMA TablesKept ==
    ASSUME HandoffInv, UNCHANGED db, Undone' \subseteq Undone
    PROVE  /\ db' \in [chunks : SUBSET (Spans \X Series), rows : [Spans -> (SUBSET Series) \cup {NoRow}],
                       pend : SUBSET Spans, now : Times, ret : Times, open : SUBSET (Spans \X Series)]
           /\ \A s \in HasRow(db'.rows) \cup db'.pend \cup Undone' :
                  Closed(s, db'.now) /\ s \notin SpansOf(db'.chunks) /\ s \notin SpansOf(db'.open)
           /\ (db'.pend \cup Undone') \cap HasRow(db'.rows) = {}
<1>0. TypeOK /\ SettledInv
  BY DEF HandoffInv, HandoffTypeOK
<1>1. db' = db
  OBVIOUS
<1> QED
  BY <1>0, <1>1 DEF TypeOK, SettledInv, Settled

\* A sweep that fails stop keeps the invariant.
LEMMA BacklogStopsInv ==
    ASSUME HandoffInv, BacklogStops
    PROVE  HandoffInv'
<1>1. MemoryGone /\ status' = "failed" /\ UNCHANGED <<db, files, unsynced>>
  BY DEF BacklogStops
<1>2. Undone' \subseteq Undone
  BY <1>1 DEF Undone
<1>3. files' \in [Spans -> (SUBSET Series) \cup {NoFile}] /\ unsynced' \subseteq Spans \X (SUBSET Series)
  BY <1>1 DEF HandoffInv, HandoffTypeOK, TypeOK
<1>4. \A s \in HasRow(db'.rows) : files'[s] = db'.rows[s]
  BY <1>1 DEF HandoffInv, FilesInv
<1> QED
  BY <1>1, <1>2, <1>3, <1>4, TablesKept, StoppedInv

\* A crash keeps the invariant, though unlinked files come back: none of them has a row.
LEMMA CrashInv ==
    ASSUME HandoffInv, Crash
    PROVE  HandoffInv'
<1>1. MemoryGone /\ status' = "down" /\ UNCHANGED db /\ unsynced' = {}
  BY DEF Crash
<1>2. Undone' = {}
  BY <1>1 DEF Undone
<1>3. unsynced \subseteq Spans \X (SUBSET Series) /\ files \in [Spans -> (SUBSET Series) \cup {NoFile}]
  BY DEF HandoffInv, HandoffTypeOK, TypeOK
<1>4. PICK back \in SUBSET unsynced :
          files' = [s \in Spans |-> IF \E f \in back : f[1] = s
                                    THEN (CHOOSE f \in back : f[1] = s)[2] ELSE files[s]]
  BY DEF Crash
<1>5. \A s \in Spans : (\E f \in back : f[1] = s) =>
          /\ (CHOOSE f \in back : f[1] = s)[2] \in SUBSET Series
          /\ s \in Undone
  <2> SUFFICES ASSUME NEW s \in Spans, \E f \in back : f[1] = s
               PROVE  (CHOOSE f \in back : f[1] = s)[2] \in SUBSET Series /\ s \in Undone
    OBVIOUS
  <2>1. PICK g : g = CHOOSE f \in back : f[1] = s
    OBVIOUS
  <2>2. g \in back /\ g[1] = s
    BY <2>1, Zenon
  <2>3. g[2] \in SUBSET Series /\ s \in Undone
    BY <1>3, <2>2 DEF Undone
  <2> QED
    BY <2>1, <2>3, Zenon
<1>6. files' \in [Spans -> (SUBSET Series) \cup {NoFile}]
  BY <1>3, <1>4, <1>5
<1>7. \A s \in HasRow(db'.rows) : files'[s] = db'.rows[s]
  <2>1. \A s \in HasRow(db.rows) : s \in Spans /\ s \notin Undone /\ files[s] = db.rows[s]
    BY DEF HandoffInv, SettledInv, FilesInv, HasRow
  <2>2. \A s \in HasRow(db.rows) : files'[s] = files[s]
    BY <1>4, <1>5, <2>1
  <2> QED
    BY <1>1, <2>1, <2>2
<1>8. unsynced' \subseteq Spans \X (SUBSET Series) /\ Undone' \subseteq Undone
  BY <1>1, <1>2
<1> QED
  BY <1>1, <1>6, <1>7, <1>8, TablesKept, StoppedInv

\* A failed commit keeps the invariant, whether or not it reached redb.
LEMMA CommitFailsInv ==
    ASSUME HandoffInv, CommitFails
    PROVE  HandoffInv'
<1>1. MemoryGone /\ status' = "failed" /\ UNCHANGED <<files, unsynced>> /\ Running
  BY DEF CommitFails, Running
<1>2. Undone' = Undone
  BY <1>1 DEF Undone
<1>3. files' \in [Spans -> (SUBSET Series) \cup {NoFile}] /\ unsynced' \subseteq Spans \X (SUBSET Series)
  BY <1>1 DEF HandoffInv, HandoffTypeOK, TypeOK
<1>4. CASE UNCHANGED db
  <2>1. \A s \in HasRow(db'.rows) : files'[s] = db'.rows[s]
    BY <1>1, <1>4 DEF HandoffInv, FilesInv
  <2> QED
    BY <1>1, <1>2, <1>3, <1>4, <2>1, TablesKept, StoppedInv
<1>5. CASE db' = Committed(PassStep(txn.chunks \cup sealed))
  <2>1. PICK p : p = PassStep(txn.chunks \cup sealed)
    OBVIOUS
  <2>2. PassSound(txn.chunks \cup sealed, p)
    BY <1>1, <2>1, PassStepSound
  <2>3. PICK d : d = Committed(p)
    OBVIOUS
  <2>4. d.now = now /\ d.open = open
    BY <2>3 DEF Committed
  <2>5. /\ d \in [chunks : SUBSET (Spans \X Series), rows : [Spans -> (SUBSET Series) \cup {NoRow}],
                  pend : SUBSET Spans, now : Times, ret : Times, open : SUBSET (Spans \X Series)]
        /\ CommitSound(d)
    BY <1>1, <2>2, <2>3, CommitIsSound
  <2>6. db' = d
    BY <1>5, <2>1, <2>3
  <2>7. \A s \in HasRow(d.rows) \cup d.pend \cup Undone :
            Closed(s, d.now) /\ s \notin SpansOf(d.chunks) /\ s \notin SpansOf(d.open)
    BY <2>4, <2>5 DEF CommitSound, Leftover
  <2>8. (d.pend \cup Undone) \cap HasRow(d.rows) = {}
    BY <2>5 DEF CommitSound, Leftover
  <2>9. \A s \in HasRow(d.rows) : files[s] = d.rows[s]
    BY <2>5 DEF CommitSound, HasRow
  <2> HIDE <1>5
  <2> QED
    BY <1>1, <1>2, <1>3, <2>5, <2>6, <2>7, <2>8, <2>9, StoppedInv
<1> QED
  BY <1>4, <1>5 DEF CommitFails

-----------------------------------------------------------------------------
(* The block writer's steps.                                               *)

\* What is left of a queue when its first item is taken.
LEMMA Taken ==
    ASSUME NEW S, NEW q \in Seq(S), q # <<>>
    PROVE  /\ Tail(q) \in Seq(S) /\ Head(q) = q[1] /\ Head(q) \in S /\ 1 \in DOMAIN q
           /\ \A i \in DOMAIN Tail(q) : /\ i \in Int /\ i + 1 \in DOMAIN q /\ i + 1 # 1
                                        /\ Tail(q)[i] = q[i + 1]
           /\ \A j \in DOMAIN q : /\ j \in Int
                                  /\ j # 1 => j - 1 \in DOMAIN Tail(q) /\ Tail(q)[j - 1] = q[j]
<1>1. Len(q) \in Nat /\ Len(q) # 0 /\ DOMAIN q = 1..Len(q)
  OBVIOUS
<1>2. Tail(q) \in Seq(S) /\ Len(Tail(q)) = Len(q) - 1 /\ DOMAIN Tail(q) = 1..Len(q) - 1
  BY <1>1
<1>3. \A i \in 1..Len(q) - 1 : Tail(q)[i] = q[i + 1]
  BY <1>1
<1>4. Head(q) = q[1] /\ 1 \in DOMAIN q /\ q[1] \in S
  BY <1>1
<1> QED
  BY <1>1, <1>2, <1>3, <1>4

\* A queue with an item joined to it.
LEMMA Joined ==
    ASSUME NEW S, NEW q \in Seq(S), NEW e \in S
    PROVE  /\ Append(q, e) \in Seq(S)
           /\ \E n : /\ DOMAIN Append(q, e) = DOMAIN q \cup {n} /\ n \notin DOMAIN q
                     /\ Append(q, e)[n] = e
           /\ \A i \in DOMAIN q : Append(q, e)[i] = q[i]
<1>1. Len(q) \in Nat /\ DOMAIN q = 1..Len(q)
  OBVIOUS
<1>2. Append(q, e) \in Seq(S) /\ DOMAIN Append(q, e) = 1..Len(q) + 1 /\ Append(q, e)[Len(q) + 1] = e
  BY <1>1
<1>3. \A i \in 1..Len(q) : Append(q, e)[i] = q[i]
  BY <1>1
<1>4. 1..Len(q) + 1 = (1..Len(q)) \cup {Len(q) + 1} /\ Len(q) + 1 \notin 1..Len(q)
  BY <1>1
<1> QED
  BY <1>1, <1>2, <1>3, <1>4

\* The jobs left when the first is taken: the hand-offs and the unlinks among them.
LEMMA JobTaken ==
    ASSUME jobs \in Seq(JobType), jobs # <<>>, jobs' = Tail(jobs)
    PROVE  /\ jobs' \in Seq(JobType) /\ Head(jobs) = jobs[1] /\ Head(jobs).span \in Spans /\ 1 \in DOMAIN jobs
           /\ \A i \in HandOffs' : i \in Int /\ i + 1 \in HandOffs \ {1} /\ jobs'[i] = jobs[i + 1]
           /\ \A i \in HandOffs \ {1} : i \in Int /\ i - 1 \in HandOffs' /\ jobs'[i - 1] = jobs[i]
           /\ {jobs'[i].span : i \in {j \in DOMAIN jobs' : jobs'[j].op = "unlink"}}
                 \subseteq {jobs[i].span : i \in {j \in DOMAIN jobs : jobs[j].op = "unlink"}}
<1>1. /\ Tail(jobs) \in Seq(JobType) /\ Head(jobs) = jobs[1] /\ Head(jobs) \in JobType /\ 1 \in DOMAIN jobs
      /\ \A i \in DOMAIN Tail(jobs) : /\ i \in Int /\ i + 1 \in DOMAIN jobs /\ i + 1 # 1
                                     /\ Tail(jobs)[i] = jobs[i + 1]
      /\ \A j \in DOMAIN jobs : /\ j \in Int
                               /\ j # 1 => j - 1 \in DOMAIN Tail(jobs) /\ Tail(jobs)[j - 1] = jobs[j]
  BY Taken
<1>2. PICK rest : rest = Tail(jobs)
  OBVIOUS
<1>3. /\ \A i \in DOMAIN rest : i \in Int /\ i + 1 \in DOMAIN jobs /\ i + 1 # 1 /\ rest[i] = jobs[i + 1]
      /\ \A j \in DOMAIN jobs : j \in Int /\ (j # 1 => j - 1 \in DOMAIN rest /\ rest[j - 1] = jobs[j])
      /\ jobs' = rest
  BY <1>1, <1>2
<1>4. Head(jobs).span \in Spans
  BY <1>1 DEF JobType
<1>5. \A i \in HandOffs' : i \in Int /\ i + 1 \in HandOffs \ {1} /\ jobs'[i] = jobs[i + 1]
  BY <1>3 DEF HandOffs
<1>6. \A i \in HandOffs \ {1} : i \in Int /\ i - 1 \in HandOffs' /\ jobs'[i - 1] = jobs[i]
  BY <1>3 DEF HandOffs
<1>7. {rest[i].span : i \in {j \in DOMAIN rest : rest[j].op = "unlink"}}
                 \subseteq {jobs[i].span : i \in {j \in DOMAIN jobs : jobs[j].op = "unlink"}}
  BY <1>3
<1>8. jobs' \in Seq(JobType) /\ Head(jobs) = jobs[1] /\ 1 \in DOMAIN jobs
  BY <1>1
<1>9. {jobs'[i].span : i \in {j \in DOMAIN jobs' : jobs'[j].op = "unlink"}}
         \subseteq {jobs[i].span : i \in {j \in DOMAIN jobs : jobs[j].op = "unlink"}}
  BY <1>3, <1>7
<1> QED
  BY <1>4, <1>5, <1>6, <1>8, <1>9, Zenon

\* The messages with one joined to them, and left when the first is handled.
LEMMA MessageJoined ==
    ASSUME inbox \in Seq(Messages), NEW m \in Messages, inbox' = Append(inbox, m)
    PROVE  /\ inbox' \in Seq(Messages) /\ \A i \in DOMAIN inbox' : inbox'[i] \in Messages
           /\ \E n : /\ DOMAIN inbox' = DOMAIN inbox \cup {n} /\ n \notin DOMAIN inbox /\ inbox'[n] = m
                     /\ Results' = IF m.kind # "unlinked" THEN Results \cup {n} ELSE Results
           /\ \A i \in DOMAIN inbox : inbox'[i] = inbox[i]
           /\ {inbox'[i].span : i \in {j \in DOMAIN inbox' : inbox'[j].kind = "unlinked"}}
                 = {inbox[i].span : i \in {j \in DOMAIN inbox : inbox[j].kind = "unlinked"}}
                   \cup (IF m.kind = "unlinked" THEN {m.span} ELSE {})
<1>1. PICK more : more = Append(inbox, m)
  OBVIOUS
<1>2. more \in Seq(Messages) /\ \A i \in DOMAIN inbox : more[i] = inbox[i]
  BY <1>1, Joined
<1>3. PICK n : DOMAIN more = DOMAIN inbox \cup {n} /\ n \notin DOMAIN inbox /\ more[n] = m
  BY <1>1, Joined
<1>4. \A i \in DOMAIN more : more[i] \in Messages
  BY <1>2
<1>5. inbox' = more
  BY <1>1
<1>6. Results' = IF m.kind # "unlinked" THEN Results \cup {n} ELSE Results
  BY <1>2, <1>3, <1>5 DEF Results
<1>7. {more[i].span : i \in {j \in DOMAIN more : more[j].kind = "unlinked"}}
                 = {inbox[i].span : i \in {j \in DOMAIN inbox : inbox[j].kind = "unlinked"}}
                   \cup (IF m.kind = "unlinked" THEN {m.span} ELSE {})
  BY <1>2, <1>3
<1> QED
  BY <1>2, <1>3, <1>4, <1>5, <1>6, <1>7

\* The messages left when the first is handled.
LEMMA MessageTaken ==
    ASSUME inbox \in Seq(Messages), inbox # <<>>, inbox' = Tail(inbox)
    PROVE  /\ inbox' \in Seq(Messages) /\ \A i \in DOMAIN inbox' : inbox'[i] \in Messages
           /\ Head(inbox) = inbox[1] /\ Head(inbox) \in Messages /\ 1 \in DOMAIN inbox
           /\ \A i \in DOMAIN inbox' : i \in Int /\ i + 1 \in DOMAIN inbox \ {1} /\ inbox'[i] = inbox[i + 1]
           /\ \A i \in DOMAIN inbox \ {1} : i \in Int /\ i - 1 \in DOMAIN inbox' /\ inbox'[i - 1] = inbox[i]
<1>1. /\ Tail(inbox) \in Seq(Messages) /\ Head(inbox) = inbox[1] /\ Head(inbox) \in Messages /\ 1 \in DOMAIN inbox
      /\ \A i \in DOMAIN Tail(inbox) : /\ i \in Int /\ i + 1 \in DOMAIN inbox /\ i + 1 # 1
                                     /\ Tail(inbox)[i] = inbox[i + 1]
      /\ \A j \in DOMAIN inbox : /\ j \in Int
                               /\ j # 1 => j - 1 \in DOMAIN Tail(inbox) /\ Tail(inbox)[j - 1] = inbox[j]
  BY Taken
<1>2. PICK rest : rest = Tail(inbox)
  OBVIOUS
<1>3. rest \in Seq(Messages)
  BY <1>1, <1>2
<1>4. \A i \in DOMAIN rest : rest[i] \in Messages
  BY <1>3
<1>5. inbox' = rest
  BY <1>2
<1> QED
  BY <1>1, <1>2, <1>3, <1>4, <1>5

\* The idle block writer has no span in hand.
LEMMA IdleHasNone == Idle.span \notin Spans
<1>1. Idle.span = -1 /\ MaxNow \in Nat
  BY HandoffAssumption DEF Idle
<1> QED
  BY <1>1 DEF Spans

\* A span in flight is on the list, so it is not one a file was retired of.
LEMMA InFlightNotSettled ==
    ASSUME HandoffInv, Running
    PROVE  /\ \A s \in inFlight : s \in Spans /\ s \in waiting /\ ~Settled(s)
           /\ \A i \in HandOffs : jobs[i].span \in inFlight
           /\ \A i \in Results : inbox[i].span \in inFlight
           /\ bw # Idle => bw.span \in inFlight /\ bw.span \in Spans
           /\ landed \subseteq inFlight
<1>1. \A s \in inFlight : s \in Spans /\ s \in waiting /\ ~Settled(s)
  BY DEF HandoffInv, FlightInv, Settled, HandoffTypeOK, TypeOK
<1>2. bw # Idle => bw.span \in Spans
  BY DEF HandoffInv, HandoffTypeOK
<1>3. inFlight = {jobs[i].span : i \in HandOffs} \cup {inbox[i].span : i \in Results}
                         \cup {s \in Spans : s = bw.span} \cup landed
  BY DEF HandoffInv, PlacesInv
<1> QED
  BY <1>1, <1>2, <1>3

\* The block writer's read keeps the invariant: the span moves from the queue to its hands.
LEMMA ReadSpanInv ==
    ASSUME HandoffInv, ReadSpan
    PROVE  HandoffInv'
<1>0. HandoffTypeOK /\ SettledInv /\ FilesInv /\ HeadInv /\ TxnInv /\ HeldInv /\ PlacesInv /\ FlightInv
      /\ PassInv
  BY DEF HandoffInv
<1>r. status = "running" /\ Running
  BY DEF ReadSpan, Running
<1>u. UNCHANGED <<db, files, unsynced, faults, status, txn, now, ret, open, sealed, waiting, inFlight, failed,
                  due, landed, stage, known, inbox>>
  BY DEF ReadSpan, head, handoffs
<1>1. bw = Idle /\ jobs # <<>> /\ Head(jobs).op = "hand off" /\ jobs' = Tail(jobs)
      /\ bw' = [span |-> Head(jobs).span, held |-> InSpan(db.chunks, Head(jobs).span)]
  BY DEF ReadSpan
<1>2. /\ jobs' \in Seq(JobType) /\ Head(jobs) = jobs[1] /\ Head(jobs).span \in Spans /\ 1 \in DOMAIN jobs
      /\ \A i \in HandOffs' : i \in Int /\ i + 1 \in HandOffs \ {1} /\ jobs'[i] = jobs[i + 1]
      /\ \A i \in HandOffs \ {1} : i \in Int /\ i - 1 \in HandOffs' /\ jobs'[i - 1] = jobs[i]
      /\ {jobs'[i].span : i \in {j \in DOMAIN jobs' : jobs'[j].op = "unlink"}}
                 \subseteq {jobs[i].span : i \in {j \in DOMAIN jobs : jobs[j].op = "unlink"}}
  <2>1. jobs \in Seq(JobType)
    BY <1>0 DEF HandoffTypeOK
  <2> QED
    BY <1>1, <2>1, JobTaken
<1>3. PICK h : h = Head(jobs).span
  OBVIOUS
<1>4. 1 \in HandOffs /\ jobs[1].span = h /\ h \in Spans /\ bw'.span = h /\ bw'.held = InSpan(db.chunks, h)
  BY <1>1, <1>2, <1>3 DEF HandOffs
<1>5. HandoffTypeOK'
  <2>1. InSpan(db.chunks, h) \subseteq Series
    BY <1>0 DEF InSpan, HandoffTypeOK, TypeOK
  <2>2. bw' \in [span : Spans \cup {-1}, held : SUBSET Series] /\ bw'.span \in Spans
    BY <1>1, <1>3, <1>4, <2>1
  <2>3. jobs' \in Seq(JobType)
    BY <1>2
  <2> QED
    BY <1>0, <1>u, <2>2, <2>3 DEF HandoffTypeOK, TypeOK
<1>6. SettledInv'
  <2>1. \A s \in Spans : Settled(s) => Settled(s)'
    BY <1>u DEF Settled, Running
  <2>2. Unlinking' \subseteq Unlinking /\ Undone' = Undone
    BY <1>u, <1>2 DEF Unlinking, Undone
  <2> QED
    BY <1>0, <1>r, <1>u, <2>1, <2>2, SettledKept
<1>7. HeadInv' /\ FlightInv'
  BY <1>0, <1>u DEF HeadInv, FlightInv, Running
<1>8. FilesInv' /\ TxnInv' /\ PassInv'
  BY <1>0, <1>u, FilesSame, TxnSame, PassSame
<1>9. HeldInv'
  BY <1>0, <1>u, <1>4 DEF HeldInv, Running
<1>10. PlacesInv'
  <2>1. Results' = Results
    BY <1>u DEF Results
  <2>2. /\ inFlight = {jobs[i].span : i \in HandOffs} \cup {inbox[i].span : i \in Results}
                         \cup {s \in Spans : s = bw.span} \cup landed
        /\ \A i, j \in HandOffs : jobs[i].span = jobs[j].span => i = j
        /\ \A i, j \in Results : inbox[i].span = inbox[j].span => i = j
        /\ \A i \in HandOffs : jobs[i].span \notin landed
        /\ \A i \in Results : inbox[i].span \notin landed
        /\ \A i \in HandOffs, j \in Results : jobs[i].span # inbox[j].span
    BY <1>0, <1>r DEF PlacesInv
  <2>3. {s \in Spans : s = bw.span} = {}
    BY <1>1, IdleHasNone
  <2>4. {jobs[i].span : i \in HandOffs} = {jobs'[i].span : i \in HandOffs'} \cup {h}
    BY <1>2, <1>4
  <2>5. inFlight' = {jobs'[i].span : i \in HandOffs'} \cup {inbox'[i].span : i \in Results'}
                         \cup {s \in Spans : s = bw'.span} \cup landed'
    BY <1>u, <1>4, <2>1, <2>2, <2>3, <2>4
  <2>6. \A i, j \in HandOffs' : jobs'[i].span = jobs'[j].span => i = j
    BY <1>2, <2>2
  <2>7. \A i \in HandOffs' : jobs'[i].span # h /\ jobs'[i].span \notin landed
                            /\ \A j \in Results : jobs'[i].span # inbox[j].span
    BY <1>2, <1>4, <2>2
  <2>8. h \notin landed /\ \A j \in Results : inbox[j].span # h
    BY <1>4, <2>2
  <2> QED
    BY <1>u, <1>4, <2>1, <2>2, <2>5, <2>6, <2>7, <2>8 DEF PlacesInv
<1> QED
  BY <1>5, <1>6, <1>7, <1>8, <1>9, <1>10 DEF HandoffInv

\* What the block writer held becomes its report.
LEMMA ReportedPlaces ==
    ASSUME PlacesInv, Running, bw.span \in Spans, bw'.span \notin Spans, landed \subseteq Spans,
           \A i \in HandOffs : jobs[i].span \in Spans,
           \A i \in Results : inbox[i].span \in Spans /\ inbox'[i] = inbox[i],
           NEW n, n \notin Results, Results' = Results \cup {n}, inbox'[n].span = bw.span,
           UNCHANGED <<status, jobs, inFlight, landed>>
    PROVE  PlacesInv'
<1>1. HandOffs' = HandOffs
  BY DEF HandOffs
<1>2. /\ inFlight = {jobs[i].span : i \in HandOffs} \cup {inbox[i].span : i \in Results}
                         \cup {s \in Spans : s = bw.span} \cup landed
      /\ \A i, j \in HandOffs : jobs[i].span = jobs[j].span => i = j
      /\ \A i, j \in Results : inbox[i].span = inbox[j].span => i = j
      /\ \A i \in HandOffs : jobs[i].span # bw.span /\ jobs[i].span \notin landed
      /\ \A i \in Results : inbox[i].span # bw.span /\ inbox[i].span \notin landed
      /\ \A i \in HandOffs, j \in Results : jobs[i].span # inbox[j].span
      /\ bw.span \notin landed
  BY DEF PlacesInv
<1>3. {inbox'[i].span : i \in Results'} = {inbox[i].span : i \in Results} \cup {bw.span}
  OBVIOUS
<1>4. inFlight' = {jobs'[i].span : i \in HandOffs'} \cup {inbox'[i].span : i \in Results'}
                         \cup {s \in Spans : s = bw'.span} \cup landed'
  BY <1>1, <1>2, <1>3
<1>5. \A i, j \in Results' : inbox'[i].span = inbox'[j].span => i = j
  BY <1>2
<1>6. \A i \in Results' : inbox'[i].span \in Spans /\ inbox'[i].span \notin landed
                          /\ \A j \in HandOffs : jobs[j].span # inbox'[i].span
  BY <1>2
<1>7. bw'.span \notin landed
  OBVIOUS
<1> QED
  BY <1>1, <1>2, <1>4, <1>5, <1>6, <1>7 DEF PlacesInv

\* A span whose result is reported moves from the hands of the block writer to the inbox.
LEMMA ReportPlaces ==
    ASSUME HandoffInv, Running, bw # Idle, bw' = Idle, NEW m \in Messages, m.kind # "unlinked",
           m.span = bw.span, inbox' = Append(inbox, m), UNCHANGED <<status, jobs, inFlight, landed>>
    PROVE  PlacesInv' /\ Unlinking' = Unlinking
<1>0. HandoffTypeOK /\ PlacesInv
  BY DEF HandoffInv
<1>1. inbox \in Seq(Messages) /\ bw.span \in Spans /\ landed \subseteq Spans
  BY <1>0 DEF HandoffTypeOK, TypeOK
<1>2. PICK n : /\ DOMAIN inbox' = DOMAIN inbox \cup {n} /\ n \notin DOMAIN inbox /\ inbox'[n] = m
               /\ Results' = IF m.kind # "unlinked" THEN Results \cup {n} ELSE Results
  BY <1>1, MessageJoined
<1>3. /\ \A i \in DOMAIN inbox : inbox'[i] = inbox[i]
      /\ {inbox'[i].span : i \in {j \in DOMAIN inbox' : inbox'[j].kind = "unlinked"}}
                 = {inbox[i].span : i \in {j \in DOMAIN inbox : inbox[j].kind = "unlinked"}}
                   \cup (IF m.kind = "unlinked" THEN {m.span} ELSE {})
  BY <1>1, MessageJoined
<1>4. Unlinking' = Unlinking
  BY <1>3 DEF Unlinking
<1>5. Results' = Results \cup {n} /\ n \notin Results /\ inbox'[n].span = bw.span
  BY <1>2 DEF Results
<1>6. bw'.span \notin Spans
  BY IdleHasNone
<1>7. \A i \in Results : inbox[i].span \in Spans /\ inbox'[i] = inbox[i]
  <2>1. \A i \in Results : i \in DOMAIN inbox
    BY DEF Results
  <2> QED
    BY <1>3, <2>1, InFlightNotSettled
<1>8. \A i \in HandOffs : jobs[i].span \in Spans
  BY InFlightNotSettled
<1>9. PlacesInv'
  BY <1>0, <1>1, <1>5, <1>6, <1>7, <1>8, ReportedPlaces
<1> QED
  BY <1>4, <1>9

\* A report that a span could not be written changes nothing but the places.
LEMMA ReportFailedInv ==
    ASSUME HandoffInv, Running, bw # Idle, bw' = Idle,
           inbox' = Append(inbox, [kind |-> "failed", span |-> bw.span]),
           UNCHANGED <<db, files, unsynced, status, txn, head, handoffs, landed, stage, known, jobs>>
    PROVE  HandoffInv'
<1>0. HandoffTypeOK /\ SettledInv /\ FilesInv /\ HeadInv /\ TxnInv /\ HeldInv /\ PlacesInv /\ FlightInv
      /\ PassInv
  BY DEF HandoffInv
<1>u. UNCHANGED <<db, files, unsynced, status, txn, now, ret, open, sealed, waiting, inFlight, failed,
                  due, landed, stage, known, jobs>>
  BY DEF head, handoffs
<1>1. PICK m : m = [kind |-> "failed", span |-> bw.span]
  OBVIOUS
<1>2. inbox \in Seq(Messages) /\ bw.span \in Spans /\ m \in Messages /\ m.kind = "failed" /\ m.span = bw.span
      /\ inbox' = Append(inbox, m)
  BY <1>0, <1>1 DEF HandoffTypeOK, Messages
<1>3. PlacesInv' /\ Unlinking' = Unlinking
  BY <1>u, <1>2, ReportPlaces
<1>4. inbox' \in Seq(Messages) /\ \A i \in DOMAIN inbox' : inbox'[i] \in Messages
  BY <1>2, MessageJoined
<1>5. \A i \in DOMAIN inbox' : inbox'[i].kind = "written" => i \in DOMAIN inbox /\ inbox'[i] = inbox[i]
  BY <1>2, MessageJoined
<1>6. HandoffTypeOK'
  <2>1. bw' \in [span : Spans \cup {-1}, held : SUBSET Series]
    BY DEF Idle
  <2> QED
    BY <1>0, <1>u, <1>4, <2>1 DEF HandoffTypeOK, TypeOK
<1>7. SettledInv'
  <2>1. \A s \in Spans : Settled(s) => Settled(s)'
    BY <1>u DEF Settled, Running
  <2>2. Undone' = Undone
    BY <1>u DEF Undone
  <2> QED
    BY <1>0, <1>u, <1>3, <2>1, <2>2, SettledKept
<1>8. HeadInv' /\ FlightInv'
  BY <1>0, <1>u DEF HeadInv, FlightInv, Running
<1>9. FilesInv' /\ TxnInv' /\ PassInv'
  BY <1>0, <1>u, FilesSame, TxnSame, PassSame
<1>10. HeldInv'
  BY <1>0, <1>u, <1>5 DEF HeldInv, Running
<1> QED
  BY <1>3, <1>6, <1>7, <1>8, <1>9, <1>10 DEF HandoffInv

\* A failed write keeps the invariant.
LEMMA WriteSpanFailsInv ==
    ASSUME HandoffInv, WriteSpanFails
    PROVE  HandoffInv'
BY ReportFailedInv DEF WriteSpanFails, Running

\* A write keeps the invariant: the span's file was not there, so no row names it yet.
LEMMA WriteSpanInv ==
    ASSUME HandoffInv, WriteSpan
    PROVE  HandoffInv'
<1>0. HandoffTypeOK /\ SettledInv /\ FilesInv /\ HeadInv /\ TxnInv /\ HeldInv /\ PlacesInv /\ FlightInv
      /\ PassInv
  BY DEF HandoffInv
<1>r. Running /\ bw # Idle /\ bw' = Idle
  BY DEF WriteSpan, Running
<1>1. CASE files[bw.span] # NoFile
  BY <1>r, <1>1, ReportFailedInv DEF WriteSpan
<1>2. CASE files[bw.span] = NoFile
  <2>u. UNCHANGED <<db, status, txn, now, ret, open, sealed, waiting, inFlight, failed, due, landed, stage,
                    known, jobs>>
    BY DEF WriteSpan, head, handoffs
  <2>1. PICK m : m = [kind |-> "written", span |-> bw.span, held |-> bw.held]
    OBVIOUS
  <2>2. inbox' = Append(inbox, m) /\ files' = [files EXCEPT ![bw.span] = bw.held] /\ unsynced' = {}
    BY <1>2, <2>1 DEF WriteSpan
  <2>3. inbox \in Seq(Messages) /\ bw.span \in Spans /\ bw.held \in SUBSET Series
        /\ files \in [Spans -> (SUBSET Series) \cup {NoFile}]
    BY <1>0, <1>r DEF HandoffTypeOK, TypeOK
  <2>4. m \in Messages /\ m.kind = "written" /\ m.span = bw.span /\ m.held = bw.held
    BY <2>1, <2>3 DEF Messages
  <2>5. PlacesInv' /\ Unlinking' = Unlinking
    BY <1>r, <2>u, <2>2, <2>4, ReportPlaces
  <2>6. inbox' \in Seq(Messages) /\ \A i \in DOMAIN inbox' : inbox'[i] \in Messages
    BY <2>2, <2>3, <2>4, MessageJoined
  <2>7. \A i \in DOMAIN inbox' : (i \in DOMAIN inbox /\ inbox'[i] = inbox[i]) \/ inbox'[i] = m
    BY <2>2, <2>3, <2>4, MessageJoined
  <2>8. /\ files'[bw.span] = bw.held /\ \A s \in Spans : s # bw.span => files'[s] = files[s]
        /\ files' \in [Spans -> (SUBSET Series) \cup {NoFile}]
    BY <2>2, <2>3
  <2>9. HandoffTypeOK'
    <3>1. bw' \in [span : Spans \cup {-1}, held : SUBSET Series]
      BY <1>r DEF Idle
    <3> QED
      BY <1>0, <1>r, <2>u, <2>2, <2>6, <2>8, <3>1 DEF HandoffTypeOK, TypeOK
  <2>10. SettledInv'
    <3>1. \A s \in Spans : Settled(s) => Settled(s)'
      BY <2>u DEF Settled, Running
    <3>2. Undone' = {}
      BY <2>2 DEF Undone
    <3> QED
      BY <1>0, <1>r, <2>u, <2>5, <3>1, <3>2, SettledKept
  <2>11. HeadInv' /\ FlightInv'
    BY <1>0, <2>u DEF HeadInv, FlightInv, Running
  <2>12. PassInv'
    BY <1>0, <2>u, PassSame
  <2>13. bw.span \in inFlight /\ ~Settled(bw.span) /\ bw.span \notin landed /\ landed \subseteq Spans
    BY <1>0, <1>r, InFlightNotSettled DEF PlacesInv
  <2>14. FilesInv'
    <3>1. \A s \in HasRow(db.rows) : s \in Spans /\ s # bw.span /\ files[s] = db.rows[s]
      BY <1>0, <2>13 DEF SettledInv, FilesInv, HasRow
    <3> QED
      BY <2>u, <2>8, <3>1 DEF FilesInv, HasRow
  <2>15. TxnInv'
    <3>1. \A s \in Spans : s \in landed => files'[s] = files[s]
      BY <2>8, <2>13
    <3>2. /\ txn.chunks = {c \in db.chunks : c[1] \notin landed}
          /\ txn.rows = [s \in Spans |-> IF s \in landed THEN files[s] ELSE db.rows[s]]
          /\ txn.pend \subseteq db.pend
      BY <1>0, <1>r DEF TxnInv
    <3>3. [s \in Spans |-> IF s \in landed THEN files[s] ELSE db.rows[s]]
            = [s \in Spans |-> IF s \in landed THEN files'[s] ELSE db.rows[s]]
      BY <3>1
    <3> QED
      BY <2>u, <3>2, <3>3 DEF TxnInv
  <2>16. HeldInv'
    <3>1. \A s \in landed : files'[s] = InSpan(db.chunks, s)
      BY <1>0, <1>r, <2>8, <2>13 DEF HeldInv
    <3>2. bw.held = InSpan(db.chunks, bw.span)
      BY <1>0, <1>r DEF HeldInv
    <3>3. \A i \in DOMAIN inbox : inbox[i].kind = "written" =>
              /\ inbox[i].held = InSpan(db.chunks, inbox[i].span)
              /\ files'[inbox[i].span] = inbox[i].held
      <4>1. \A i \in DOMAIN inbox : inbox[i].kind = "written" => inbox[i].span \in Spans /\ inbox[i].span # bw.span
        <5>1. \A i \in DOMAIN inbox : inbox[i].kind = "written" => i \in Results
          BY DEF Results
        <5>2. \A i \in Results : inbox[i].span # bw.span
          BY <1>0, <1>r DEF PlacesInv
        <5> QED
          BY <1>r, <5>1, <5>2, InFlightNotSettled
      <4> QED
        BY <1>0, <1>r, <2>8, <4>1 DEF HeldInv
    <3>4. m.held = InSpan(db.chunks, m.span) /\ files'[m.span] = m.held
      BY <2>4, <2>8, <3>2
    <3>5. \A i \in DOMAIN inbox' : inbox'[i].kind = "written" =>
              /\ inbox'[i].held = InSpan(db.chunks, inbox'[i].span)
              /\ files'[inbox'[i].span] = inbox'[i].held
      BY <2>7, <3>3, <3>4, Zenon
    <3> QED
      BY <1>r, <2>u, <3>1, <3>5 DEF HeldInv
  <2> QED
    BY <2>5, <2>9, <2>10, <2>11, <2>12, <2>14, <2>15, <2>16 DEF HandoffInv
<1> QED
  BY <1>1, <1>2

\* An unlink leaves the hand-offs their order, and their reports.
LEMMA UnlinkPlaces ==
    ASSUME PlacesInv, Running,
           \A i \in HandOffs' : i \in Int /\ i + 1 \in HandOffs /\ jobs'[i] = jobs[i + 1],
           \A i \in HandOffs : i \in Int /\ i - 1 \in HandOffs' /\ jobs'[i - 1] = jobs[i],
           Results' = Results, \A i \in Results : inbox'[i] = inbox[i],
           UNCHANGED <<status, bw, inFlight, landed>>
    PROVE  PlacesInv'
<1>1. /\ inFlight = {jobs[i].span : i \in HandOffs} \cup {inbox[i].span : i \in Results}
                         \cup {s \in Spans : s = bw.span} \cup landed
      /\ \A i, j \in HandOffs : jobs[i].span = jobs[j].span => i = j
      /\ \A i, j \in Results : inbox[i].span = inbox[j].span => i = j
      /\ \A i \in HandOffs : jobs[i].span # bw.span /\ jobs[i].span \notin landed
      /\ \A i \in Results : inbox[i].span # bw.span /\ inbox[i].span \notin landed
      /\ \A i \in HandOffs, j \in Results : jobs[i].span # inbox[j].span
      /\ bw.span \notin landed
  BY DEF PlacesInv
<1>2. {jobs'[i].span : i \in HandOffs'} = {jobs[i].span : i \in HandOffs}
  OBVIOUS
<1>3. {inbox'[i].span : i \in Results'} = {inbox[i].span : i \in Results}
  OBVIOUS
<1>4. \A i, j \in HandOffs' : jobs'[i].span = jobs'[j].span => i = j
  BY <1>1
<1>5. \A i \in HandOffs' : /\ jobs'[i].span # bw.span /\ jobs'[i].span \notin landed
                          /\ \A j \in Results : jobs'[i].span # inbox[j].span
  BY <1>1
<1> QED
  BY <1>1, <1>2, <1>3, <1>4, <1>5 DEF PlacesInv

\* An unlink taken from the queue leaves the spans in flight where they are.
LEMMA UnlinkTaken ==
    ASSUME HandoffInv, Running, jobs # <<>>, Head(jobs).op = "unlink", jobs' = Tail(jobs),
           Results' = Results, \A i \in Results : inbox'[i] = inbox[i],
           UNCHANGED <<status, bw, inFlight, landed>>
    PROVE  /\ PlacesInv' /\ jobs' \in Seq(JobType)
           /\ Head(jobs).span \in Unlinking /\ Head(jobs).span \in Spans
           /\ {jobs'[i].span : i \in {j \in DOMAIN jobs' : jobs'[j].op = "unlink"}}
                  \subseteq {jobs[i].span : i \in {j \in DOMAIN jobs : jobs[j].op = "unlink"}}
<1>1. /\ jobs' \in Seq(JobType) /\ Head(jobs) = jobs[1] /\ Head(jobs).span \in Spans /\ 1 \in DOMAIN jobs
      /\ \A i \in HandOffs' : i \in Int /\ i + 1 \in HandOffs \ {1} /\ jobs'[i] = jobs[i + 1]
      /\ \A i \in HandOffs \ {1} : i \in Int /\ i - 1 \in HandOffs' /\ jobs'[i - 1] = jobs[i]
      /\ {jobs'[i].span : i \in {j \in DOMAIN jobs' : jobs'[j].op = "unlink"}}
                 \subseteq {jobs[i].span : i \in {j \in DOMAIN jobs : jobs[j].op = "unlink"}}
  <2>1. jobs \in Seq(JobType)
    BY DEF HandoffInv, HandoffTypeOK
  <2> QED
    BY <2>1, JobTaken
<1>2. 1 \notin HandOffs
  BY <1>1 DEF HandOffs
<1>3. /\ \A i \in HandOffs' : i \in Int /\ i + 1 \in HandOffs /\ jobs'[i] = jobs[i + 1]
      /\ \A i \in HandOffs : i \in Int /\ i - 1 \in HandOffs' /\ jobs'[i - 1] = jobs[i]
  BY <1>1, <1>2
<1>4. PlacesInv'
  BY <1>3, UnlinkPlaces DEF HandoffInv
<1>5. Head(jobs).span \in Unlinking
  BY <1>1 DEF Unlinking
<1> QED
  BY <1>1, <1>4, <1>5

\* A failed unlink keeps the invariant.
LEMMA UnlinkFailsInv ==
    ASSUME HandoffInv, UnlinkFails
    PROVE  HandoffInv'
<1>0. HandoffTypeOK /\ SettledInv /\ FilesInv /\ HeadInv /\ TxnInv /\ HeldInv /\ FlightInv
      /\ PassInv
  BY DEF HandoffInv
<1>r. Running
  BY DEF UnlinkFails, Running
<1>u. UNCHANGED <<db, files, unsynced, status, txn, now, ret, open, sealed, waiting, inFlight, failed,
                  due, landed, stage, known, bw, inbox>>
  BY DEF UnlinkFails, head, handoffs
<1>1. jobs # <<>> /\ Head(jobs).op = "unlink" /\ jobs' = Tail(jobs)
  BY DEF UnlinkFails
<1>2. Results' = Results /\ \A i \in Results : inbox'[i] = inbox[i]
  BY <1>u DEF Results
<1>3. /\ PlacesInv' /\ jobs' \in Seq(JobType)
      /\ {jobs'[i].span : i \in {j \in DOMAIN jobs' : jobs'[j].op = "unlink"}}
            \subseteq {jobs[i].span : i \in {j \in DOMAIN jobs : jobs[j].op = "unlink"}}
  BY <1>r, <1>u, <1>1, <1>2, UnlinkTaken
<1>4. HandoffTypeOK'
  BY <1>0, <1>u, <1>3 DEF HandoffTypeOK, TypeOK
<1>5. SettledInv'
  <2>1. \A s \in Spans : Settled(s) => Settled(s)'
    BY <1>u DEF Settled, Running
  <2>2. Unlinking' \subseteq Unlinking /\ Undone' = Undone
    BY <1>u, <1>3 DEF Unlinking, Undone
  <2> QED
    BY <1>0, <1>r, <1>u, <2>1, <2>2, SettledKept
<1>6. HeadInv' /\ FlightInv'
  BY <1>0, <1>u DEF HeadInv, FlightInv, Running
<1>7. FilesInv' /\ TxnInv' /\ HeldInv' /\ PassInv'
  BY <1>0, <1>u, FilesSame, TxnSame, HeldSame, PassSame
<1> QED
  BY <1>3, <1>4, <1>5, <1>6, <1>7 DEF HandoffInv

\* An unlink keeps the invariant: the span is settled, so no row names its file.
LEMMA UnlinkInv ==
    ASSUME HandoffInv, Unlink
    PROVE  HandoffInv'
<1>0. HandoffTypeOK /\ SettledInv /\ FilesInv /\ HeadInv /\ TxnInv /\ HeldInv /\ PlacesInv /\ FlightInv
      /\ PassInv
  BY DEF HandoffInv
<1>r. Running
  BY DEF Unlink, Running
<1>u. UNCHANGED <<db, status, txn, now, ret, open, sealed, waiting, inFlight, failed,
                  due, landed, stage, known, bw>>
  BY DEF Unlink, head, handoffs
<1>1. PICK s : s = Head(jobs).span
  OBVIOUS
<1>2. PICK m : m = [kind |-> "unlinked", span |-> s]
  OBVIOUS
<1>3. /\ jobs # <<>> /\ Head(jobs).op = "unlink" /\ jobs' = Tail(jobs)
      /\ inbox' = Append(inbox, m) /\ files' = [files EXCEPT ![s] = NoFile]
      /\ unsynced' = IF UnlinkReturns /\ files[s] # NoFile
                     THEN unsynced \cup {<<s, files[s]>>} ELSE unsynced
  BY <1>1, <1>2 DEF Unlink
<1>4. s \in Spans
  <2>1. jobs \in Seq(JobType)
    BY <1>0 DEF HandoffTypeOK
  <2>2. Head(jobs) \in JobType
    BY <1>3, <2>1, Taken
  <2> QED
    BY <1>1, <2>2 DEF JobType
<1>5. m \in Messages /\ m.kind = "unlinked" /\ m.span = s
  BY <1>2, <1>4 DEF Messages
<1>6. inbox \in Seq(Messages) /\ files \in [Spans -> (SUBSET Series) \cup {NoFile}]
      /\ unsynced \subseteq Spans \X (SUBSET Series) /\ landed \subseteq Spans
  BY <1>0 DEF HandoffTypeOK, TypeOK
<1>7. /\ inbox' \in Seq(Messages) /\ \A i \in DOMAIN inbox' : inbox'[i] \in Messages
      /\ Results' = Results
      /\ \A i \in DOMAIN inbox : inbox'[i] = inbox[i]
      /\ \A i \in DOMAIN inbox' : i \in DOMAIN inbox \/ inbox'[i] = m
      /\ {inbox'[i].span : i \in {j \in DOMAIN inbox' : inbox'[j].kind = "unlinked"}}
            = {inbox[i].span : i \in {j \in DOMAIN inbox : inbox[j].kind = "unlinked"}} \cup {s}
  BY <1>3, <1>5, <1>6, MessageJoined
<1>8. \A i \in Results : i \in DOMAIN inbox /\ inbox'[i] = inbox[i]
  BY <1>7 DEF Results
<1>9. /\ PlacesInv' /\ jobs' \in Seq(JobType) /\ s \in Unlinking
      /\ {jobs'[i].span : i \in {j \in DOMAIN jobs' : jobs'[j].op = "unlink"}}
            \subseteq {jobs[i].span : i \in {j \in DOMAIN jobs : jobs[j].op = "unlink"}}
  BY <1>r, <1>u, <1>1, <1>3, <1>7, <1>8, UnlinkTaken
<1>10. Settled(s) /\ s \notin HasRow(db.rows) /\ s \notin inFlight /\ s \notin landed
  BY <1>0, <1>r, <1>9, InFlightNotSettled DEF SettledInv
<1>11. /\ files' \in [Spans -> (SUBSET Series) \cup {NoFile}] /\ \A u \in Spans : u # s => files'[u] = files[u]
  BY <1>3, <1>6
<1>12. unsynced' \subseteq unsynced \cup {<<s, files[s]>>} /\ unsynced' \subseteq Spans \X (SUBSET Series)
  BY <1>3, <1>4, <1>6
<1>13. HandoffTypeOK'
  BY <1>0, <1>u, <1>7, <1>9, <1>11, <1>12 DEF HandoffTypeOK, TypeOK
<1>14. SettledInv'
  <2>1. \A u \in Spans : Settled(u) => Settled(u)'
    BY <1>u DEF Settled, Running
  <2>2. Undone' \subseteq Undone \cup {s}
    BY <1>12 DEF Undone
  <2>3. Unlinking' \subseteq Unlinking
    <3>1. Unlinking' \subseteq Unlinking \cup {s}
      BY <1>7, <1>9 DEF Unlinking
    <3> QED
      BY <1>9, <3>1
  <2> QED
    BY <1>0, <1>r, <1>u, <1>9, <2>1, <2>2, <2>3, SettledKept
<1>15. HeadInv' /\ FlightInv'
  BY <1>0, <1>u DEF HeadInv, FlightInv, Running
<1>16. PassInv'
  BY <1>0, <1>u, PassSame
<1>17. FilesInv'
  <2>1. \A u \in HasRow(db.rows) : u \in Spans /\ u # s /\ files[u] = db.rows[u]
    BY <1>0, <1>10 DEF FilesInv, HasRow
  <2> QED
    BY <1>u, <1>11, <2>1 DEF FilesInv, HasRow
<1>18. TxnInv'
  <2>1. \A u \in Spans : u \in landed => files'[u] = files[u]
    BY <1>10, <1>11
  <2>2. /\ txn.chunks = {c \in db.chunks : c[1] \notin landed}
        /\ txn.rows = [u \in Spans |-> IF u \in landed THEN files[u] ELSE db.rows[u]]
        /\ txn.pend \subseteq db.pend
    BY <1>0, <1>r DEF TxnInv
  <2>3. [u \in Spans |-> IF u \in landed THEN files[u] ELSE db.rows[u]]
          = [u \in Spans |-> IF u \in landed THEN files'[u] ELSE db.rows[u]]
    BY <2>1
  <2> QED
    BY <1>u, <2>2, <2>3 DEF TxnInv
<1>19. HeldInv'
  <2>1. \A u \in landed : files'[u] = InSpan(db.chunks, u)
    BY <1>0, <1>r, <1>6, <1>10, <1>11 DEF HeldInv
  <2>2. \A i \in DOMAIN inbox : inbox[i].kind = "written" => inbox[i].span \in Spans /\ inbox[i].span # s
    <3>1. \A i \in DOMAIN inbox : inbox[i].kind = "written" => i \in Results
      BY DEF Results
    <3> QED
      BY <1>r, <1>10, <3>1, InFlightNotSettled
  <2>3. \A i \in DOMAIN inbox : inbox[i].kind = "written" =>
              /\ inbox[i].held = InSpan(db.chunks, inbox[i].span)
              /\ files'[inbox[i].span] = inbox[i].held
    BY <1>0, <1>r, <1>11, <2>2 DEF HeldInv
  <2>4. \A i \in DOMAIN inbox' : inbox'[i].kind = "written" => i \in DOMAIN inbox /\ inbox'[i] = inbox[i]
    BY <1>5, <1>7
  <2>5. bw # Idle => bw.held = InSpan(db.chunks, bw.span)
    BY <1>0, <1>r DEF HeldInv
  <2> QED
    BY <1>u, <2>1, <2>3, <2>4, <2>5 DEF HeldInv
<1> QED
  BY <1>9, <1>13, <1>14, <1>15, <1>16, <1>17, <1>18, <1>19 DEF HandoffInv

-----------------------------------------------------------------------------
(* The writer handles a message.                                           *)

\* A report handled leaves the other places as they were: its span joins the open transaction,
\* or is no longer in flight.
LEMMA ReceivedPlaces ==
    ASSUME PlacesInv, Running, UNCHANGED <<status, jobs, bw>>, bw.span \notin Spans \/ bw.span \in inFlight,
           \A i \in Results' : i \in Int /\ i + 1 \in Results \ {1} /\ inbox'[i] = inbox[i + 1],
           \A i \in Results \ {1} : i \in Int /\ i - 1 \in Results' /\ inbox'[i - 1] = inbox[i],
           \/ /\ 1 \in Results /\ inbox[1].span \in Spans
              /\ \/ inFlight' = inFlight /\ landed' = landed \cup {inbox[1].span}
                 \/ inFlight' = inFlight \ {inbox[1].span} /\ landed' = landed
           \/ 1 \notin Results /\ UNCHANGED <<inFlight, landed>>
    PROVE  PlacesInv'
<1>1. HandOffs' = HandOffs
  BY DEF HandOffs
<1>2. /\ inFlight = {jobs[i].span : i \in HandOffs} \cup {inbox[i].span : i \in Results}
                         \cup {s \in Spans : s = bw.span} \cup landed
      /\ \A i, j \in HandOffs : jobs[i].span = jobs[j].span => i = j
      /\ \A i, j \in Results : inbox[i].span = inbox[j].span => i = j
      /\ \A i \in HandOffs : jobs[i].span # bw.span /\ jobs[i].span \notin landed
      /\ \A i \in Results : inbox[i].span # bw.span /\ inbox[i].span \notin landed
      /\ \A i \in HandOffs, j \in Results : jobs[i].span # inbox[j].span
      /\ bw.span \notin landed
  BY DEF PlacesInv
<1>3. \A i, j \in Results' : inbox'[i].span = inbox'[j].span => i = j
  BY <1>2
<1>4. \A i \in Results' : /\ inbox'[i].span # bw.span /\ inbox'[i].span \notin landed
                          /\ \A j \in HandOffs : jobs[j].span # inbox'[i].span
  BY <1>2
<1>5. CASE 1 \in Results /\ inbox[1].span \in Spans
  <2>1. PICK h : h = inbox[1].span
    OBVIOUS
  <2>2. {inbox[i].span : i \in Results} = {inbox'[i].span : i \in Results'} \cup {h}
    BY <1>5, <2>1
  <2>3. \A i \in Results' : inbox'[i].span # h
    BY <1>2, <1>5, <2>1
  <2>4. h # bw.span /\ h \notin landed /\ \A j \in HandOffs : jobs[j].span # h
    BY <1>2, <1>5, <2>1
  <2>5. \/ inFlight' = inFlight /\ landed' = landed \cup {h}
        \/ inFlight' = inFlight \ {h} /\ landed' = landed
    BY <1>5, <2>1
  <2>6. inFlight' = {jobs[i].span : i \in HandOffs} \cup {inbox'[i].span : i \in Results'}
                         \cup {s \in Spans : s = bw.span} \cup landed'
    BY <1>2, <2>2, <2>3, <2>4, <2>5
  <2>7. /\ \A i \in Results' : inbox'[i].span \notin landed'
        /\ \A i \in HandOffs : jobs[i].span \notin landed'
        /\ bw.span \notin landed'
    BY <1>2, <1>4, <2>3, <2>4, <2>5
  <2> QED
    BY <1>1, <1>2, <1>3, <1>4, <2>6, <2>7 DEF PlacesInv
<1>6. CASE 1 \notin Results /\ UNCHANGED <<inFlight, landed>>
  <2>1. {inbox[i].span : i \in Results} = {inbox'[i].span : i \in Results'}
    BY <1>6
  <2> QED
    BY <1>1, <1>2, <1>3, <1>4, <1>6, <2>1 DEF PlacesInv
<1> QED
  BY <1>5, <1>6

\* A message handled keeps the invariant: a written span lands, a failed one leaves flight.
LEMMA ReceiveInv ==
    ASSUME HandoffInv, Receive
    PROVE  HandoffInv'
<1>0. HandoffTypeOK /\ SettledInv /\ FilesInv /\ HeadInv /\ TxnInv /\ HeldInv /\ PlacesInv /\ FlightInv
      /\ PassInv
  BY DEF HandoffInv
<1>r. Running
  BY DEF Receive, Running
<1>u. UNCHANGED <<db, files, unsynced, faults, now, ret, open, sealed, stage, known, jobs, bw>>
  BY DEF Receive, head
<1>1. PICK m : m = Head(inbox)
  OBVIOUS
<1>2. \/ m.kind = "written" /\ HandOffWritten(m) /\ UNCHANGED <<waiting, inFlight, failed, due>>
      \/ m.kind = "failed" /\ AttemptFailed(m) /\ UNCHANGED <<txn, landed, status, waiting, due>>
      \/ m.kind = "unlinked" /\ EntryCleared(m) /\ UNCHANGED <<landed, status, waiting, inFlight, failed, due>>
  BY <1>1 DEF Receive, handoffs
<1>3. inbox \in Seq(Messages) /\ inbox # <<>> /\ inbox' = Tail(inbox)
  BY <1>0 DEF HandoffTypeOK, Receive
<1>4. /\ inbox' \in Seq(Messages) /\ \A i \in DOMAIN inbox' : inbox'[i] \in Messages
      /\ m = inbox[1] /\ m \in Messages /\ 1 \in DOMAIN inbox
      /\ \A i \in DOMAIN inbox' : i \in Int /\ i + 1 \in DOMAIN inbox \ {1} /\ inbox'[i] = inbox[i + 1]
      /\ \A i \in DOMAIN inbox \ {1} : i \in Int /\ i - 1 \in DOMAIN inbox' /\ inbox'[i - 1] = inbox[i]
  BY <1>1, <1>3, MessageTaken
<1>5. /\ \A i \in Results' : i \in Int /\ i + 1 \in Results \ {1} /\ inbox'[i] = inbox[i + 1]
      /\ \A i \in Results \ {1} : i \in Int /\ i - 1 \in Results' /\ inbox'[i - 1] = inbox[i]
  BY <1>4 DEF Results
<1>6. Unlinking' \subseteq Unlinking /\ Undone' = Undone
  BY <1>u, <1>4 DEF Unlinking, Undone
<1>7. m.span \in Spans
  BY <1>4 DEF Messages
<1>8. m.kind # "unlinked" => 1 \in Results /\ m.span \in inFlight /\ m.span \notin landed
  <2>1. m.kind # "unlinked" => 1 \in Results
    BY <1>4 DEF Results
  <2> QED
    BY <1>0, <1>r, <1>4, <2>1 DEF PlacesInv
<1>9. m.kind = "unlinked" => 1 \notin Results
  BY <1>4 DEF Results
<1>10. bw.span \notin Spans \/ bw.span \in inFlight
  BY <1>r, IdleHasNone, InFlightNotSettled
<1>11. m.kind = "written" => txn.rows[m.span] = NoRow
  <2>1. m.kind = "written" => txn.rows[m.span] = db.rows[m.span]
    BY <1>0, <1>r, <1>7, <1>8 DEF TxnInv
  <2>2. m.kind = "written" => m.span \notin HasRow(db.rows)
    BY <1>0, <1>r, <1>8, InFlightNotSettled DEF SettledInv
  <2> QED
    BY <1>7, <2>1, <2>2 DEF HasRow
<1>12. /\ status' = status /\ waiting' = waiting /\ due' = due
       /\ inFlight' \subseteq inFlight /\ failed' \subseteq failed \cup {m.span}
       /\ landed' \subseteq landed \cup {m.span}
  BY <1>2, <1>11 DEF HandOffWritten, AttemptFailed, EntryCleared
<1>13. /\ txn \in [chunks : SUBSET (Spans \X Series), rows : [Spans -> (SUBSET Series) \cup {NoRow}],
                   pend : SUBSET Spans]
       /\ landed \cup failed \cup inFlight \subseteq Spans
  BY <1>0 DEF HandoffTypeOK, TypeOK
<1>14. /\ HeadInv' /\ PassInv' /\ FilesInv'
  BY <1>0, <1>u, <1>12, PassSame, FilesSame DEF HeadInv, Running
<1>15. FlightInv'
  BY <1>0, <1>u, <1>12 DEF FlightInv, Running
<1>16. SettledInv'
  <2>1. \A s \in Spans : Settled(s) => Settled(s)'
    BY <1>u, <1>12 DEF Settled, Running
  <2> QED
    BY <1>0, <1>r, <1>u, <1>6, <1>12, <2>1, SettledKept
<1>17. ASSUME txn' \in [chunks : SUBSET (Spans \X Series), rows : [Spans -> (SUBSET Series) \cup {NoRow}],
                        pend : SUBSET Spans]
       PROVE  HandoffTypeOK'
  <2>1. waiting' \cup inFlight' \cup failed' \cup due' \cup landed' \subseteq Spans
    BY <1>0, <1>7, <1>12, <1>13 DEF HandoffTypeOK, TypeOK
  <2> QED
    BY <1>0, <1>u, <1>4, <1>12, <1>17, <2>1 DEF HandoffTypeOK, TypeOK
<1>18. ASSUME \A s \in landed' : files[s] = InSpan(db.chunks, s)
       PROVE  HeldInv'
  <2>1. /\ bw # Idle => bw.held = InSpan(db.chunks, bw.span)
        /\ \A i \in DOMAIN inbox : inbox[i].kind = "written" =>
               /\ inbox[i].held = InSpan(db.chunks, inbox[i].span)
               /\ files[inbox[i].span] = inbox[i].held
    BY <1>0, <1>r DEF HeldInv
  <2>2. \A i \in DOMAIN inbox' : \E j \in DOMAIN inbox : inbox'[i] = inbox[j]
    BY <1>4
  <2>3. \A i \in DOMAIN inbox' : inbox'[i].kind = "written" =>
               /\ inbox'[i].held = InSpan(db.chunks, inbox'[i].span)
               /\ files[inbox'[i].span] = inbox'[i].held
    BY <2>1, <2>2, Zenon
  <2> QED
    BY <1>u, <1>18, <2>1, <2>3 DEF HeldInv
<1>19. CASE m.kind = "written" /\ HandOffWritten(m) /\ UNCHANGED <<waiting, inFlight, failed, due>>
  <2>1. /\ txn' = [txn EXCEPT !.rows[m.span] = m.held, !.chunks = {c \in @ : c[1] # m.span}]
        /\ landed' = landed \cup {m.span}
    BY <1>11, <1>19 DEF HandOffWritten
  <2>2. m.held \in SUBSET Series /\ m.held = InSpan(db.chunks, m.span) /\ files[m.span] = m.held
    <3>1. m.held = InSpan(db.chunks, m.span) /\ files[m.span] = m.held
      BY <1>0, <1>r, <1>4, <1>19 DEF HeldInv
    <3>2. InSpan(db.chunks, m.span) \subseteq Series
      BY <1>0 DEF InSpan, HandoffTypeOK, TypeOK
    <3> QED
      BY <3>1, <3>2
  <2>3. /\ txn'.chunks = {c \in txn.chunks : c[1] # m.span} /\ txn'.pend = txn.pend
        /\ txn'.rows = [txn.rows EXCEPT ![m.span] = m.held]
        /\ txn' \in [chunks : SUBSET (Spans \X Series), rows : [Spans -> (SUBSET Series) \cup {NoRow}],
                    pend : SUBSET Spans]
    BY <1>7, <1>13, <2>1, <2>2
  <2>4. HandoffTypeOK'
    BY <1>17, <2>3
  <2>5. TxnInv'
    <3>1. /\ txn.chunks = {c \in db.chunks : c[1] \notin landed}
          /\ txn.rows = [s \in Spans |-> IF s \in landed THEN files[s] ELSE db.rows[s]]
          /\ txn.pend \subseteq db.pend
      BY <1>0, <1>r DEF TxnInv
    <3>2. txn'.chunks = {c \in db.chunks : c[1] \notin landed'}
      BY <2>1, <2>3, <3>1
    <3>3. txn'.rows = [s \in Spans |-> IF s \in landed' THEN files[s] ELSE db.rows[s]]
      BY <1>7, <2>1, <2>2, <2>3, <3>1
    <3> QED
      BY <1>u, <2>3, <3>1, <3>2, <3>3 DEF TxnInv
  <2>6. HeldInv'
    <3>1. \A s \in landed' : files[s] = InSpan(db.chunks, s)
      BY <1>0, <1>r, <2>1, <2>2 DEF HeldInv
    <3> QED
      BY <1>18, <3>1
  <2>7. PlacesInv'
    BY <1>0, <1>r, <1>u, <1>4, <1>5, <1>7, <1>8, <1>10, <1>12, <1>19, <2>1, ReceivedPlaces
  <2> QED
    BY <1>14, <1>15, <1>16, <2>4, <2>5, <2>6, <2>7 DEF HandoffInv
<1>20. CASE m.kind = "failed" /\ AttemptFailed(m) /\ UNCHANGED <<txn, landed, status, waiting, due>>
  <2>1. HandoffTypeOK'
    BY <1>13, <1>17, <1>20
  <2>2. TxnInv'
    BY <1>0, <1>u, <1>20, TxnSame
  <2>3. HeldInv'
    BY <1>0, <1>r, <1>18, <1>20 DEF HeldInv
  <2>4. PlacesInv'
    BY <1>0, <1>r, <1>u, <1>4, <1>5, <1>7, <1>8, <1>10, <1>20, ReceivedPlaces DEF AttemptFailed
  <2> QED
    BY <1>14, <1>15, <1>16, <2>1, <2>2, <2>3, <2>4 DEF HandoffInv
<1>21. CASE m.kind = "unlinked" /\ EntryCleared(m) /\ UNCHANGED <<landed, status, waiting, inFlight, failed, due>>
  <2>1. txn' = [txn EXCEPT !.pend = @ \ {m.span}]
    BY <1>21 DEF EntryCleared
  <2>2. /\ txn'.chunks = txn.chunks /\ txn'.rows = txn.rows /\ txn'.pend \subseteq txn.pend
        /\ txn' \in [chunks : SUBSET (Spans \X Series), rows : [Spans -> (SUBSET Series) \cup {NoRow}],
                    pend : SUBSET Spans]
    BY <1>13, <2>1
  <2>3. HandoffTypeOK'
    BY <1>17, <2>2
  <2>4. TxnInv'
    BY <1>0, <1>r, <1>u, <1>21, <2>2 DEF TxnInv
  <2>5. HeldInv'
    BY <1>0, <1>r, <1>18, <1>21 DEF HeldInv
  <2>6. PlacesInv'
    BY <1>0, <1>r, <1>u, <1>5, <1>9, <1>10, <1>21, ReceivedPlaces
  <2> QED
    BY <1>14, <1>15, <1>16, <2>3, <2>4, <2>5, <2>6 DEF HandoffInv
<1> QED
  BY <1>2, <1>19, <1>20, <1>21

-----------------------------------------------------------------------------
(* An open.                                                                *)

\* A refused open changes nothing.
LEMMA RefusedInv ==
    ASSUME HandoffInv, status' = "refused",
           UNCHANGED <<db, files, unsynced, txn, head, handoffs, landed, stage, known, threads>>
    PROVE  HandoffInv'
<1>0. HandoffTypeOK /\ SettledInv /\ FilesInv
  BY DEF HandoffInv
<1>u. UNCHANGED <<db, files, unsynced, txn, now, ret, open, sealed, waiting, inFlight, failed,
                  due, landed, stage, known, jobs, bw, inbox>>
  BY DEF head, handoffs, threads
<1>1. ~Running'
  BY DEF Running
<1>2. HandoffTypeOK'
  BY <1>0, <1>u DEF HandoffTypeOK, TypeOK
<1>3. FilesInv'
  BY <1>0, <1>u, FilesSame
<1>4. SettledInv'
  <2>1. \A s : Settled(s) => Settled(s)'
    BY <1>u, <1>1 DEF Settled
  <2>2. HasRow(db.rows)' = HasRow(db.rows) /\ Undone' = Undone /\ db' = db
    BY <1>u DEF HasRow, Undone
  <2> QED
    BY <1>0, <1>1, <2>1, <2>2 DEF SettledInv
<1>5. HeadInv' /\ TxnInv' /\ HeldInv' /\ PlacesInv' /\ FlightInv' /\ PassInv'
  BY <1>1 DEF HeadInv, TxnInv, HeldInv, PlacesInv, FlightInv, PassInv, Running
<1> QED
  BY <1>2, <1>3, <1>4, <1>5 DEF HandoffInv

\* An open that starts the store establishes what the running store keeps.
LEMMA OpensInv ==
    ASSUME HandoffInv, NEW t \in Times, NEW r \in Times, db.now <= t, Opens(t, r)
    PROVE  HandoffInv'
<1> DEFINE late == {c \in db.open : Closed(c[1], t)}
           kept == {s \in HasFile : s \notin db.pend /\ s \notin Orphans}
<1>0. HandoffTypeOK /\ SettledInv /\ FilesInv
  BY DEF HandoffInv
<1>1. /\ status' = "running" /\ now' = t /\ ret' = r /\ unsynced' = unsynced
      /\ files' = [s \in Spans |-> IF s \in kept THEN files[s] ELSE NoFile]
      /\ db' = [db EXCEPT !.pend = {}]
      /\ txn' = [chunks |-> db.chunks, rows |-> db.rows, pend |-> {}]
      /\ open' = db.open \ late /\ sealed' = late
      /\ waiting' = SpansOf(db.chunks) /\ inFlight' = {} /\ failed' = {} /\ due' = {} /\ landed' = {}
      /\ stage' = [at |-> "scan", from |-> 0]
      /\ known' = [s \in Spans |-> IF db.rows[s] = NoRow THEN "none"
                                   ELSE IF s \in kept THEN "readable" ELSE "unreadable"]
      /\ jobs' = <<>> /\ bw' = Idle /\ inbox' = <<>>
  BY DEF Opens
<1>2. late \subseteq db.open
  OBVIOUS
<1>3. \A s \in HasRow(db.rows) : s \in Spans /\ s \in kept
  <2>1. \A s \in HasRow(db.rows) : s \in Spans /\ db.rows[s] # NoRow /\ db.rows[s] \in SUBSET Series
                                  /\ files[s] = db.rows[s] /\ s \notin db.pend
    BY <1>0 DEF HasRow, FilesInv, SettledInv, HandoffTypeOK, TypeOK
  <2> QED
    BY <2>1, HandoffAssumption DEF HasFile, Orphans
<1> HIDE DEF late, kept
<1>4. /\ db'.chunks = db.chunks /\ db'.rows = db.rows /\ db'.pend = {} /\ db'.now = db.now
      /\ db'.open = db.open
      /\ db' \in [chunks : SUBSET (Spans \X Series), rows : [Spans -> (SUBSET Series) \cup {NoRow}],
                  pend : SUBSET Spans, now : Times, ret : Times, open : SUBSET (Spans \X Series)]
  BY <1>0, <1>1 DEF HandoffTypeOK, TypeOK
<1>5. /\ txn'.chunks = db.chunks /\ txn'.rows = db.rows /\ txn'.pend = {}
      /\ txn' \in [chunks : SUBSET (Spans \X Series), rows : [Spans -> (SUBSET Series) \cup {NoRow}],
                   pend : SUBSET Spans]
  BY <1>0, <1>1 DEF HandoffTypeOK, TypeOK
<1>6. SpansOf(db.chunks) \subseteq Spans /\ db.open \subseteq Spans \X Series /\ db.now \in Times
      /\ db.rows \in [Spans -> (SUBSET Series) \cup {NoRow}]
  BY <1>0 DEF SpansOf, HandoffTypeOK, TypeOK
<1>7. <<>> \in Seq(JobType) /\ <<>> \in Seq(Messages)
  OBVIOUS
<1>8. HandoffTypeOK'
  <2>1. files' \in [Spans -> (SUBSET Series) \cup {NoFile}]
    BY <1>0, <1>1 DEF HandoffTypeOK, TypeOK
  <2>2. known' \in [Spans -> {"none", "readable", "unreadable"}]
    BY <1>1
  <2>3. /\ status' \in {"down", "running", "failed", "refused"} /\ now' \in Times /\ ret' \in Times
        /\ open' \subseteq Spans \X Series /\ sealed' \subseteq Spans \X Series
        /\ waiting' \cup inFlight' \cup failed' \cup due' \cup landed' \subseteq Spans
    BY <1>1, <1>2, <1>6
  <2>4. bw' \in [span : Spans \cup {-1}, held : SUBSET Series] /\ bw' = Idle
    BY <1>1 DEF Idle
  <2>5. jobs' \in Seq(JobType) /\ inbox' \in Seq(Messages) /\ \A i \in DOMAIN inbox' : inbox'[i] \in Messages
    BY <1>1, <1>7
  <2>6. unsynced' \subseteq Spans \X (SUBSET Series)
    BY <1>0, <1>1 DEF HandoffTypeOK
  <2> QED
    BY <1>4, <1>5, <2>1, <2>2, <2>3, <2>4, <2>5, <2>6, Zenon DEF HandoffTypeOK, TypeOK
<1>9. Unlinking' = {} /\ Undone' = Undone /\ HandOffs' = {} /\ Results' = {}
  BY <1>1 DEF Unlinking, Undone, HandOffs, Results
<1>10. HasRow(db.rows)' = HasRow(db.rows)
  BY <1>4 DEF HasRow
<1>11. SettledInv'
  <2>1. SpansOf(open') \subseteq SpansOf(db.open) /\ SpansOf(sealed') \subseteq SpansOf(db.open)
    BY <1>1, <1>2 DEF SpansOf
  <2>2. \A s : Settled(s) => Settled(s)'
    BY <1>1, <1>4, <2>1 DEF Settled
  <2> QED
    BY <1>0, <1>4, <1>9, <1>10, <2>2 DEF SettledInv
<1>12. FilesInv'
  <2>1. \A s \in HasRow(db.rows) : files'[s] = files[s]
    BY <1>1, <1>3
  <2> QED
    BY <1>0, <1>4, <1>10, <2>1 DEF FilesInv
<1>13. HeadInv'
  BY <1>1, <1>2, <1>4 DEF HeadInv
<1>14. TxnInv'
  <2>1. txn'.chunks = {c \in db'.chunks : c[1] \notin landed'}
    BY <1>1, <1>4, <1>5
  <2>2. txn'.rows = [s \in Spans |-> IF s \in landed' THEN files'[s] ELSE db'.rows[s]]
    BY <1>1, <1>4, <1>5, <1>6
  <2> QED
    BY <1>4, <1>5, <2>1, <2>2 DEF TxnInv
<1>15. HeldInv'
  BY <1>1 DEF HeldInv
<1>16. PlacesInv'
  <2>1. {s \in Spans : s = bw'.span} = {}
    BY <1>1, IdleHasNone
  <2> QED
    BY <1>1, <1>9, <2>1 DEF PlacesInv
<1>17. FlightInv'
  BY <1>1, <1>4 DEF FlightInv
<1>18. PassInv'
  BY <1>1 DEF PassInv
<1> QED
  BY <1>8, <1>11, <1>12, <1>13, <1>14, <1>15, <1>16, <1>17, <1>18 DEF HandoffInv

\* An open keeps the invariant, started or refused.
LEMMA OpenInv ==
    ASSUME HandoffInv, NEW sys \in Times, NEW r \in Times, Open(sys, r)
    PROVE  HandoffInv'
<1>1. PICK t : t = IF sys > db.now THEN sys ELSE db.now
  OBVIOUS
<1>2. t \in Times /\ db.now <= t
  BY <1>1, HandoffAssumption DEF HandoffInv, HandoffTypeOK, TypeOK, Times
<1>3. Opens(t, r) \/ (status' = "refused" /\ UNCHANGED <<db, files, unsynced, txn, head, handoffs, landed,
                                                         stage, known, threads>>)
  BY <1>1 DEF Open
<1> QED
  BY <1>2, <1>3, OpensInv, RefusedInv

-----------------------------------------------------------------------------
(* A commit.                                                               *)

\* A queue and another after it.
LEMMA Chained ==
    ASSUME NEW S, NEW q \in Seq(S), NEW r \in Seq(S)
    PROVE  /\ q \o r \in Seq(S) /\ Len(q) \in Int
           /\ \A i \in DOMAIN q : i \in DOMAIN (q \o r) /\ (q \o r)[i] = q[i]
           /\ \A j \in DOMAIN r : /\ j \in Int /\ j + Len(q) \in DOMAIN (q \o r) /\ j + Len(q) \notin DOMAIN q
                                  /\ (q \o r)[j + Len(q)] = r[j]
           /\ \A i \in DOMAIN (q \o r) : i \in Int /\ (i \notin DOMAIN q => i - Len(q) \in DOMAIN r
                                                         /\ (q \o r)[i] = r[i - Len(q)])
<1>1. Len(q) \in Nat /\ Len(r) \in Nat /\ DOMAIN q = 1..Len(q) /\ DOMAIN r = 1..Len(r)
  OBVIOUS
<1>2. q \o r \in Seq(S) /\ Len(q \o r) = Len(q) + Len(r) /\ DOMAIN (q \o r) = 1..(Len(q) + Len(r))
  BY <1>1
<1>3. \A i \in 1..(Len(q) + Len(r)) : (q \o r)[i] = IF i <= Len(q) THEN q[i] ELSE r[i - Len(q)]
  BY <1>1
<1>4. \A i \in DOMAIN q : i \in DOMAIN (q \o r) /\ (q \o r)[i] = q[i]
  BY <1>1, <1>2, <1>3
<1>5. \A j \in DOMAIN r : /\ j \in Int /\ j + Len(q) \in DOMAIN (q \o r) /\ j + Len(q) \notin DOMAIN q
                         /\ (q \o r)[j + Len(q)] = r[j]
  BY <1>1, <1>2, <1>3
<1>6. \A i \in DOMAIN (q \o r) : i \in Int /\ (i \notin DOMAIN q => i - Len(q) \in DOMAIN r
                                                         /\ (q \o r)[i] = r[i - Len(q)])
  BY <1>1, <1>2, <1>3
<1> QED
  BY <1>1, <1>2, <1>4, <1>5, <1>6

\* A queue of jobs, and the hand-offs and the unlinks in it.
JobSpan(job) == job.span
IsHandOff(job) == job.op = "hand off"
IsUnlink(job) == job.op = "unlink"
IsQueue(js) == js \in Seq(JobType)
HandOffsOf(js) == {i \in DOMAIN js : IsHandOff(js[i])}
UnlinksOf(js) == {i \in DOMAIN js : IsUnlink(js[i])}

\* The queue after a commit: the jobs that were there, a hand-off for each due span, an unlink
\* for each retired one.
Queued(js, q, hand, retired) ==
    /\ IsQueue(js)
    /\ {JobSpan(js[i]) : i \in HandOffsOf(js)} = {JobSpan(q[i]) : i \in HandOffsOf(q)} \cup hand
    /\ \A i, j \in HandOffsOf(js) : JobSpan(js[i]) = JobSpan(js[j]) => i = j
    /\ {JobSpan(js[i]) : i \in UnlinksOf(js)} \subseteq {JobSpan(q[i]) : i \in UnlinksOf(q)} \cup retired

\* A queue that is q and then r.
QueueOf(both, q, r) ==
    \E n \in Int :
        /\ IsQueue(both)
        /\ \A i \in DOMAIN q : i \in DOMAIN both /\ both[i] = q[i]
        /\ \A j \in DOMAIN r : j \in Int /\ j + n \in DOMAIN both /\ j + n \notin DOMAIN q /\ both[j + n] = r[j]
        /\ \A i \in DOMAIN both : i \in Int /\ (i \notin DOMAIN q => i - n \in DOMAIN r /\ both[i] = r[i - n])

\* Two queues chained hold the jobs of both.
LEMMA QueuesChained ==
    ASSUME NEW q, NEW r, IsQueue(q), IsQueue(r)
    PROVE  QueueOf(q \o r, q, r)
<1>0. PICK both : both = q \o r
  OBVIOUS
<1>1. q \in Seq(JobType) /\ r \in Seq(JobType)
  BY DEF IsQueue
<1>2. /\ both \in Seq(JobType) /\ Len(q) \in Int
      /\ \A i \in DOMAIN q : i \in DOMAIN both /\ both[i] = q[i]
      /\ \A j \in DOMAIN r : /\ j \in Int /\ j + Len(q) \in DOMAIN both /\ j + Len(q) \notin DOMAIN q
                             /\ both[j + Len(q)] = r[j]
      /\ \A i \in DOMAIN both : i \in Int /\ (i \notin DOMAIN q => i - Len(q) \in DOMAIN r
                                                               /\ both[i] = r[i - Len(q)])
  BY <1>0, <1>1, Chained
<1>3. IsQueue(both)
  BY <1>2 DEF IsQueue
<1>4. QueueOf(both, q, r)
  BY <1>2, <1>3, Zenon DEF QueueOf
<1> QED
  BY <1>0, <1>4, Zenon

\* A queue with the hand-offs of some spans and the unlinks of others added to it.
LEMMA JobsAdded ==
    ASSUME NEW q, NEW hand, NEW retired, NEW hs, NEW us, IsQueue(q), IsQueue(hs), IsQueue(us),
           \A i \in DOMAIN hs : IsHandOff(hs[i]) /\ JobSpan(hs[i]) \in hand,
           \A i, j \in DOMAIN hs : JobSpan(hs[i]) = JobSpan(hs[j]) => i = j,
           \A s \in hand : \E i \in DOMAIN hs : JobSpan(hs[i]) = s,
           \A i \in DOMAIN us : IsUnlink(us[i]) /\ JobSpan(us[i]) \in retired,
           \A i \in HandOffsOf(q) : JobSpan(q[i]) \notin hand,
           \A i, j \in HandOffsOf(q) : JobSpan(q[i]) = JobSpan(q[j]) => i = j
    PROVE  Queued(q \o hs \o us, q, hand, retired)
<1>5. PICK two : two = q \o hs
  OBVIOUS
<1>6. PICK n \in Int :
        /\ IsQueue(two)
        /\ \A i \in DOMAIN q : i \in DOMAIN two /\ two[i] = q[i]
        /\ \A j \in DOMAIN hs : j \in Int /\ j + n \in DOMAIN two /\ j + n \notin DOMAIN q /\ two[j + n] = hs[j]
        /\ \A i \in DOMAIN two : i \in Int /\ (i \notin DOMAIN q => i - n \in DOMAIN hs /\ two[i] = hs[i - n])
  <2>1. QueueOf(two, q, hs)
    BY <1>5, QueuesChained, Zenon
  <2> QED
    BY <2>1, Zenon DEF QueueOf
<1>7. PICK all : all = two \o us
  OBVIOUS
<1>8. PICK k \in Int :
        /\ IsQueue(all)
        /\ \A i \in DOMAIN two : i \in DOMAIN all /\ all[i] = two[i]
        /\ \A j \in DOMAIN us : j \in Int /\ j + k \in DOMAIN all /\ j + k \notin DOMAIN two /\ all[j + k] = us[j]
        /\ \A i \in DOMAIN all : i \in Int /\ (i \notin DOMAIN two => i - k \in DOMAIN us /\ all[i] = us[i - k])
  <2>1. QueueOf(all, two, us)
    BY <1>6, <1>7, QueuesChained, Zenon
  <2> QED
    BY <2>1, Zenon DEF QueueOf
<1>9. /\ \A i \in DOMAIN two : i \in Int /\ i \in DOMAIN all /\ all[i] = two[i]
      /\ \A i \in DOMAIN all : i \in DOMAIN two \/ \E j \in DOMAIN us : all[i] = us[j]
  BY <1>6, <1>8
<1>s. \A job : ~(IsHandOff(job) /\ IsUnlink(job))
  BY DEF IsHandOff, IsUnlink
<1>11. \A i \in HandOffsOf(all) :
           /\ i \in Int
           /\ \/ i \in HandOffsOf(q) /\ all[i] = q[i]
              \/ i - n \in DOMAIN hs /\ all[i] = hs[i - n]
  <2>1. \A i \in HandOffsOf(all) : i \in DOMAIN all /\ IsHandOff(all[i])
    BY DEF HandOffsOf, UnlinksOf
  <2>2. \A i \in HandOffsOf(all) : i \in DOMAIN two /\ i \in Int /\ all[i] = two[i]
    BY <1>s, <1>9, <2>1
  <2>3. \A i \in DOMAIN two : (i \in DOMAIN q /\ two[i] = q[i]) \/ (i - n \in DOMAIN hs /\ two[i] = hs[i - n])
    BY <1>6
  <2> QED
    BY <2>1, <2>2, <2>3 DEF HandOffsOf, UnlinksOf
<1>12. /\ \A i \in HandOffsOf(q) : i \in HandOffsOf(all) /\ all[i] = q[i]
       /\ \A j \in DOMAIN hs : j + n \in HandOffsOf(all) /\ all[j + n] = hs[j]
  <2>1. \A i \in DOMAIN q : i \in DOMAIN all /\ all[i] = q[i]
    BY <1>6, <1>9
  <2>2. \A j \in DOMAIN hs : j + n \in DOMAIN all /\ all[j + n] = hs[j]
    BY <1>6, <1>9
  <2> QED
    BY <2>1, <2>2 DEF HandOffsOf, UnlinksOf
<1>13. {JobSpan(all[i]) : i \in HandOffsOf(all)} = {JobSpan(q[i]) : i \in HandOffsOf(q)} \cup hand
  <2>1. \A i \in HandOffsOf(all) : JobSpan(all[i]) \in hand \/ \E j \in HandOffsOf(q) : JobSpan(all[i]) = JobSpan(q[j])
    BY <1>11
  <2>2. \A s \in hand : \E i \in HandOffsOf(all) : JobSpan(all[i]) = s
    BY <1>12
  <2>3. \A j \in HandOffsOf(q) : \E i \in HandOffsOf(all) : JobSpan(all[i]) = JobSpan(q[j])
    BY <1>12
  <2> QED
    BY <2>1, <2>2, <2>3
<1>14. \A i, j \in HandOffsOf(all) : JobSpan(all[i]) = JobSpan(all[j]) => i = j
  <2> SUFFICES ASSUME NEW i \in HandOffsOf(all), NEW j \in HandOffsOf(all), JobSpan(all[i]) = JobSpan(all[j])
               PROVE  i = j
    OBVIOUS
  <2>1. i \in Int /\ j \in Int
    BY <1>11
  <2>2. CASE i \in HandOffsOf(q) /\ all[i] = q[i] /\ j \in HandOffsOf(q) /\ all[j] = q[j]
    BY <2>2
  <2>3. CASE i \in HandOffsOf(q) /\ all[i] = q[i] /\ j - n \in DOMAIN hs /\ all[j] = hs[j - n]
    BY <2>3
  <2>4. CASE j \in HandOffsOf(q) /\ all[j] = q[j] /\ i - n \in DOMAIN hs /\ all[i] = hs[i - n]
    BY <2>4
  <2>5. CASE i - n \in DOMAIN hs /\ all[i] = hs[i - n] /\ j - n \in DOMAIN hs /\ all[j] = hs[j - n]
    <3>1. i - n = j - n
      BY <2>5
    <3> QED
      BY <2>1, <3>1
  <2> QED
    BY <1>11, <2>2, <2>3, <2>4, <2>5
<1>15. {JobSpan(all[i]) : i \in UnlinksOf(all)} \subseteq {JobSpan(q[i]) : i \in UnlinksOf(q)} \cup retired
  <2>1. \A i \in UnlinksOf(all) : i \in DOMAIN all /\ IsUnlink(all[i])
    BY DEF HandOffsOf, UnlinksOf
  <2>2. \A i \in UnlinksOf(all) : (i \in DOMAIN two /\ all[i] = two[i]) \/ JobSpan(all[i]) \in retired
    BY <1>9, <2>1
  <2>3. \A i \in DOMAIN two : (i \in DOMAIN q /\ two[i] = q[i]) \/ (i - n \in DOMAIN hs /\ two[i] = hs[i - n])
    BY <1>6
  <2>4. \A i \in UnlinksOf(all) : (i \in DOMAIN q /\ all[i] = q[i]) \/ JobSpan(all[i]) \in retired
    BY <1>s, <2>1, <2>2, <2>3
  <2>5. \A i \in UnlinksOf(all) : (i \in UnlinksOf(q) /\ all[i] = q[i]) \/ JobSpan(all[i]) \in retired
    BY <2>1, <2>4 DEF HandOffsOf, UnlinksOf
  <2> QED
    BY <2>5
<1>16. Queued(all, q, hand, retired)
  BY <1>8, <1>13, <1>14, <1>15, Zenon DEF Queued
<1>17. all = q \o hs \o us
  BY <1>5, <1>7, Zenon
<1> QED
  BY <1>16, <1>17, Zenon

\* The block writer's queue after a commit: the jobs it had, the hand-offs and the unlinks.
LEMMA JobsQueued ==
    ASSUME NEW q, IsQueue(q), NEW hand \in SUBSET Spans, NEW retired \in SUBSET Spans,
           \A i \in HandOffsOf(q) : JobSpan(q[i]) \notin hand,
           \A i, j \in HandOffsOf(q) : JobSpan(q[i]) = JobSpan(q[j]) => i = j
    PROVE  Queued(q \o Jobs("hand off", hand) \o Jobs("unlink", retired), q, hand, retired)
<1>1. PICK hs : hs = Jobs("hand off", hand)
  OBVIOUS
<1>2. PICK us : us = Jobs("unlink", retired)
  OBVIOUS
<1>3. OneJobEach(hs, "hand off", hand)
  BY <1>1, JobsOneEach, Zenon
<1>4. OneJobEach(us, "unlink", retired)
  BY <1>2, JobsOneEach, Zenon
<1>5. /\ IsQueue(hs)
      /\ \A i \in DOMAIN hs : IsHandOff(hs[i]) /\ JobSpan(hs[i]) \in hand
      /\ \A i, j \in DOMAIN hs : JobSpan(hs[i]) = JobSpan(hs[j]) => i = j
      /\ \A s \in hand : \E i \in DOMAIN hs : JobSpan(hs[i]) = s
  BY <1>3, Zenon DEF OneJobEach, IsQueue, IsHandOff, JobSpan
<1>6. IsQueue(us) /\ \A i \in DOMAIN us : IsUnlink(us[i]) /\ JobSpan(us[i]) \in retired
  BY <1>4, Zenon DEF OneJobEach, IsQueue, IsUnlink, JobSpan
<1>7. Queued(q \o hs \o us, q, hand, retired)
  BY <1>5, <1>6, JobsAdded, Zenon
<1> QED
  BY <1>1, <1>2, <1>7, Zenon

\* The places after a commit: what landed is settled, and the due spans are in the queue.
LEMMA CommittedPlaces ==
    ASSUME PlacesInv, Running, NEW hand, hand \cap inFlight = {}, UNCHANGED <<status, bw, inbox>>,
           inFlight' = (inFlight \ landed) \cup hand, landed' = {},
           {jobs'[i].span : i \in HandOffs'} = {jobs[i].span : i \in HandOffs} \cup hand,
           \A i, j \in HandOffs' : jobs'[i].span = jobs'[j].span => i = j,
           bw.span \notin Spans => bw.span \notin inFlight \cup hand
    PROVE  PlacesInv'
<1>1. Results' = Results
  BY DEF Results
<1>2. /\ inFlight = {jobs[i].span : i \in HandOffs} \cup {inbox[i].span : i \in Results}
                         \cup {s \in Spans : s = bw.span} \cup landed
      /\ \A i, j \in Results : inbox[i].span = inbox[j].span => i = j
      /\ \A i \in HandOffs : jobs[i].span # bw.span /\ jobs[i].span \notin landed
      /\ \A i \in Results : inbox[i].span # bw.span /\ inbox[i].span \notin landed
      /\ \A i \in HandOffs, j \in Results : jobs[i].span # inbox[j].span
      /\ bw.span \notin landed
  BY DEF PlacesInv
<1>3. inFlight' = {jobs'[i].span : i \in HandOffs'} \cup {inbox[i].span : i \in Results}
                         \cup {s \in Spans : s = bw.span} \cup {}
  BY <1>2
<1>4. \A i \in HandOffs' : jobs'[i].span \in {jobs[j].span : j \in HandOffs} \cup hand
  OBVIOUS
<1>5. bw.span \notin hand /\ \A i \in Results : inbox[i].span \notin hand
  BY <1>2
<1>6. \A i \in HandOffs' : jobs'[i].span # bw.span /\ \A j \in Results : jobs'[i].span # inbox[j].span
  BY <1>2, <1>4, <1>5
<1> QED
  BY <1>1, <1>2, <1>3, <1>6 DEF PlacesInv

\* A span in flight that has not landed keeps its chunks through a commit.
LEMMA ChunksKept ==
    ASSUME HandoffInv, Running, NEW p, PassSound(txn.chunks \cup sealed, p),
           NEW s \in inFlight, s \notin landed
    PROVE  InSpan((txn.chunks \cup sealed) \ p.gone, s) = InSpan(db.chunks, s)
<1>1. \A c \in p.gone : c[1] # s
  BY DEF PassSound
<1>2. \A c \in sealed : c[1] # s
  BY DEF HandoffInv, FlightInv, SpansOf
<1>3. txn.chunks = {c \in db.chunks : c[1] \notin landed}
  BY DEF HandoffInv, TxnInv
<1>4. {c \in (txn.chunks \cup sealed) \ p.gone : c[1] = s} = {c \in db.chunks : c[1] = s}
  BY <1>1, <1>2, <1>3
<1> QED
  BY <1>4 DEF InSpan

\* A commit keeps the invariant: landed spans get their rows, due spans their jobs, and retired
\* files leave the tables before they are unlinked.
LEMMA CommitInv ==
    ASSUME HandoffInv, Commit
    PROVE  HandoffInv'
<1>0. HandoffTypeOK /\ SettledInv /\ FilesInv /\ HeadInv /\ TxnInv /\ HeldInv /\ PlacesInv /\ FlightInv
      /\ PassInv
  BY DEF HandoffInv
<1>r. Running
  BY DEF Commit, Running
<1>u. UNCHANGED <<files, unsynced, faults, status, now, ret, open, bw, inbox>>
  BY DEF Commit
<1>1. PICK p : p = PassStep(txn.chunks \cup sealed)
  OBVIOUS
<1>2. PICK hand : hand = due \ p.emptied
  OBVIOUS
<1>3. /\ db' = Committed(p) /\ txn' = Written(p) /\ sealed' = {}
      /\ waiting' = ((waiting \cup SpansOf(sealed)) \ p.emptied) \ landed
      /\ inFlight' = (inFlight \ landed) \cup hand
      /\ failed' = (failed \ p.emptied) \ landed
      /\ due' = {} /\ landed' = {} /\ stage' = p.next /\ known' = KnownAfter(p)
  BY <1>1, <1>2 DEF Commit
<1>4. jobs' = jobs \o Jobs("hand off", hand) \o Jobs("unlink", p.retired)
  BY <1>1, <1>2, Zenon DEF Commit
<1>5. PassSound(txn.chunks \cup sealed, p)
  BY <1>r, <1>1, PassStepSound
<1>6. PICK d : d = Committed(p)
  OBVIOUS
<1>7. /\ d.chunks = (txn.chunks \cup sealed) \ p.gone
      /\ d.rows = [s \in Spans |-> IF s \in p.retired THEN NoRow ELSE txn.rows[s]]
      /\ d.pend = txn.pend \cup p.retired /\ d.now = now /\ d.ret = ret /\ d.open = open
      /\ txn'.chunks = d.chunks /\ txn'.rows = d.rows /\ txn'.pend = d.pend
      /\ txn' = [chunks |-> d.chunks, rows |-> d.rows, pend |-> d.pend]
  BY <1>3, <1>6 DEF Committed, Written
<1>8. /\ d \in [chunks : SUBSET (Spans \X Series), rows : [Spans -> (SUBSET Series) \cup {NoRow}],
                pend : SUBSET Spans, now : Times, ret : Times, open : SUBSET (Spans \X Series)]
      /\ CommitSound(d) /\ db' = d
      /\ \A s \in Spans : s \in HasRow(d.rows) <=> s \in landed \cup HasRow(db.rows) /\ s \notin p.retired
      /\ landed \subseteq inFlight /\ inFlight \subseteq waiting
  BY <1>r, <1>3, <1>5, <1>6, CommitIsSound
<1>9. /\ p.gone \subseteq txn.chunks \cup sealed /\ p.emptied \cap inFlight = {}
      /\ p.emptied \cap SpansOf(d.chunks) = {} /\ p.retired \subseteq HasRow(db.rows)
      /\ p.next.at = "files" => p.next.queue \subseteq Retirable \ p.retired
  BY <1>5, <1>7 DEF PassSound, Retirable
<1>10. /\ SpansOf(db.chunks) \cup due \cup inFlight \subseteq waiting /\ due \cap inFlight = {}
       /\ \A s \in due \cup inFlight : Closed(s, now) /\ s \notin SpansOf(open)
       /\ \A s \in inFlight : s \notin SpansOf(sealed)
  BY <1>0, <1>r DEF FlightInv
<1>11. /\ waiting \cup inFlight \cup failed \cup due \cup landed \subseteq Spans
       /\ sealed \subseteq Spans \X Series /\ jobs \in Seq(JobType)
       /\ hand \subseteq Spans /\ hand \subseteq due /\ hand \cap inFlight = {} /\ p.retired \subseteq Spans
  BY <1>0, <1>2, <1>9, <1>10 DEF HandoffTypeOK, TypeOK, HasRow
<1>12. HandOffs = HandOffsOf(jobs) /\ HandOffs' = HandOffsOf(jobs')
  BY DEF HandOffs, HandOffsOf, IsHandOff
<1>13. Queued(jobs', jobs, hand, p.retired)
  <2>1. IsQueue(jobs)
    BY <1>11 DEF IsQueue
  <2>2. \A i \in HandOffs : jobs[i].span \in inFlight
    BY <1>r, InFlightNotSettled
  <2>3. \A i \in HandOffsOf(jobs) : JobSpan(jobs[i]) \notin hand
    BY <1>11, <1>12, <2>2 DEF JobSpan
  <2>4. \A i, j \in HandOffs : jobs[i].span = jobs[j].span => i = j
    BY <1>0, <1>r DEF PlacesInv
  <2>5. \A i, j \in HandOffsOf(jobs) : JobSpan(jobs[i]) = JobSpan(jobs[j]) => i = j
    BY <1>12, <2>4, Zenon DEF JobSpan
  <2>6. hand \in SUBSET Spans /\ p.retired \in SUBSET Spans
    BY <1>11
  <2>7. Queued(jobs \o Jobs("hand off", hand) \o Jobs("unlink", p.retired), jobs, hand, p.retired)
    BY <2>1, <2>3, <2>5, <2>6, JobsQueued, Zenon
  <2> QED
    BY <1>4, <2>7, Zenon
<1>14. /\ jobs' \in Seq(JobType)
       /\ {jobs'[i].span : i \in HandOffs'} = {jobs[i].span : i \in HandOffs} \cup hand
       /\ \A i, j \in HandOffs' : jobs'[i].span = jobs'[j].span => i = j
       /\ {jobs'[i].span : i \in UnlinksOf(jobs')} \subseteq {jobs[i].span : i \in UnlinksOf(jobs)} \cup p.retired
  BY <1>12, <1>13, Zenon DEF Queued, IsQueue, JobSpan
<1>15. Unlinking' \subseteq Unlinking \cup p.retired
  BY <1>u, <1>14 DEF Unlinking, UnlinksOf, IsUnlink
<1>16. HandoffTypeOK'
  <2>1. waiting' \cup inFlight' \cup failed' \cup due' \cup landed' \subseteq Spans
    BY <1>3, <1>11 DEF SpansOf
  <2>2. txn' \in [chunks : SUBSET (Spans \X Series), rows : [Spans -> (SUBSET Series) \cup {NoRow}],
                  pend : SUBSET Spans]
    BY <1>7, <1>8
  <2>3. known' \in [Spans -> {"none", "readable", "unreadable"}]
    <3>1. known \in [Spans -> {"none", "readable", "unreadable"}]
      BY <1>0 DEF HandoffTypeOK, TypeOK
    <3> QED
      BY <1>3, <3>1 DEF KnownAfter
  <2>4. db' \in [chunks : SUBSET (Spans \X Series), rows : [Spans -> (SUBSET Series) \cup {NoRow}],
                 pend : SUBSET Spans, now : Times, ret : Times, open : SUBSET (Spans \X Series)]
    BY <1>8
  <2>5. sealed' \subseteq Spans \X Series /\ jobs' \in Seq(JobType)
    BY <1>3, <1>14
  <2> QED
    BY <1>0, <1>u, <2>1, <2>2, <2>3, <2>4, <2>5 DEF HandoffTypeOK, TypeOK
<1>17. SettledInv'
  <2>1. Undone' = Undone /\ SpansOf(sealed') = {}
    BY <1>u, <1>3 DEF Undone, SpansOf
  <2>2. \A s \in HasRow(d.rows) \cup Leftover(d) : Settled(s)'
    <3>1. \A s \in HasRow(d.rows) \cup Leftover(d) :
           /\ s \in Spans /\ Closed(s, now)
           /\ s \notin SpansOf(d.chunks) /\ s \notin SpansOf(open) /\ s \notin SpansOf(sealed)
           /\ s \in waiting => s \in landed
      BY <1>8 DEF CommitSound
    <3>2. \A s \in HasRow(d.rows) \cup Leftover(d) : s \notin waiting'
      BY <1>3, <3>1
    <3> QED
      BY <1>u, <1>7, <1>8, <2>1, <3>1, <3>2 DEF Settled
  <2>3. db'.pend \cup Undone' \cup Unlinking' \subseteq Leftover(d)
    BY <1>7, <1>8, <1>15, <2>1 DEF Leftover
  <2>4. Leftover(d) \cap HasRow(d.rows) = {}
    BY <1>8 DEF CommitSound
  <2>5. HasRow(db.rows)' = HasRow(d.rows)
    BY <1>8 DEF HasRow
  <2> QED
    BY <2>2, <2>3, <2>4, <2>5 DEF SettledInv
<1>18. FilesInv'
  BY <1>u, <1>8 DEF FilesInv, CommitSound, HasRow
<1>19. HeadInv'
  <2>1. now \in Int
    BY <1>0, HandoffAssumption DEF HandoffTypeOK, TypeOK, Times
  <2> QED
    BY <1>u, <1>7, <1>8, <2>1 DEF HeadInv
<1>20. TxnInv'
  <2>1. d.rows \in [Spans -> (SUBSET Series) \cup {NoRow}]
    BY <1>8
  <2>2. txn'.rows = [s \in Spans |-> IF s \in landed' THEN files'[s] ELSE db'.rows[s]]
    BY <1>3, <1>7, <1>8, <2>1
  <2>3. txn'.chunks = {c \in db'.chunks : c[1] \notin landed'} /\ txn'.pend \subseteq db'.pend
    BY <1>3, <1>7, <1>8
  <2> QED
    BY <2>2, <2>3 DEF TxnInv
<1>21. HeldInv'
  <2>1. \A s \in inFlight : s \notin landed => InSpan(d.chunks, s) = InSpan(db.chunks, s)
    <3>1. d.chunks = (txn.chunks \cup sealed) \ p.gone
      BY <1>7
    <3> QED
      BY <1>r, <1>5, <3>1, ChunksKept, Zenon
  <2>2. bw # Idle => bw.span \in inFlight /\ bw.span \notin landed
    BY <1>0, <1>r, InFlightNotSettled DEF PlacesInv
  <2>3. bw # Idle => bw.held = InSpan(d.chunks, bw.span)
    BY <1>0, <1>r, <2>1, <2>2 DEF HeldInv
  <2>4. \A i \in Results : inbox[i].span \in inFlight /\ inbox[i].span \notin landed
    BY <1>0, <1>r, InFlightNotSettled DEF PlacesInv
  <2>5. \A i \in DOMAIN inbox : inbox[i].kind = "written" => i \in Results
    BY DEF Results
  <2>6. \A i \in DOMAIN inbox : inbox[i].kind = "written" =>
               /\ inbox[i].held = InSpan(d.chunks, inbox[i].span)
               /\ files[inbox[i].span] = inbox[i].held
    BY <1>0, <1>r, <2>1, <2>4, <2>5 DEF HeldInv
  <2> QED
    BY <1>u, <1>3, <1>8, <2>3, <2>6 DEF HeldInv
<1>22. PlacesInv'
  BY <1>0, <1>r, <1>u, <1>3, <1>11, <1>14, CommittedPlaces
<1>23. FlightInv'
  <2>1. SpansOf(d.chunks) \subseteq waiting'
    <3>1. SpansOf(d.chunks) \subseteq SpansOf(txn.chunks) \cup SpansOf(sealed)
      BY <1>7 DEF SpansOf
    <3>2. \A s \in SpansOf(txn.chunks) : s \in SpansOf(db.chunks) /\ s \notin landed
      BY <1>0, <1>r DEF TxnInv, SpansOf
    <3>3. \A s \in SpansOf(sealed) : s \notin landed
      BY <1>8, <1>10
    <3> QED
      BY <1>3, <1>9, <1>10, <3>1, <3>2, <3>3
  <2>2. inFlight' \subseteq waiting'
    BY <1>2, <1>3, <1>8, <1>9, <1>10, <1>11
  <2>3. \A s \in inFlight' : Closed(s, now) /\ s \notin SpansOf(open)
    BY <1>3, <1>10, <1>11
  <2>4. SpansOf(sealed') = {}
    BY <1>3 DEF SpansOf
  <2> QED
    BY <1>u, <1>3, <1>7, <1>8, <2>1, <2>2, <2>3, <2>4 DEF FlightInv
<1>24. PassInv'
  <2>1. \A s \in Retirable : s \in Spans /\ s \in HasRow(db.rows) /\ s \notin landed
    <3>1. \A s \in HasRow(db.rows) : s \in Spans /\ s \notin waiting
      BY <1>0, <1>r DEF SettledInv, Settled, HasRow
    <3> QED
      BY <1>8, <3>1 DEF Retirable
  <2>2. \A s \in Spans : s \notin landed => txn.rows[s] = db.rows[s]
    BY <1>0, <1>r DEF TxnInv
  <2>3. \A s \in Retirable : s \notin p.retired => d.rows[s] = db.rows[s]
    BY <1>7, <2>1, <2>2
  <2>4. \A s \in Retirable : s \notin p.retired =>
            s \in HasRow(d.rows) /\ \A x \in d.rows[s] : Dead(<<s, x>>, ret)
    BY <1>8, <2>1, <2>3 DEF Retirable
  <2> QED
    BY <1>u, <1>3, <1>8, <1>9, <2>4 DEF PassInv
<1> QED
  BY <1>16, <1>17, <1>18, <1>19, <1>20, <1>21, <1>22, <1>23, <1>24 DEF HandoffInv

-----------------------------------------------------------------------------
(* The theorems.                                                           *)

\* Every step keeps the invariant.
LEMMA HandoffStep ==
    ASSUME HandoffInv, [Next]_vars
    PROVE  HandoffInv'
<1>1. ASSUME NEW x \in Series, NEW sys \in Times, AppendPoint(x, sys) PROVE HandoffInv'
  BY <1>1, AppendPointInv
<1>2. ASSUME NEW sys \in Times, Sweep(sys) PROVE HandoffInv'
  BY <1>2, SweepInv
<1>3. ASSUME NEW sys \in Times, NEW r \in Times, PassBegin(sys, r) PROVE HandoffInv'
  BY <1>3, PassBeginInv
<1>4. ASSUME NEW sys \in Times, NEW r \in Times, Open(sys, r) PROVE HandoffInv'
  BY <1>4, OpenInv
<1>5. CASE Receive
  BY <1>5, ReceiveInv
<1>6. CASE Commit
  BY <1>6, CommitInv
<1>7. CASE CommitFails
  BY <1>7, CommitFailsInv
<1>8. CASE BacklogStops
  BY <1>8, BacklogStopsInv
<1>9. CASE Crash
  BY <1>9, CrashInv
<1>10. CASE ReadSpan
  BY <1>10, ReadSpanInv
<1>11. CASE WriteSpan
  BY <1>11, WriteSpanInv
<1>12. CASE WriteSpanFails
  BY <1>12, WriteSpanFailsInv
<1>13. CASE Unlink
  BY <1>13, UnlinkInv
<1>14. CASE UnlinkFails
  BY <1>14, UnlinkFailsInv
<1>15. CASE UNCHANGED vars
  <2>u. UNCHANGED <<db, files, unsynced, faults, status, txn, now, ret, open, sealed, waiting, inFlight,
                    failed, due, landed, stage, known, jobs, bw, inbox>>
    BY <1>15 DEF vars, head, handoffs, threads
  <2>0. HandoffTypeOK /\ SettledInv /\ FilesInv /\ HeadInv /\ TxnInv /\ HeldInv /\ PlacesInv /\ FlightInv
        /\ PassInv
    BY DEF HandoffInv
  <2>1. HandoffTypeOK' /\ HeadInv' /\ FlightInv'
    BY <2>0, <2>u DEF HandoffTypeOK, TypeOK, HeadInv, FlightInv, Running
  <2>2. SettledInv'
    <3>1. HasRow(db.rows)' = HasRow(db.rows) /\ Undone' = Undone /\ Unlinking' = Unlinking /\ Running' = Running
      BY <2>u DEF HasRow, Undone, Unlinking, Running
    <3>2. \A s : Settled(s) => Settled(s)'
      BY <2>u DEF Settled, Running
    <3> QED
      BY <2>0, <2>u, <3>1, <3>2 DEF SettledInv
  <2>3. FilesInv' /\ TxnInv' /\ HeldInv' /\ PlacesInv' /\ PassInv'
    BY <2>0, <2>u, FilesSame, TxnSame, HeldSame, PlacesSame, PassSame
  <2> QED
    BY <2>1, <2>2, <2>3 DEF HandoffInv
<1> QED
  BY <1>1, <1>2, <1>3, <1>4, <1>5, <1>6, <1>7, <1>8, <1>9, <1>10, <1>11, <1>12, <1>13, <1>14, <1>15
     DEF Next

\* And so does RowsKnown: a commit installs what landed, and evicts only what it retires.
LEMMA KnownStep ==
    ASSUME HandoffInv, RowsKnown, [Next]_vars
    PROVE  RowsKnown'
<1>1. CASE Commit
  <2>r. Running
    BY <1>1 DEF Commit, Running
  <2>1. PICK p : p = PassStep(txn.chunks \cup sealed)
    OBVIOUS
  <2>2. db' = Committed(p) /\ known' = KnownAfter(p)
    BY <1>1, <2>1 DEF Commit
  <2>3. PassSound(txn.chunks \cup sealed, p)
    BY <2>r, <2>1, PassStepSound
  <2>4. \A s \in Spans : s \in HasRow(db'.rows) <=> s \in landed \cup HasRow(db.rows) /\ s \notin p.retired
    BY <2>r, <2>2, <2>3, CommitIsSound
  <2>5. \A s \in Spans : s \in HasRow(db.rows) => known[s] # "none"
    BY <2>r DEF RowsKnown, Running
  <2>6. \A s \in Spans : s \notin p.retired /\ s \in landed \cup HasRow(db.rows) => known'[s] # "none"
    BY <2>2, <2>5 DEF KnownAfter
  <2> QED
    BY <2>4, <2>6 DEF RowsKnown, HasRow
<1>2. ASSUME NEW sys \in Times, NEW r \in Times, Open(sys, r) PROVE RowsKnown'
  <2>1. CASE status' = "refused"
    BY <2>1 DEF RowsKnown
  <2>2. CASE status' # "refused"
    <3>1. PICK t : Opens(t, r)
      BY <1>2, <2>2 DEF Open
    <3>2. PICK kept : known' = [s \in Spans |-> IF db.rows[s] = NoRow THEN "none"
                                               ELSE IF s \in kept THEN "readable" ELSE "unreadable"]
      BY <3>1 DEF Opens
    <3>3. \A s \in Spans : known'[s] # "none" <=> db.rows[s] # NoRow
      BY <3>2
    <3>4. db'.rows = db.rows
      BY <3>1 DEF Opens, HandoffInv, HandoffTypeOK, TypeOK
    <3> QED
      BY <3>3, <3>4 DEF RowsKnown, HasRow
  <2> QED
    BY <2>1, <2>2
<1>3. CASE CommitFails \/ BacklogStops \/ Crash
  BY <1>3 DEF CommitFails, BacklogStops, Crash, RowsKnown
<1>4. CASE Receive
  <2>1. UNCHANGED <<db, known>> /\ status = "running"
    BY <1>4 DEF Receive
  <2> QED
    BY <2>1 DEF RowsKnown, HasRow
<1>5. ASSUME NEW x \in Series, NEW sys \in Times, AppendPoint(x, sys) PROVE RowsKnown'
  BY <1>5, KnownSame DEF AppendPoint
<1>6. ASSUME NEW sys \in Times, Sweep(sys) PROVE RowsKnown'
  BY <1>6, KnownSame DEF Sweep
<1>7. ASSUME NEW sys \in Times, NEW r \in Times, PassBegin(sys, r) PROVE RowsKnown'
  BY <1>7, KnownSame DEF PassBegin
<1>8. CASE ReadSpan \/ WriteSpan \/ WriteSpanFails \/ Unlink \/ UnlinkFails \/ UNCHANGED vars
  BY <1>8, KnownSame DEF ReadSpan, WriteSpan, WriteSpanFails, Unlink, UnlinkFails, vars
<1> QED
  BY <1>1, <1>2, <1>3, <1>4, <1>5, <1>6, <1>7, <1>8 DEF Next

\* HandoffInv is inductive, and so an invariant: through every interleaving of the writer, the
\* block writer and the pass, every failed write, unlink and commit, and a crash or power loss
\* after any step.
THEOREM HandoffInvariant == Spec => []HandoffInv
<1>1. HandoffInv /\ [Next]_vars => HandoffInv'
  BY HandoffStep
<1> QED
  BY <1>1, InitInv, PTL DEF Spec

\* "A span's chunks are in exactly one of `chunks` or the file a `blocks` row names, and the
\* file is durable before the row exists" (RFC 0010 §6), at every crash point and for any
\* number of spans and series, whether or not a power loss can bring unlinked files back.
THEOREM OnePlaceHolds == Spec => []OnePlace
<1>1. HandoffInv => OnePlace
  BY DEF HandoffInv, FilesInv, SettledInv, Settled, OnePlace
<1> QED
  BY <1>1, HandoffInvariant, PTL

\* A set with no two members has one, or none.
LEMMA OneOrNone ==
    ASSUME NEW S, \A i, j \in S : i = j
    PROVE  Cardinality(S) = IF S = {} THEN 0 ELSE 1
<1>1. CASE S = {}
  BY <1>1, FS_EmptySet
<1>2. CASE S # {}
  <2>1. PICK i : i \in S
    BY <1>2
  <2>2. S = {i}
    BY <2>1
  <2>3. Cardinality({i}) = 1
    BY FS_Singleton
  <2> QED
    BY <1>2, <2>2, <2>3
<1> QED
  BY <1>1, <1>2

\* The places of the invariant, counted: a span in flight has one and no other span has any.
LEMMA InFlightIsOnce == HandoffInv => InFlightOnce
<1> SUFFICES ASSUME HandoffInv, status = "running", NEW s \in Spans
             PROVE  Cardinality({i \in DOMAIN jobs : jobs[i] = [op |-> "hand off", span |-> s]})
                    + Cardinality({i \in DOMAIN inbox : inbox[i].kind # "unlinked" /\ inbox[i].span = s})
                    + (IF bw.span = s THEN 1 ELSE 0) + (IF s \in landed THEN 1 ELSE 0)
                    = IF s \in inFlight THEN 1 ELSE 0
  BY DEF InFlightOnce
<1>1. PICK J : J = {i \in DOMAIN jobs : jobs[i] = [op |-> "hand off", span |-> s]}
  OBVIOUS
<1>2. PICK R : R = {i \in DOMAIN inbox : inbox[i].kind # "unlinked" /\ inbox[i].span = s}
  OBVIOUS
<1>3. J = {i \in HandOffs : jobs[i].span = s}
  <2>1. jobs \in Seq(JobType)
    BY DEF HandoffInv, HandoffTypeOK
  <2>2. \A i \in DOMAIN jobs : jobs[i] \in JobType
    BY <2>1
  <2>3. \A job \in JobType : job = [op |-> "hand off", span |-> s] <=> job.op = "hand off" /\ job.span = s
    <3> SUFFICES ASSUME NEW job \in JobType
                 PROVE  job = [op |-> "hand off", span |-> s] <=> job.op = "hand off" /\ job.span = s
      OBVIOUS
    <3>1. job = [op |-> job.op, span |-> job.span]
      BY DEF JobType
    <3>2. ASSUME job = [op |-> "hand off", span |-> s] PROVE job.op = "hand off" /\ job.span = s
      BY <3>2
    <3>3. ASSUME job.op = "hand off", job.span = s PROVE job = [op |-> "hand off", span |-> s]
      BY <3>1, <3>3, Zenon
    <3> QED
      BY <3>2, <3>3, Zenon
  <2>4. \A i \in DOMAIN jobs : jobs[i] = [op |-> "hand off", span |-> s]
                              <=> jobs[i].op = "hand off" /\ jobs[i].span = s
    BY <2>2, <2>3, Zenon
  <2> QED
    BY <1>1, <2>4 DEF HandOffs
<1>4. R = {i \in Results : inbox[i].span = s}
  BY <1>2 DEF Results
<1>5. /\ inFlight = {jobs[i].span : i \in HandOffs} \cup {inbox[i].span : i \in Results}
                         \cup {u \in Spans : u = bw.span} \cup landed
      /\ \A i, j \in HandOffs : jobs[i].span = jobs[j].span => i = j
      /\ \A i, j \in Results : inbox[i].span = inbox[j].span => i = j
      /\ \A i \in HandOffs : jobs[i].span # bw.span /\ jobs[i].span \notin landed
      /\ \A i \in Results : inbox[i].span # bw.span /\ inbox[i].span \notin landed
      /\ \A i \in HandOffs, j \in Results : jobs[i].span # inbox[j].span
      /\ bw.span \notin landed
  BY DEF HandoffInv, PlacesInv, Running
<1>6. /\ \A i, j \in J : i = j
      /\ \A i, j \in R : i = j
  BY <1>3, <1>4, <1>5
<1>7. /\ Cardinality(J) = IF J = {} THEN 0 ELSE 1
      /\ Cardinality(R) = IF R = {} THEN 0 ELSE 1
  BY <1>6, OneOrNone
<1>8. /\ s \in inFlight <=> J # {} \/ R # {} \/ bw.span = s \/ s \in landed
      /\ J # {} => R = {} /\ bw.span # s /\ s \notin landed
      /\ R # {} => bw.span # s /\ s \notin landed
      /\ bw.span = s => s \notin landed
  BY <1>3, <1>4, <1>5
<1>9. Cardinality(J) + Cardinality(R) + (IF bw.span = s THEN 1 ELSE 0) + (IF s \in landed THEN 1 ELSE 0)
        = IF s \in inFlight THEN 1 ELSE 0
  BY <1>7, <1>8
<1> QED
  BY <1>1, <1>2, <1>9, Zenon

\* The list is complete, and a span reported written has no row yet.
LEMMA WaitingIsComplete == HandoffInv => WaitingComplete
<1> SUFFICES ASSUME HandoffInv, status = "running"
             PROVE  /\ SpansOf(txn.chunks) \subseteq waiting /\ SpansOf(db.chunks) \subseteq waiting
                    /\ \A i \in DOMAIN inbox : inbox[i].kind = "written" => txn.rows[inbox[i].span] = NoRow
  BY DEF WaitingComplete
<1>1. SpansOf(db.chunks) \subseteq waiting
  BY DEF HandoffInv, FlightInv, Running
<1>2. SpansOf(txn.chunks) \subseteq SpansOf(db.chunks)
  BY DEF HandoffInv, TxnInv, Running, SpansOf
<1>3. \A i \in Results : inbox[i].span \in Spans /\ ~Settled(inbox[i].span) /\ inbox[i].span \notin landed
  BY InFlightNotSettled DEF HandoffInv, PlacesInv, Running
<1>4. \A s \in Spans : s \notin landed => txn.rows[s] = db.rows[s]
  BY DEF HandoffInv, TxnInv, Running
<1>5. \A s \in Spans : ~Settled(s) => db.rows[s] = NoRow
  BY DEF HandoffInv, SettledInv, HasRow
<1>6. \A i \in DOMAIN inbox : inbox[i].kind = "written" => i \in Results
  BY DEF Results
<1> QED
  BY <1>1, <1>2, <1>3, <1>4, <1>5, <1>6

\* The writer's lists agree with the data: a span is in flight in exactly one place, every
\* committed row's file is known, and a span with chunks in redb stays on the list until its row
\* is committed.
THEOREM SpansTrackedHolds == Spec => []SpansTracked
<1>1. HandoffInv /\ RowsKnown => SpansTracked
  BY InFlightIsOnce, WaitingIsComplete DEF HandoffInv, HandoffTypeOK, SpansTracked
<1>2. HandoffInv /\ RowsKnown /\ [Next]_vars => RowsKnown'
  BY KnownStep
<1>3. Init => RowsKnown
  BY DEF Init, RowsKnown
<1> QED
  BY <1>1, <1>2, <1>3, HandoffInvariant, PTL DEF Spec

-----------------------------------------------------------------------------
(* Nothing leaves the store too early.                                     *)

\* A commit, landed or not: what it takes from redb is dead.
LEMMA CommitKeeps ==
    ASSUME HandoffInv, Running, db' = Committed(PassStep(txn.chunks \cup sealed))
    PROVE  OnlyTheDeadGo
<1>0. HandoffTypeOK /\ SettledInv /\ HeadInv /\ TxnInv /\ HeldInv /\ FlightInv
  BY DEF HandoffInv
<1>1. PICK p : p = PassStep(txn.chunks \cup sealed)
  OBVIOUS
<1>2. PassSound(txn.chunks \cup sealed, p)
  BY <1>1, PassStepSound
<1>3. PICK d : d = Committed(p)
  OBVIOUS
<1>4. /\ d.chunks = (txn.chunks \cup sealed) \ p.gone
      /\ d.rows = [s \in Spans |-> IF s \in p.retired THEN NoRow ELSE txn.rows[s]]
      /\ d.ret = ret /\ d.open = open
  BY <1>3 DEF Committed, Written
<1>5. db' = d
  BY <1>1, <1>3
<1>6. /\ \A s \in Spans : s \in HasRow(d.rows) <=> s \in landed \cup HasRow(db.rows) /\ s \notin p.retired
      /\ landed \subseteq inFlight /\ inFlight \subseteq waiting /\ landed \subseteq Spans
  BY <1>0, <1>2, <1>3, CommitIsSound DEF HandoffTypeOK, TypeOK
<1>7. p.retired \subseteq HasRow(db.rows) /\ \A s \in p.retired : \A x \in db.rows[s] : Dead(<<s, x>>, ret)
  BY <1>2 DEF PassSound, Retirable
<1>8. \A c \in p.gone : Dead(c, ret)
  BY <1>2 DEF PassSound
<1>9. \A s \in HasRow(db.rows) : s \in Spans /\ s \notin landed
  <2>1. \A s \in HasRow(db.rows) : s \in Spans /\ s \notin waiting
    BY <1>0 DEF SettledInv, Settled, HasRow
  <2> QED
    BY <1>6, <2>1
<1>10. \A s \in Spans : txn.rows[s] = IF s \in landed THEN files[s] ELSE db.rows[s]
  BY <1>0 DEF TxnInv
<1>11. ASSUME NEW c \in db.open PROVE c \in d.open \/ c \in d.chunks \/ Dead(c, ret)
  BY <1>0, <1>4, <1>8 DEF HeadInv
<1>12. ASSUME NEW c \in db.chunks, c[1] \notin landed PROVE c \in d.chunks \/ Dead(c, ret)
  <2>1. c \in txn.chunks
    BY <1>0, <1>12 DEF TxnInv
  <2> QED
    BY <1>4, <1>8, <2>1
<1>13. ASSUME NEW c \in db.chunks, c[1] \in landed PROVE c \in Rowed(d)
  <2>1. db.chunks \subseteq Spans \X Series
    BY <1>0 DEF HandoffTypeOK, TypeOK
  <2>2. c = <<c[1], c[2]>> /\ c[1] \in Spans
    BY <2>1
  <2>3. c[2] \in InSpan(db.chunks, c[1])
    BY DEF InSpan
  <2>4. files[c[1]] = InSpan(db.chunks, c[1])
    BY <1>0, <1>13 DEF HeldInv
  <2>5. c[1] \notin p.retired /\ c[1] \in HasRow(d.rows)
    BY <1>6, <1>7, <1>9, <1>13, <2>2
  <2>6. d.rows[c[1]] = files[c[1]]
    BY <1>4, <1>10, <1>13, <2>2, <2>5
  <2>7. c[2] \in d.rows[c[1]]
    BY <2>3, <2>4, <2>6
  <2> QED
    BY <2>2, <2>5, <2>7 DEF Rowed
<1>14. ASSUME NEW s \in HasRow(db.rows), NEW x \in db.rows[s]
       PROVE  <<s, x>> \in Rowed(d) \/ Dead(<<s, x>>, ret)
  <2>1. CASE s \in p.retired
    BY <1>7, <2>1
  <2>2. CASE s \notin p.retired
    <3>1. s \in HasRow(d.rows) /\ d.rows[s] = db.rows[s]
      BY <1>4, <1>6, <1>9, <1>10, <2>2
    <3> QED
      BY <3>1 DEF Rowed
  <2> QED
    BY <2>1, <2>2
<1>15. \A c \in Stored(db) : c \in Stored(d) \/ Dead(c, ret)
  <2> SUFFICES ASSUME NEW c \in Stored(db) PROVE c \in Stored(d) \/ Dead(c, ret)
    OBVIOUS
  <2>1. CASE c \in db.open
    BY <1>11, <2>1 DEF Stored
  <2>2. CASE c \in db.chunks
    BY <1>12, <1>13, <2>2 DEF Stored
  <2>3. CASE c \in Rowed(db)
    <3>1. PICK s \in HasRow(db.rows) : c \in {<<s, x>> : x \in db.rows[s]}
      BY <2>3 DEF Rowed
    <3>2. PICK x \in db.rows[s] : c = <<s, x>>
      BY <3>1
    <3> QED
      BY <1>14, <3>2 DEF Stored
  <2> QED
    BY <2>1, <2>2, <2>3 DEF Stored
<1> QED
  BY <1>4, <1>5, <1>15 DEF OnlyTheDeadGo

\* A file that is gone has no row, by the invariant after the step.
LEMMA NamedFilesStay == HandoffInv' => NoNamedFileUnlinked
<1> SUFFICES ASSUME HandoffInv', NEW s \in HasFile, files'[s] = NoFile, db'.rows[s] # NoRow PROVE FALSE
  BY DEF NoNamedFileUnlinked
<1>1. s \in Spans
  BY DEF HasFile
<1>2. files'[s] = db'.rows[s]
  BY <1>1 DEF HandoffInv, FilesInv, HasRow
<1>3. db'.rows[s] \in SUBSET Series
  BY <1>1 DEF HandoffInv, HandoffTypeOK, TypeOK
<1> QED
  BY <1>2, <1>3, HandoffAssumption

\* A step that keeps what is stored lets nothing go.
LEMMA TablesSame == Stored(db') = Stored(db) => OnlyTheDeadGo
BY DEF OnlyTheDeadGo

\* No step of any thread, no failed commit, crash, reconciliation or retirement takes from redb
\* and its files what a policy still keeps, or unlinks a file that a row names.
THEOREM RemovalsSoundHolds == Spec => RemovalsSound
<1>1. HandoffInv /\ HandoffInv' /\ [Next]_vars => [OnlyTheDeadGo /\ NoNamedFileUnlinked]_vars
  <2> SUFFICES ASSUME HandoffInv, HandoffInv', Next PROVE OnlyTheDeadGo
    BY NamedFilesStay
  <2>1. CASE UNCHANGED db
    <3>1. Stored(db') = Stored(db)
      BY <2>1
    <3> QED
      BY <3>1, TablesSame
  <2>2. ASSUME NEW sys \in Times, NEW r \in Times, Open(sys, r) PROVE OnlyTheDeadGo
    <3>1. db' = db \/ db' = [db EXCEPT !.pend = {}]
      BY <2>2 DEF Open, Opens
    <3>2. db'.open = db.open /\ db'.chunks = db.chunks /\ db'.rows = db.rows
      BY <3>1 DEF HandoffInv, HandoffTypeOK, TypeOK
    <3>3. Stored(db') = Stored(db)
      BY <3>2 DEF Stored, Rowed
    <3> QED
      BY <3>3, TablesSame
  <2>3. CASE Commit \/ CommitFails
    <3>1. Running /\ (db' = Committed(PassStep(txn.chunks \cup sealed)) \/ UNCHANGED db)
      BY <2>3 DEF Commit, CommitFails, Running
    <3> QED
      BY <2>1, <3>1, CommitKeeps
  <2> QED
    BY <2>1, <2>2, <2>3
       DEF Next, AppendPoint, Sweep, PassBegin, Receive, BacklogStops, Crash, ReadSpan, WriteSpan, WriteSpanFails,
           Unlink, UnlinkFails
<1> QED
  BY <1>1, HandoffInvariant, PTL DEF Spec, RemovalsSound

-----------------------------------------------------------------------------
(* An open is never refused, where a scan ends in one commit and unlinks   *)
(* are durable.                                                            *)

\* The whole of `chunks` fits in a step of the pass, and no power loss undoes an unlink.
WholeScans == ~UnlinkReturns /\ Cardinality(Spans \X Series) <= Batch

\* A scan visits every chunk in its first step.
LEMMA ScanEndsAtOnce ==
    ASSUME WholeScans, NEW cs \in SUBSET (Spans \X Series)
    PROVE  Unvisited(cs) = {}
<1> DEFINE ahead == {c \in cs : Key(c) >= stage.from}
<1> SUFFICES ASSUME NEW c \in ahead PROVE c \in Visited(cs)
  BY DEF Unvisited
<1>1. PICK below : below = {d \in ahead : Key(d) < Key(c)}
  OBVIOUS
<1>2. Key(c) \in Int
  BY HandoffAssumption DEF Key, Spans, Series
<1>3. below \subseteq Spans \X Series /\ c \notin below /\ c \in Spans \X Series
  BY <1>1, <1>2
<1>4. IsFiniteSet(Spans \X Series)
  <2>1. IsFiniteSet(Spans) /\ IsFiniteSet(Series)
    BY HandoffAssumption, FS_Interval DEF Spans, Series
  <2> QED
    BY <2>1, FS_Product
<1>5. /\ Cardinality(below) \in Nat /\ Cardinality(Spans \X Series) \in Nat
      /\ Cardinality(below) < Cardinality(Spans \X Series)
  <2>1. below # Spans \X Series
    BY <1>3
  <2> QED
    BY <1>3, <1>4, <2>1, SmallerSet
<1>6. Cardinality(below) < Batch
  BY <1>5, HandoffAssumption DEF WholeScans
<1>7. Cardinality({d \in ahead : Key(d) < Key(c)}) < Batch
  BY <1>1, <1>6
<1> QED
  BY <1>7 DEF Visited

\* After a commit, a listed span has chunks.
LEMMA ListedHaveChunks ==
    ASSUME WholeScans, HandoffInv, ReopenInv, Running, NEW p, p = PassStep(txn.chunks \cup sealed)
    PROVE  \A s \in waiting \cup SpansOf(sealed) :
               s \notin p.emptied /\ s \notin landed => s \in SpansOf((txn.chunks \cup sealed) \ p.gone)
<1>0. PassSound(txn.chunks \cup sealed, p)
  BY PassStepSound
<1>1. PICK cs : cs = txn.chunks \cup sealed
  OBVIOUS
<1>2. cs \in SUBSET (Spans \X Series)
  BY <1>1 DEF HandoffInv, HandoffTypeOK, TypeOK
<1>3. \A s \in waiting : s \notin landed => s \in SpansOf(txn.chunks)
  <2>1. waiting \subseteq SpansOf(db.chunks)
    BY DEF ReopenInv
  <2>2. txn.chunks = {c \in db.chunks : c[1] \notin landed}
    BY DEF HandoffInv, TxnInv
  <2> QED
    BY <2>1, <2>2 DEF SpansOf
<1>4. \A s \in waiting \cup SpansOf(sealed) : s \notin landed => s \in SpansOf(cs)
  BY <1>1, <1>3 DEF SpansOf
<1>5. CASE stage.at = "scan"
  <2>1. Unvisited(cs) = {}
    BY <1>2, ScanEndsAtOnce
  <2>2. p = [gone |-> DeadFound(cs), emptied |-> Emptied(cs), retired |-> {},
             next |-> [at |-> "files", queue |-> Expired(txn.rows)]]
    BY <1>1, <1>5, <2>1 DEF PassStep
  <2>3. p.gone = DeadFound(cs) /\ p.emptied = Emptied(cs)
    BY <2>2
  <2>4. ASSUME NEW s \in waiting \cup SpansOf(sealed), s \notin p.emptied, s \notin inFlight
        PROVE  s \in SpansOf(cs \ p.gone)
    BY <2>3, <2>4 DEF Emptied
  <2>5. ASSUME NEW s \in waiting \cup SpansOf(sealed), s \notin landed, s \in inFlight
        PROVE  s \in SpansOf(cs \ p.gone)
    <3>1. \A c \in p.gone : c[1] # s
      BY <1>0, <2>5 DEF PassSound
    <3> QED
      BY <1>4, <2>5, <3>1 DEF SpansOf
  <2> QED
    BY <1>1, <2>4, <2>5, Zenon
<1>6. CASE stage.at # "scan"
  <2>1. p.gone = {}
    BY <1>6 DEF PassStep
  <2>2. cs \ p.gone = cs
    BY <2>1
  <2> QED
    BY <1>1, <1>4, <2>2, Zenon
<1> QED
  BY <1>5, <1>6

\* With no store open, the files that need explaining are those of spans that were in flight.
LEMMA StoppedReopens ==
    ASSUME HandoffInv, ReopenInv, Running, status' \in {"down", "failed"}, unsynced' = {}, UNCHANGED <<db, files>>
    PROVE  ReopenInv'
<1>1. Orphans' = Orphans /\ \A s : Redundant(s)' <=> Redundant(s)
  BY DEF Orphans, HasFile, Redundant
<1>2. ~Running' /\ status' # "refused"
  BY DEF Running
<1>3. ASSUME NEW s \in Orphans PROVE Redundant(s)
  <2>1. s \in HasFile /\ s \notin HasRow(db.rows) /\ s \notin db.pend
    BY DEF Orphans, HasRow
  <2>2. txn.pend \subseteq db.pend
    BY DEF HandoffInv, TxnInv
  <2>3. s \in landed \cup Reported
    BY <2>1, <2>2 DEF ReopenInv
  <2>4. Reported \subseteq inFlight /\ landed \subseteq inFlight
    BY InFlightNotSettled DEF Reported, Results
  <2>5. s \in inFlight /\ s \in waiting /\ s \in SpansOf(db.chunks)
    BY <2>3, <2>4 DEF HandoffInv, FlightInv, ReopenInv
  <2> QED
    BY <2>5 DEF Redundant, HandoffInv, FlightInv
<1> QED
  BY <1>1, <1>2, <1>3 DEF ReopenInv

\* Nothing is there to explain at the first open.
LEMMA InitReopens == Init => ReopenInv
<1> SUFFICES ASSUME Init PROVE ReopenInv
  OBVIOUS
<1>1. unsynced = {} /\ status = "down" /\ files = [s \in Spans |-> NoFile]
  BY DEF Init
<1>2. Orphans = {}
  BY <1>1 DEF Orphans, HasFile
<1> QED
  BY <1>1, <1>2 DEF ReopenInv, Running

\* A step that leaves the tables, the files, the messages and the list alone.
LEMMA ReopenSame ==
    ASSUME ReopenInv, UNCHANGED <<db, files, unsynced, status, txn, waiting, landed, inbox>>
    PROVE  ReopenInv'
<1>1. Orphans' = Orphans /\ \A s : Redundant(s)' <=> Redundant(s)
  BY DEF Orphans, HasFile, Redundant
<1>2. HasFile' = HasFile /\ Reported' = Reported /\ HasRow(db.rows)' = HasRow(db.rows) /\ Running' = Running
  BY DEF HasFile, Reported, HasRow, Running
<1> QED
  BY <1>1, <1>2 DEF ReopenInv

\* A step of the running store that leaves it running, by its parts.
LEMMA StillReopens ==
    ASSUME Running', unsynced' = {}, waiting' \subseteq SpansOf(db'.chunks),
           \A s \in Spans : files'[s] # NoFile =>
               db'.rows[s] # NoRow \/ s \in txn'.pend \/ s \in landed' \/ s \in Reported',
           \A i \in DOMAIN inbox' : inbox'[i].kind = "unlinked" => files'[inbox'[i].span] = NoFile
    PROVE  ReopenInv'
<1>1. status' # "refused"
  BY DEF Running
<1>2. (HasFile \subseteq HasRow(db.rows) \cup txn.pend \cup landed \cup Reported)'
  BY DEF HasFile, HasRow
<1> QED
  BY <1>1, <1>2 DEF ReopenInv

\* The messages reported when one joins, and when the first is handled.
LEMMA ReportJoined ==
    ASSUME inbox \in Seq(Messages), NEW m \in Messages, inbox' = Append(inbox, m)
    PROVE  /\ Reported \subseteq Reported'
           /\ m.kind = "written" => m.span \in Reported'
           /\ \A i \in DOMAIN inbox' : inbox'[i] = m \/ (i \in DOMAIN inbox /\ inbox'[i] = inbox[i])
<1>1. \A i \in DOMAIN inbox : inbox'[i] = inbox[i]
  BY MessageJoined
<1>2. PICK n : DOMAIN inbox' = DOMAIN inbox \cup {n} /\ inbox'[n] = m
  BY MessageJoined
<1>3. n \in DOMAIN inbox' /\ \A i \in DOMAIN inbox : i \in DOMAIN inbox'
  BY <1>2
<1>4. \A i \in DOMAIN inbox' : inbox'[i] = m \/ (i \in DOMAIN inbox /\ inbox'[i] = inbox[i])
  BY <1>1, <1>2
<1>5. Reported \subseteq Reported'
  BY <1>1, <1>3 DEF Reported
<1>6. m.kind = "written" => m.span \in Reported'
  BY <1>2, <1>3 DEF Reported
<1> QED
  BY <1>4, <1>5, <1>6

\* A report, with the file it is about or none, leaves every file explained.
LEMMA WriteSpanReopens ==
    ASSUME HandoffInv, ReopenInv, Running, bw # Idle, bw' = Idle,
           UNCHANGED <<db, status, txn, waiting, landed>>,
           NEW m \in Messages, inbox' = Append(inbox, m), m.kind # "unlinked",
           \/ files' = files /\ unsynced' = unsynced
           \/ files' = [files EXCEPT ![bw.span] = bw.held] /\ m.kind = "written" /\ m.span = bw.span
              /\ unsynced' = {}
    PROVE  ReopenInv'
<1>1. inbox \in Seq(Messages) /\ files \in [Spans -> (SUBSET Series) \cup {NoFile}] /\ bw.span \in Spans
  BY DEF HandoffInv, HandoffTypeOK, TypeOK
<1>2. /\ Reported \subseteq Reported'
      /\ m.kind = "written" => m.span \in Reported'
      /\ \A i \in DOMAIN inbox' : inbox'[i] = m \/ (i \in DOMAIN inbox /\ inbox'[i] = inbox[i])
  BY <1>1, ReportJoined
<1>3. /\ unsynced = {} /\ waiting \subseteq SpansOf(db.chunks)
      /\ HasFile \subseteq HasRow(db.rows) \cup txn.pend \cup landed \cup Reported
      /\ \A i \in DOMAIN inbox : inbox[i].kind = "unlinked" => files[inbox[i].span] = NoFile
  BY DEF ReopenInv
<1>4. \A i \in DOMAIN inbox : inbox[i].kind = "unlinked" => inbox[i].span # bw.span
  <2>1. \A i \in DOMAIN inbox : inbox[i].kind = "unlinked" => inbox[i].span \in Unlinking
    BY DEF Unlinking
  <2> QED
    BY <2>1, InFlightNotSettled DEF HandoffInv, SettledInv
<1>5. /\ \A s \in Spans : files'[s] # NoFile => files[s] # NoFile \/ s \in Reported'
      /\ \A s \in Spans : s # bw.span => files'[s] = files[s]
  BY <1>1, <1>2
<1>6. \A s \in Spans : files'[s] # NoFile =>
               db'.rows[s] # NoRow \/ s \in txn'.pend \/ s \in landed' \/ s \in Reported'
  BY <1>2, <1>3, <1>5 DEF HasFile, HasRow
<1>7. \A i \in DOMAIN inbox' : inbox'[i].kind = "unlinked" => files'[inbox'[i].span] = NoFile
  <2>1. \A i \in DOMAIN inbox : inbox[i].span \in Spans
    BY DEF HandoffInv, HandoffTypeOK, TypeOK, Messages
  <2> QED
    BY <1>2, <1>3, <1>4, <1>5, <2>1
<1>8. Running' /\ unsynced' = {} /\ waiting' \subseteq SpansOf(db'.chunks)
  BY <1>3 DEF Running, SpansOf
<1> QED
  BY <1>6, <1>7, <1>8, StillReopens

\* So a write does ...
LEMMA WriteSpanStepReopens ==
    ASSUME HandoffInv, ReopenInv, WriteSpan
    PROVE  ReopenInv'
<1>1. Running /\ bw # Idle /\ bw' = Idle /\ UNCHANGED <<db, status, txn, waiting, landed>>
  BY DEF WriteSpan, Running, handoffs
<1>2. bw.span \in Spans /\ bw.held \in SUBSET Series
  BY <1>1 DEF HandoffInv, HandoffTypeOK, TypeOK
<1>3. CASE files[bw.span] = NoFile
  <2>1. PICK m : m = [kind |-> "written", span |-> bw.span, held |-> bw.held]
    OBVIOUS
  <2>2. m \in Messages /\ m.kind = "written" /\ m.span = bw.span
    BY <1>2, <2>1 DEF Messages
  <2>3. inbox' = Append(inbox, m) /\ files' = [files EXCEPT ![bw.span] = bw.held] /\ unsynced' = {}
    BY <1>3, <2>1 DEF WriteSpan
  <2> QED
    BY <1>1, <2>2, <2>3, WriteSpanReopens
<1>4. CASE files[bw.span] # NoFile
  <2>1. PICK m : m = [kind |-> "failed", span |-> bw.span]
    OBVIOUS
  <2>2. m \in Messages /\ m.kind = "failed"
    BY <1>2, <2>1 DEF Messages
  <2>3. inbox' = Append(inbox, m) /\ files' = files /\ unsynced' = unsynced
    BY <1>4, <2>1 DEF WriteSpan
  <2> QED
    BY <1>1, <2>2, <2>3, WriteSpanReopens
<1> QED
  BY <1>3, <1>4

\* ... and a failed write.
LEMMA WriteSpanFailsReopens ==
    ASSUME HandoffInv, ReopenInv, WriteSpanFails
    PROVE  ReopenInv'
<1>1. Running /\ bw # Idle /\ bw' = Idle /\ UNCHANGED <<db, files, unsynced, status, txn, waiting, landed>>
  BY DEF WriteSpanFails, Running, handoffs
<1>2. PICK m : m = [kind |-> "failed", span |-> bw.span]
  OBVIOUS
<1>3. bw.span \in Spans
  BY <1>1 DEF HandoffInv, HandoffTypeOK
<1>4. m \in Messages /\ m.kind = "failed"
  BY <1>2, <1>3 DEF Messages
<1>5. inbox' = Append(inbox, m)
  BY <1>2 DEF WriteSpanFails
<1> QED
  BY <1>1, <1>4, <1>5, WriteSpanReopens

\* An unlink leaves one file fewer to explain.
LEMMA UnlinkReopens ==
    ASSUME WholeScans, HandoffInv, ReopenInv, Unlink
    PROVE  ReopenInv'
<1>r. Running /\ Running'
  BY DEF Unlink, Running
<1>u. UNCHANGED <<db, txn, waiting, landed>>
  BY DEF Unlink, handoffs
<1>1. PICK s : s = Head(jobs).span
  OBVIOUS
<1>2. PICK m : m = [kind |-> "unlinked", span |-> s]
  OBVIOUS
<1>3. /\ inbox' = Append(inbox, m) /\ files' = [files EXCEPT ![s] = NoFile]
      /\ unsynced' = unsynced
  BY <1>1, <1>2 DEF Unlink, WholeScans
<1>4. s \in Spans
  <2>1. jobs \in Seq(JobType) /\ jobs # <<>> /\ jobs' = Tail(jobs)
    BY DEF HandoffInv, HandoffTypeOK, Unlink
  <2> QED
    BY <1>1, <2>1, JobTaken
<1>5. m \in Messages /\ m.kind = "unlinked" /\ m.span = s
  BY <1>2, <1>4 DEF Messages
<1>6. inbox \in Seq(Messages) /\ files \in [Spans -> (SUBSET Series) \cup {NoFile}]
  BY DEF HandoffInv, HandoffTypeOK, TypeOK
<1>7. /\ Reported \subseteq Reported'
      /\ \A i \in DOMAIN inbox' : inbox'[i] = m \/ (i \in DOMAIN inbox /\ inbox'[i] = inbox[i])
  BY <1>3, <1>5, <1>6, ReportJoined
<1>8. files'[s] = NoFile /\ \A z \in Spans : files'[z] = NoFile \/ files'[z] = files[z]
  BY <1>3, <1>4, <1>6
<1>9. /\ unsynced = {} /\ waiting \subseteq SpansOf(db.chunks)
      /\ HasFile \subseteq HasRow(db.rows) \cup txn.pend \cup landed \cup Reported
      /\ \A i \in DOMAIN inbox : inbox[i].kind = "unlinked" => files[inbox[i].span] = NoFile
  BY <1>r DEF ReopenInv
<1>10. \A z \in Spans : files'[z] # NoFile =>
               db'.rows[z] # NoRow \/ z \in txn'.pend \/ z \in landed' \/ z \in Reported'
  BY <1>u, <1>7, <1>8, <1>9 DEF HasFile, HasRow
<1>11. \A i \in DOMAIN inbox' : inbox'[i].kind = "unlinked" => files'[inbox'[i].span] = NoFile
  <2>1. \A i \in DOMAIN inbox : inbox[i].span \in Spans
    BY DEF HandoffInv, HandoffTypeOK, TypeOK, Messages
  <2> QED
    BY <1>5, <1>7, <1>8, <1>9, <2>1
<1>12. unsynced' = {} /\ waiting' \subseteq SpansOf(db'.chunks)
  BY <1>u, <1>3, <1>9 DEF SpansOf
<1> QED
  BY <1>r, <1>10, <1>11, <1>12, StillReopens

\* A message handled leaves every file explained: a written span's is landed, an unlinked one
\* is gone.
LEMMA ReceiveReopens ==
    ASSUME HandoffInv, ReopenInv, Receive
    PROVE  ReopenInv'
<1>r. Running
  BY DEF Receive, Running
<1>u. UNCHANGED <<db, files, unsynced>>
  BY DEF Receive
<1>1. PICK m : m = Head(inbox)
  OBVIOUS
<1>2. \/ m.kind = "written" /\ HandOffWritten(m) /\ UNCHANGED waiting
      \/ m.kind = "failed" /\ UNCHANGED <<txn, landed, status, waiting>>
      \/ m.kind = "unlinked" /\ EntryCleared(m) /\ UNCHANGED <<landed, status, waiting>>
  BY <1>1 DEF Receive, handoffs
<1>3. inbox \in Seq(Messages) /\ inbox # <<>> /\ inbox' = Tail(inbox)
  BY DEF HandoffInv, HandoffTypeOK, Receive
<1>4. /\ m = inbox[1] /\ m \in Messages /\ 1 \in DOMAIN inbox
      /\ \A i \in DOMAIN inbox' : i \in Int /\ i + 1 \in DOMAIN inbox \ {1} /\ inbox'[i] = inbox[i + 1]
      /\ \A i \in DOMAIN inbox \ {1} : i \in Int /\ i - 1 \in DOMAIN inbox' /\ inbox'[i - 1] = inbox[i]
  BY <1>1, <1>3, MessageTaken
<1>5. m.span \in Spans
  BY <1>4 DEF Messages
<1>6. m.kind = "written" => txn.rows[m.span] = NoRow
  <2>1. m.kind = "written" => txn.rows[inbox[1].span] = NoRow
    BY <1>r, <1>4, WaitingIsComplete DEF WaitingComplete, Running
  <2> QED
    BY <1>4, <2>1
<1>7. /\ status' = status /\ waiting' = waiting /\ landed \subseteq landed'
      /\ m.kind = "written" => m.span \in landed'
      /\ \A s \in txn.pend : s \in txn'.pend \/ (m.kind = "unlinked" /\ s = m.span)
  <2>1. txn.pend \in SUBSET Spans /\ txn \in [chunks : SUBSET (Spans \X Series),
                  rows : [Spans -> (SUBSET Series) \cup {NoRow}], pend : SUBSET Spans]
    BY DEF HandoffInv, HandoffTypeOK
  <2> QED
    BY <1>2, <1>6, <2>1 DEF HandOffWritten, EntryCleared
<1>8. \A s \in Reported : s \in Reported' \/ (m.kind = "written" /\ s = m.span)
  <2> SUFFICES ASSUME NEW i \in DOMAIN inbox, inbox[i].kind = "written"
               PROVE  inbox[i].span \in Reported' \/ (m.kind = "written" /\ inbox[i].span = m.span)
    BY DEF Reported
  <2>1. CASE i = 1
    BY <1>4, <2>1
  <2>2. CASE i # 1
    <3>1. i - 1 \in DOMAIN inbox' /\ inbox'[i - 1] = inbox[i]
      BY <1>4, <2>2
    <3> QED
      BY <3>1 DEF Reported
  <2> QED
    BY <2>1, <2>2
<1>9. /\ unsynced = {} /\ waiting \subseteq SpansOf(db.chunks)
      /\ HasFile \subseteq HasRow(db.rows) \cup txn.pend \cup landed \cup Reported
      /\ \A i \in DOMAIN inbox : inbox[i].kind = "unlinked" => files[inbox[i].span] = NoFile
  BY <1>r DEF ReopenInv
<1>10. m.kind = "unlinked" => files[m.span] = NoFile
  BY <1>4, <1>9
<1>11. \A s \in Spans : files[s] # NoFile =>
               db.rows[s] # NoRow \/ s \in txn'.pend \/ s \in landed' \/ s \in Reported'
  <2>1. \A s \in Spans : files[s] # NoFile =>
               db.rows[s] # NoRow \/ s \in txn.pend \/ s \in landed \/ s \in Reported
    BY <1>9 DEF HasFile, HasRow
  <2> QED
    BY <1>7, <1>8, <1>10, <2>1
<1>12. \A i \in DOMAIN inbox' : inbox'[i].kind = "unlinked" => files[inbox'[i].span] = NoFile
  <2>1. \A i \in DOMAIN inbox' : \E j \in DOMAIN inbox : inbox'[i] = inbox[j]
    BY <1>4
  <2> QED
    BY <1>9, <2>1, Zenon
<1>13. Running' /\ unsynced' = {} /\ waiting' \subseteq SpansOf(db'.chunks)
  BY <1>r, <1>u, <1>7, <1>9 DEF Running, SpansOf
<1> QED
  BY <1>u, <1>11, <1>12, <1>13, StillReopens

\* A file a commit leaves without a row or a pending unlink is one the block writer reported
\* and the writer has not yet taken in.
LEMMA CommitExplains ==
    ASSUME HandoffInv, ReopenInv, Running, NEW p, p = PassStep(txn.chunks \cup sealed),
           NEW d, d = Committed(p), NEW s \in HasFile, d.rows[s] = NoRow, s \notin d.pend
    PROVE  s \in Reported /\ s \notin landed
<1>1. PassSound(txn.chunks \cup sealed, p)
  BY PassStepSound
<1>2. \A z \in Spans : z \in HasRow(d.rows) <=> z \in landed \cup HasRow(db.rows) /\ z \notin p.retired
  BY <1>1, CommitIsSound
<1>3. d.pend = txn.pend \cup p.retired
  BY DEF Committed, Written
<1>4. s \in Spans /\ s \notin HasRow(d.rows) /\ s \notin p.retired /\ s \notin txn.pend
  BY <1>3 DEF HasFile, HasRow
<1>5. s \notin landed \cup HasRow(db.rows)
  BY <1>2, <1>4
<1> QED
  BY <1>4, <1>5 DEF ReopenInv

\* A commit leaves every file explained, and every listed span with chunks.
LEMMA CommitReopens ==
    ASSUME WholeScans, HandoffInv, ReopenInv, Commit
    PROVE  ReopenInv'
<1>r. Running /\ Running'
  BY DEF Commit, Running
<1>u. UNCHANGED <<files, unsynced, inbox>>
  BY DEF Commit
<1>1. PICK p : p = PassStep(txn.chunks \cup sealed)
  OBVIOUS
<1>2. PICK d : d = Committed(p)
  OBVIOUS
<1>3. /\ db' = Committed(p) /\ txn' = Written(p)
      /\ waiting' = ((waiting \cup SpansOf(sealed)) \ p.emptied) \ landed
  BY <1>1 DEF Commit
<1>4. db' = d /\ txn'.pend = d.pend /\ d.chunks = (txn.chunks \cup sealed) \ p.gone
  BY <1>2, <1>3 DEF Committed, Written
<1>5. waiting' \subseteq SpansOf(d.chunks)
  <2>1. \A s \in waiting \cup SpansOf(sealed) :
               s \notin p.emptied /\ s \notin landed => s \in SpansOf((txn.chunks \cup sealed) \ p.gone)
    BY <1>r, <1>1, ListedHaveChunks
  <2> QED
    BY <1>3, <1>4, <2>1, Zenon
<1>6. Reported' = Reported
  BY <1>u DEF Reported
<1>7. \A s \in Spans : files'[s] # NoFile =>
               db'.rows[s] # NoRow \/ s \in txn'.pend \/ s \in landed' \/ s \in Reported'
  <2>1. \A s \in HasFile : d.rows[s] = NoRow /\ s \notin d.pend => s \in Reported
    BY <1>r, <1>1, <1>2, CommitExplains
  <2> QED
    BY <1>u, <1>4, <1>6, <2>1 DEF HasFile
<1>8. unsynced' = {} /\ waiting' \subseteq SpansOf(db'.chunks)
  BY <1>u, <1>4, <1>5, Zenon DEF ReopenInv
<1>9. \A i \in DOMAIN inbox' : inbox'[i].kind = "unlinked" => files'[inbox'[i].span] = NoFile
  BY <1>r, <1>u DEF ReopenInv
<1> QED
  BY <1>r, <1>7, <1>8, <1>9, StillReopens

\* After a failed commit that reached redb, the orphans are of spans still in flight, whose
\* chunks the pass left alone.
LEMMA CommitFailsReopens ==
    ASSUME WholeScans, HandoffInv, ReopenInv, CommitFails
    PROVE  ReopenInv'
<1>1. Running /\ status' = "failed" /\ UNCHANGED <<files, unsynced>> /\ unsynced = {}
  BY DEF CommitFails, Running, ReopenInv
<1>2. CASE UNCHANGED db
  BY <1>1, <1>2, StoppedReopens
<1>3. CASE db' = Committed(PassStep(txn.chunks \cup sealed))
  <2>1. PICK p : p = PassStep(txn.chunks \cup sealed)
    OBVIOUS
  <2>2. PICK d : d = Committed(p)
    OBVIOUS
  <2>3. /\ db' = d /\ d.now = now /\ d.open = open
        /\ d.chunks = (txn.chunks \cup sealed) \ p.gone
    BY <1>3, <2>1, <2>2 DEF Committed, Written
  <2>4. ASSUME NEW s \in HasFile, d.rows[s] = NoRow, s \notin d.pend
        PROVE  Closed(s, d.now) /\ s \notin SpansOf(d.open) /\ s \in SpansOf(d.chunks)
    <3>1. s \in Reported /\ s \notin landed
      BY <1>1, <2>1, <2>2, <2>4, CommitExplains
    <3>2. s \in inFlight
      <4>1. Reported \subseteq inFlight
        BY <1>1, InFlightNotSettled DEF Reported, Results
      <4> QED
        BY <3>1, <4>1
    <3>3. s \in waiting /\ Closed(s, now) /\ s \notin SpansOf(open)
      BY <1>1, <3>2 DEF HandoffInv, FlightInv
    <3>4. PassSound(txn.chunks \cup sealed, p)
      BY <1>1, <2>1, PassStepSound
    <3>5. s \notin p.emptied
      BY <3>2, <3>4 DEF PassSound
    <3>6. \A z \in waiting \cup SpansOf(sealed) :
               z \notin p.emptied /\ z \notin landed => z \in SpansOf((txn.chunks \cup sealed) \ p.gone)
      BY <1>1, <2>1, ListedHaveChunks
    <3>7. s \in SpansOf((txn.chunks \cup sealed) \ p.gone)
      BY <3>1, <3>3, <3>5, <3>6
    <3> QED
      BY <2>3, <3>3, <3>7
  <2>5. \A s \in Orphans' : Redundant(s)'
    BY <1>1, <2>3, <2>4 DEF Orphans, HasFile, Redundant
  <2> QED
    BY <1>1, <2>5 DEF ReopenInv, Running
<1> QED
  BY <1>2, <1>3 DEF CommitFails

\* After a crash, the orphans are of spans in flight.
LEMMA CrashReopens ==
    ASSUME HandoffInv, ReopenInv, Crash
    PROVE  ReopenInv'
<1>1. Running /\ status' = "down" /\ UNCHANGED db /\ unsynced' = {}
  BY DEF Crash, Running
<1>2. files' = files
  <2>1. PICK back \in SUBSET unsynced :
            files' = [s \in Spans |-> IF \E f \in back : f[1] = s
                                      THEN (CHOOSE f \in back : f[1] = s)[2] ELSE files[s]]
    BY DEF Crash
  <2>2. back = {}
    BY DEF ReopenInv
  <2>3. files' = [s \in Spans |-> files[s]]
    BY <2>1, <2>2
  <2> QED
    BY <2>3 DEF HandoffInv, HandoffTypeOK, TypeOK
<1> QED
  BY <1>1, <1>2, StoppedReopens

\* An open that finds every orphan redundant starts the store, with files only of rows.
LEMMA OpenReopens ==
    ASSUME ReopenInv, NEW sys \in Times, NEW r \in Times, Open(sys, r)
    PROVE  ReopenInv'
<1>1. ~Running
  BY DEF Open, Running
<1>2. PICK t : Opens(t, r)
  BY <1>1 DEF Open, ReopenInv
<1>3. PICK kept : kept = {s \in HasFile : s \notin db.pend /\ s \notin Orphans}
  OBVIOUS
<1>4. /\ status' = "running" /\ files' = [s \in Spans |-> IF s \in kept THEN files[s] ELSE NoFile]
      /\ db' = [db EXCEPT !.pend = {}] /\ waiting' = SpansOf(db.chunks) /\ inbox' = <<>>
      /\ UNCHANGED unsynced
  BY <1>2, <1>3 DEF Opens
<1>5. Running' /\ unsynced' = {}
  BY <1>4 DEF Running, ReopenInv
<1>6. db'.chunks = db.chunks /\ db'.rows = db.rows
  BY <1>4
<1>7. \A s \in kept : db.rows[s] # NoRow
  BY <1>3 DEF Orphans
<1>8. \A s \in Spans : files'[s] # NoFile => db'.rows[s] # NoRow
  BY <1>4, <1>6, <1>7
<1>9. waiting' \subseteq SpansOf(db'.chunks)
  BY <1>4, <1>6
<1>10. \A i \in DOMAIN inbox' : inbox'[i].kind = "unlinked" => files'[inbox'[i].span] = NoFile
  BY <1>4
<1> QED
  BY <1>5, <1>8, <1>9, <1>10, StillReopens

\* Where a power loss undoes no unlink and a pass's scan ends in the commit that began it, an
\* open after any crash or failed commit starts the store: every file it finds has a row, a
\* pending unlink, or is a redundant copy (open's reconcile(), RFC 0010 §6).  Without the second
\* condition it does not hold: the span_batches run refutes it.
THEOREM OpenNeverRefusedHolds == WholeScans => (Spec => []OpenNeverRefused)
<1> SUFFICES ASSUME WholeScans PROVE Spec => []OpenNeverRefused
  OBVIOUS
<1>1. HandoffInv /\ ReopenInv /\ [Next]_vars => ReopenInv'
  <2> SUFFICES ASSUME HandoffInv, ReopenInv, [Next]_vars PROVE ReopenInv'
    OBVIOUS
  <2>1. ASSUME NEW x \in Series, NEW sys \in Times, AppendPoint(x, sys) PROVE ReopenInv'
    BY <2>1, ReopenSame DEF AppendPoint, handoffs, threads
  <2>2. ASSUME NEW sys \in Times, Sweep(sys) PROVE ReopenInv'
    BY <2>2, ReopenSame DEF Sweep, threads
  <2>3. ASSUME NEW sys \in Times, NEW r \in Times, PassBegin(sys, r) PROVE ReopenInv'
    BY <2>3, ReopenSame DEF PassBegin, handoffs, threads
  <2>4. ASSUME NEW sys \in Times, NEW r \in Times, Open(sys, r) PROVE ReopenInv'
    BY <2>4, OpenReopens
  <2>5. CASE Receive
    BY <2>5, ReceiveReopens
  <2>6. CASE Commit
    BY <2>6, CommitReopens
  <2>7. CASE CommitFails
    BY <2>7, CommitFailsReopens
  <2>8. CASE BacklogStops
    BY <2>8, StoppedReopens DEF BacklogStops, Running, ReopenInv
  <2>9. CASE Crash
    BY <2>9, CrashReopens
  <2>10. CASE ReadSpan
    BY <2>10, ReopenSame DEF ReadSpan, handoffs
  <2>11. CASE WriteSpan
    BY <2>11, WriteSpanStepReopens
  <2>12. CASE WriteSpanFails
    BY <2>12, WriteSpanFailsReopens
  <2>13. CASE Unlink
    BY <2>13, UnlinkReopens
  <2>14. CASE UnlinkFails
    BY <2>14, ReopenSame DEF UnlinkFails, handoffs
  <2>15. CASE UNCHANGED vars
    BY <2>15, ReopenSame DEF vars, handoffs, threads
  <2> QED
    BY <2>1, <2>2, <2>3, <2>4, <2>5, <2>6, <2>7, <2>8, <2>9, <2>10, <2>11, <2>12, <2>13, <2>14, <2>15
       DEF Next
<1>2. ReopenInv => OpenNeverRefused
  BY DEF ReopenInv, OpenNeverRefused
<1> QED
  BY <1>1, <1>2, InitReopens, HandoffInvariant, PTL DEF Spec
=============================================================================
