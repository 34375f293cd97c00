---------------------------- MODULE StoreLogProofs ----------------------------
(***************************************************************************)
(* What holds of the store's writer for any number of series, any lengths  *)
(* of spans and chunks and any times: the shape of its state, that ids are *)
(* never shared, that whatever a table or the log names was interned, that *)
(* no committed point is later than the committed clock, that the tails and *)
(* the head always fit the chunks sealed before them (SeriesInv), and that   *)
(* memory and disk hold the same points but for the interval's, whatever the *)
(* rotation has let go of the log (LogInv): with it, that StoreLog implements *)
(* DurableSet.                                                              *)
(***************************************************************************)
EXTENDS StoreLog, FiniteSetTheorems, TLAPS

-----------------------------------------------------------------------------
(* The operators on one series.                                            *)

\* A span starts at a time the model has: at its point or before it.
LEMMA SpanOfType == \A ts \in Times : SpanOf(ts) \in 0..MaxTime
<1> SUFFICES ASSUME NEW ts \in Times PROVE SpanOf(ts) \in 0..MaxTime
  OBVIOUS
<1>1. ts \in Nat /\ ts <= MaxTime /\ SpanSecs \in Nat \ {0} /\ MaxTime \in Nat
  BY ConstAssumption DEF Times
<1>2. ts % SpanSecs \in 0..(SpanSecs - 1)
  BY <1>1
<1>3. ts % SpanSecs <= ts
  BY <1>1, <1>2
<1> QED
  BY <1>1, <1>2, <1>3 DEF SpanOf

\* SeriesState::new, Open::seal and Open::push_in return a series' state.
LEMMA NewSeriesType == NewSeries \in Series
  BY ConstAssumption DEF NewSeries, Series, NoSpan

LEMMA SealedStateType == \A s \in Series : SealedState(s) \in Series
  BY DEF SealedState, Series

LEMMA PushedType == \A s \in Series, ts \in Times : Pushed(s, ts) \in Series
<1> SUFFICES ASSUME NEW s \in Series, NEW ts \in Times PROVE Pushed(s, ts) \in Series
  OBVIOUS
<1> DEFINE t == InSpan(s, ts)
           u == IF Cardinality(t.open) >= ChunkPoints THEN SealedState(t) ELSE t
<1>1. t \in Series
  BY SpanOfType DEF InSpan, Series
<1>2. u \in Series
  BY <1>1, SealedStateType
<1>3. ts \in 0..MaxTime
  BY DEF Times
<1>4. Pushed(s, ts) = [last |-> ts, span |-> u.span, open |-> u.open \cup {ts}, next |-> u.next]
  BY DEF Pushed
<1> HIDE DEF u
<1> QED
  BY <1>2, <1>3, <1>4 DEF Series

\* A sealed chunk is a row of `chunks`, whichever way it was sealed.
LEMMA ChunkType == \A id \in Ids, s \in Series : Chunk(id, s) \in Chunks
  BY DEF Chunk, Chunks, Series

LEMMA SealedByType ==
    \A id \in Ids, s \in Series, ts \in Times : SealedBy(id, s, ts) \subseteq Chunks
  BY ChunkType DEF SealedBy

\* Hub time: the later of the last time issued and the system's.
LEMMA ClockType == \A c \in 0..MaxTime, sys \in Times : Max2(c, sys) \in Times
  BY ConstAssumption DEF Max2, Times

-----------------------------------------------------------------------------
(* Type correctness.                                                       *)

LEMMA MemoryGoneType == MemoryGone => MemoryTypeOK'
  BY ConstAssumption, NewSeriesType DEF MemoryGone, MemoryTypeOK, Ids

\* A commit writes rows of the schema's types, whichever tails are due.
LEMMA WriteIntervalType ==
    ASSUME TypeOK, NEW due, WriteInterval(due) PROVE DiskTypeOK'
<1> USE DEF TypeOK, DiskTypeOK, MemoryTypeOK, WriteInterval
<1>1. dIds' \in [Keys -> Ids \cup {NoId}]
  OBVIOUS
<1>2. dTail' \in [Ids -> Series]
  OBVIOUS
<1>3. dLog' \subseteq LogPoints
  BY DEF LogWith, LogPoints
<1>4. dChunks' \subseteq Chunks
  BY DEF Upserted
<1>5. dClock' \in 0..MaxTime /\ dNextId' \in Ids /\ dSeq' \in Nat
  BY DEF WriteMeta
<1> QED
  BY <1>1, <1>2, <1>3, <1>4, <1>5

\* A sweep, at whatever time, seals chunks of the head's series.
LEMMA SweepAtType ==
    ASSUME TypeOK, NEW at \in Times, SweepAt(at)
    PROVE head' \in [Ids -> Series] /\ sealed' \subseteq Chunks /\ touched' \subseteq Ids
<1> DEFINE swept == {i \in Index : SealsAt(head[i], at)}
<1>1. swept \subseteq Ids
  BY DEF Index
<1>2. \A i \in Ids : head[i] \in Series /\ SealedState(head[i]) \in Series
  BY SealedStateType DEF TypeOK, MemoryTypeOK
<1>3. \A i \in Ids : Chunk(i, head[i]) \in Chunks
  BY <1>2, ChunkType
<1>4. /\ head' = [i \in Ids |-> IF i \in swept THEN SealedState(head[i]) ELSE head[i]]
      /\ sealed' = sealed \cup {Chunk(i, head[i]) : i \in swept}
      /\ touched' = touched \cup swept
  BY DEF SweepAt
<1> HIDE DEF swept
<1> QED
  BY <1>1, <1>2, <1>3, <1>4 DEF TypeOK, MemoryTypeOK

LEMMA AppendType ==
    ASSUME TypeOK, NEW k \in Keys, NEW sys \in Times, Append(k, sys) PROVE TypeOK'
<1> DEFINE at == Max2(clock, sys)
           id == IdFor(k)
           new == SealedBy(id, head[id], at)
<1> USE DEF TypeOK, MemoryTypeOK
<1>1. at \in Times /\ at \in 0..MaxTime
  BY ClockType DEF Times
<1>2. id \in Ids
  BY DEF IdFor
<1>3. head[id] \in Series
  BY <1>2
<1>4. new \subseteq Chunks /\ Pushed(head[id], at) \in Series
  BY <1>1, <1>2, <1>3, SealedByType, PushedType
<1>5. DiskTypeOK' /\ status' = status
  BY DEF Append, DiskTypeOK, disk
<1> HIDE DEF at, id, new
<1>6. CASE Rejected(k, at)
  BY <1>1, <1>5, <1>6 DEF Append, rotation, at
<1>7. CASE ~Rejected(k, at)
  <2>1. /\ clock' = at
        /\ ids' = [ids EXCEPT ![k] = id]
        /\ nextId' = IF ids[k] = NoId THEN nextId + 1 ELSE nextId
        /\ fresh' = IF ids[k] = NoId THEN fresh \cup {id} ELSE fresh
        /\ head' = [head EXCEPT ![id] = Pushed(@, at)]
        /\ dirty' = dirty \cup {id}
        /\ sealed' = sealed \cup new
        /\ touched' = IF ids[k] = NoId \/ new # {} THEN touched \cup {id} ELSE touched
        /\ points' = points \cup {[id |-> id, ts |-> at]}
        /\ UNCHANGED <<replay, seq, rotation>>
    BY <1>7 DEF Append, at, id, new
  <2>2. nextId' \in Ids
    BY <1>7, <2>1, ConstAssumption DEF Rejected, Ids
  <2>3. ids' \in [Keys -> Ids \cup {NoId}] /\ head' \in [Ids -> Series]
    BY <1>2, <1>4, <2>1
  <2>4. /\ fresh' \subseteq Ids /\ dirty' \subseteq Ids /\ touched' \subseteq Ids
        /\ sealed' \subseteq Chunks /\ points' \subseteq [id : Ids, ts : Times]
    BY <1>1, <1>2, <1>4, <2>1
  <2>5. /\ replay' \subseteq LogPoints /\ seq' \in Nat
        /\ logBound' \in Nat /\ rotSeq' \in Nat /\ rotTodo' \subseteq Ids
    BY <2>1 DEF rotation
  <2> QED
    BY <1>1, <1>5, <2>1, <2>2, <2>3, <2>4, <2>5
<1> QED
  BY <1>6, <1>7

LEMMA ReplayPointType == ASSUME TypeOK, ReplayPoint PROVE TypeOK'
<1> USE DEF TypeOK, MemoryTypeOK
<1>1. DiskTypeOK' /\ UNCHANGED <<status, clock, nextId, seq, ids, fresh, points, rotation>>
  BY DEF ReplayPoint, DiskTypeOK, disk
<1>2. PICK p \in replay :
        /\ replay' = replay \ {p}
        /\ IF Replays(p)
           THEN LET new == SealedBy(p.id, head[p.id], p.ts) IN
                /\ head' = [head EXCEPT ![p.id] = Pushed(@, p.ts)]
                /\ dirty' = dirty \cup {p.id}
                /\ sealed' = sealed \cup new
                /\ touched' = IF new = {} THEN touched ELSE touched \cup {p.id}
           ELSE UNCHANGED <<head, dirty, sealed, touched>>
  BY DEF ReplayPoint
<1>3. p.id \in Ids /\ p.ts \in Times
  BY DEF LogPoints
<1>4. SealedBy(p.id, head[p.id], p.ts) \subseteq Chunks /\ Pushed(head[p.id], p.ts) \in Series
  BY <1>3, SealedByType, PushedType
<1>5. /\ head' \in [Ids -> Series] /\ sealed' \subseteq Chunks
      /\ dirty' \subseteq Ids /\ touched' \subseteq Ids /\ replay' \subseteq LogPoints
  BY <1>2, <1>3, <1>4
<1> QED
  BY <1>1, <1>5 DEF rotation

LEMMA AfterCommitType ==
    ASSUME TypeOK, NEW due, AfterCommit(due)
    PROVE seq' \in Nat /\ logBound' \in Nat /\ rotSeq' \in Nat /\ rotTodo' \subseteq Ids
  BY DEF TypeOK, MemoryTypeOK, AfterCommit, Index

\* Every variable keeps its type, whatever the constants: hub time and spans stay in range,
\* the id counter stops at the cap, and a commit's arithmetic on sequences stays natural.
THEOREM TypeCorrect == Spec => []TypeOK
<1>1. Init => TypeOK
  BY ConstAssumption, NewSeriesType DEF Init, TypeOK, DiskTypeOK, MemoryTypeOK, Ids
<1>2. TypeOK /\ [Next]_vars => TypeOK'
  <2> SUFFICES ASSUME TypeOK, [Next]_vars PROVE TypeOK'
    OBVIOUS
  <2>1. CASE Open
    BY <2>1 DEF Open, TypeOK, DiskTypeOK, MemoryTypeOK, disk
  <2>2. CASE ReplayPoint
    BY <2>2, ReplayPointType
  <2>3. ASSUME NEW sys \in Times, Opened(sys) PROVE TypeOK'
    <3>1. clock' \in Times /\ clock' \in 0..MaxTime
      BY <2>3, ClockType DEF Opened, TypeOK, MemoryTypeOK, Times
    <3>2. head' \in [Ids -> Series] /\ sealed' \subseteq Chunks /\ touched' \subseteq Ids
      BY <2>3, <3>1, SweepAtType DEF Opened
    <3> QED
      BY <2>3, <3>1, <3>2 DEF Opened, TypeOK, DiskTypeOK, MemoryTypeOK, disk, Index
  <2>4. ASSUME NEW sys \in Times, NEW k \in Keys, Append(k, sys) PROVE TypeOK'
    BY <2>4, AppendType
  <2>5. ASSUME NEW sys \in Times, Sweep(sys) PROVE TypeOK'
    <3>1. clock' \in Times /\ clock' \in 0..MaxTime
      BY <2>5, ClockType DEF Sweep, TypeOK, MemoryTypeOK, Times
    <3>2. head' \in [Ids -> Series] /\ sealed' \subseteq Chunks /\ touched' \subseteq Ids
      BY <2>5, <3>1, SweepAtType DEF Sweep
    <3> QED
      BY <2>5, <3>1, <3>2 DEF Sweep, TypeOK, DiskTypeOK, MemoryTypeOK, disk, rotation
  <2>6. ASSUME NEW n \in Ids, CommitInterval(n) PROVE TypeOK'
    <3>1. DiskTypeOK'
      BY <2>6, WriteIntervalType DEF CommitInterval
    <3>2. seq' \in Nat /\ logBound' \in Nat /\ rotSeq' \in Nat /\ rotTodo' \subseteq Ids
      BY <2>6, AfterCommitType DEF CommitInterval
    <3> QED
      BY <2>6, <3>1, <3>2 DEF CommitInterval, TypeOK, MemoryTypeOK
  <2>7. ASSUME NEW n \in Ids, CommitFails(n) PROVE TypeOK'
    <3>1. DiskTypeOK'
      BY <2>7, WriteIntervalType DEF CommitFails, TypeOK, DiskTypeOK, disk
    <3> QED
      BY <2>7, <3>1, MemoryGoneType DEF CommitFails, TypeOK
  <2>8. CASE Close
    BY <2>8, WriteIntervalType, MemoryGoneType DEF Close, TypeOK
  <2>9. CASE Crash
    BY <2>9, MemoryGoneType DEF Crash, TypeOK, DiskTypeOK, disk
  <2>10. CASE UNCHANGED vars
    BY <2>10 DEF vars, disk, batch, rotation, TypeOK, DiskTypeOK, MemoryTypeOK
  <2> QED
    BY <2>1, <2>2, <2>3, <2>4, <2>5, <2>6, <2>7, <2>8, <2>9, <2>10 DEF Next
<1> QED
  BY <1>1, <1>2, PTL DEF Spec

-----------------------------------------------------------------------------
(* Ids.                                                                    *)

\* A commit of a running store, whichever tails are due, interns every key of the head: a
\* new series is touched, so its tail and its record are in the commit that first logs it.
LEMMA CommitInterns ==
    ASSUME TypeOK, IdsInv, status = "running", NEW due, WriteInterval(due)
    PROVE dIds' = ids
<1> USE DEF TypeOK, DiskTypeOK, MemoryTypeOK
<1>1. dIds' = [k \in Keys |-> IF ids[k] \in fresh \cap TailsWritten(due) THEN ids[k] ELSE dIds[k]]
  BY DEF WriteInterval
<1>2. ASSUME NEW k \in Keys PROVE dIds'[k] = ids[k]
  <2>1. CASE ids[k] = dIds[k]
    BY <1>1, <2>1
  <2>2. CASE ids[k] # dIds[k]
    <3>1. ids[k] \in fresh \cap touched
      BY <2>2 DEF IdsInv, Live
    <3>2. ids[k] \in Index
      BY <3>1 DEF Index
    <3> QED
      BY <1>1, <3>1, <3>2 DEF TailsWritten
  <2> QED
    BY <2>1, <2>2
<1> QED
  BY <1>1, <1>2

\* The disk's part of IdsInv after any such commit.
LEMMA CommitIds ==
    ASSUME TypeOK, IdsInv, status = "running", NEW due, WriteInterval(due)
    PROVE /\ \A k, l \in Keys : k # l /\ dIds'[k] # NoId => dIds'[k] # dIds'[l]
          /\ \A k \in Keys : dIds'[k] # NoId => dIds'[k] < dNextId'
          /\ \A e \in dLog' : \E k \in Keys : dIds'[k] = e.id
          /\ \A i \in Ids : dTail'[i] # NewSeries => \E k \in Keys : dIds'[k] = i
<1> USE DEF TypeOK, DiskTypeOK, MemoryTypeOK
<1>1. dIds' = ids /\ dNextId' = nextId
  BY CommitInterns DEF WriteInterval, WriteMeta
<1>2. \A k \in Keys : dIds[k] # NoId => ids[k] = dIds[k]
  BY DEF IdsInv, Live
<1>3. \A i \in Ids : (\E k \in Keys : dIds[k] = i) => \E k \in Keys : ids[k] = i
  BY <1>2, ConstAssumption DEF Ids
<1>4. ASSUME NEW e \in dLog' PROVE \E k \in Keys : ids[k] = e.id
  <2>1. e \in dLog \/ \E p \in points : e.id = p.id
    BY DEF WriteInterval, LogWith
  <2>2. CASE e \in dLog
    BY <2>2, <1>3 DEF IdsInv, LogPoints
  <2>3. CASE \E p \in points : e.id = p.id
    BY <2>3 DEF IdsInv, Index
  <2> QED
    BY <2>1, <2>2, <2>3
<1>5. ASSUME NEW i \in Ids, dTail'[i] # NewSeries PROVE \E k \in Keys : ids[k] = i
  <2>1. i \in TailsWritten(due) \/ dTail'[i] = dTail[i]
    BY DEF WriteInterval
  <2>2. CASE i \in TailsWritten(due)
    BY <2>2 DEF TailsWritten, Index
  <2>3. CASE dTail'[i] = dTail[i]
    BY <2>3, <1>3, <1>5 DEF IdsInv
  <2> QED
    BY <2>1, <2>2, <2>3
<1> QED
  BY <1>1, <1>4, <1>5 DEF IdsInv

\* The memory's part of IdsInv when no store is open.
LEMMA GoneIds ==
    ASSUME MemoryGone, ~Live'
    PROVE /\ \A k, l \in Keys : k # l /\ ids'[k] # NoId => ids'[k] # ids'[l]
          /\ \A k \in Keys : ids'[k] # NoId => ids'[k] < nextId'
          /\ points' = {}
  BY DEF MemoryGone

LEMMA AppendIds ==
    ASSUME TypeOK, IdsInv, NEW k \in Keys, NEW sys \in Times, Append(k, sys) PROVE IdsInv'
<1> DEFINE at == Max2(clock, sys)
<1> USE DEF TypeOK, DiskTypeOK, MemoryTypeOK
<1>1. status = "running" /\ status' = status /\ UNCHANGED disk
  BY DEF Append
<1>2. CASE Rejected(k, at)
  <2>1. UNCHANGED <<nextId, ids, touched, fresh, points>>
    BY <1>2 DEF Append
  <2> QED
    BY <1>1, <2>1 DEF IdsInv, Live, disk, Index
<1>3. CASE ~Rejected(k, at)
  <2>1. PICK id : id = IdFor(k)
    OBVIOUS
  <2>2. /\ ids' = [ids EXCEPT ![k] = id]
        /\ nextId' = IF ids[k] = NoId THEN nextId + 1 ELSE nextId
        /\ fresh' = IF ids[k] = NoId THEN fresh \cup {id} ELSE fresh
        /\ points' = points \cup {[id |-> id, ts |-> at]}
        /\ ids[k] = NoId => touched' = touched \cup {id}
        /\ touched \subseteq touched'
    BY <1>3, <2>1 DEF Append
  <2> HIDE DEF at
  <2>3. id \in Ids /\ NoId \notin Ids /\ nextId \in Nat
    BY <2>1, ConstAssumption DEF IdFor, Ids
  <2>4. CASE ids[k] # NoId
    <3>1. ids' = ids /\ nextId' = nextId /\ fresh' = fresh
      BY <2>1, <2>2, <2>4 DEF IdFor
    <3>2. id \in Index /\ Index' = Index
      BY <2>1, <2>3, <2>4, <3>1 DEF IdFor, Index
    <3>3. \A p \in points' : p.id \in Index'
      BY <2>2, <3>2 DEF IdsInv
    <3> QED
      BY <1>1, <2>2, <3>1, <3>3 DEF IdsInv, Live, disk
  <2>5. CASE ids[k] = NoId
    <3>1. id = nextId /\ nextId' = nextId + 1 /\ fresh' = fresh \cup {id} /\ touched' = touched \cup {id}
      BY <2>1, <2>2, <2>5 DEF IdFor
    <3>2. dIds[k] = NoId
      BY <1>1, <2>5 DEF IdsInv, Live
    <3>3. \A l \in Keys : l # k => ids'[l] = ids[l] /\ ids[l] # id
      BY <2>2, <2>3, <3>1 DEF IdsInv, Ids
    <3>4. ids'[k] = id
      BY <2>2
    <3>5. \A l, m \in Keys : l # m /\ ids'[l] # NoId => ids'[l] # ids'[m]
      BY <3>3, <3>4, <2>3 DEF IdsInv
    <3>6. \A l \in Keys : ids'[l] # NoId => ids'[l] < nextId'
      BY <2>3, <3>1, <3>3, <3>4 DEF IdsInv, Ids
    <3>7. \A l \in Keys : dIds[l] # NoId => ids'[l] = dIds[l]
      BY <1>1, <3>2, <3>3 DEF IdsInv, Live
    <3>8. \A l \in Keys : ids'[l] # dIds[l] => ids'[l] \in fresh' \cap touched'
      BY <1>1, <3>1, <3>3, <3>4 DEF IdsInv, Live
    <3>9. Index \subseteq Index' /\ id \in Index'
      <4>1. ASSUME NEW i \in Index PROVE i \in Index'
        <5>1. PICK l \in Keys : ids[l] = i
          BY DEF Index
        <5>2. l # k
          BY <5>1, <2>3, <2>5 DEF Index
        <5> QED
          BY <5>1, <5>2, <3>3 DEF Index
      <4> QED
        BY <4>1, <2>3, <3>4 DEF Index
    <3>10. \A p \in points' : p.id \in Index'
      BY <2>2, <3>9 DEF IdsInv
    <3> QED
      BY <1>1, <3>5, <3>6, <3>7, <3>8, <3>10 DEF IdsInv, Live, disk
  <2> QED
    BY <2>4, <2>5
<1> QED
  BY <1>2, <1>3

\* The first layer of the invariant: crashes, failed commits and reopens never leave the head,
\* the tables and the interval at odds about which key has which id.
THEOREM IdsInductive == Spec => []IdsInv
<1>1. Init => IdsInv
  BY DEF Init, IdsInv, Live
<1>2. TypeOK /\ TypeOK' /\ IdsInv /\ [Next]_vars => IdsInv'
  <2> SUFFICES ASSUME TypeOK, TypeOK', IdsInv, [Next]_vars PROVE IdsInv'
    OBVIOUS
  <2>1. CASE Open
    BY <2>1 DEF Open, IdsInv, Live, disk
  <2>2. CASE ReplayPoint
    <3>1. /\ UNCHANGED <<disk, status, nextId, ids, fresh, points>>
          /\ touched \subseteq touched' /\ replay' \subseteq replay
      BY <2>2 DEF ReplayPoint
    <3> QED
      BY <3>1 DEF IdsInv, Live, disk, Index
  <2>3. ASSUME NEW sys \in Times, Opened(sys) PROVE IdsInv'
    <3>1. UNCHANGED <<disk, nextId, ids, fresh, points>> /\ status = "opening" /\ status' = "running"
          /\ touched \subseteq touched'
      BY <2>3 DEF Opened, SweepAt
    <3> QED
      BY <3>1 DEF IdsInv, Live, disk, Index
  <2>4. ASSUME NEW sys \in Times, NEW k \in Keys, Append(k, sys) PROVE IdsInv'
    BY <2>4, AppendIds
  <2>5. ASSUME NEW sys \in Times, Sweep(sys) PROVE IdsInv'
    <3>1. UNCHANGED <<disk, status, replay, nextId, ids, fresh, points>> /\ touched \subseteq touched'
      BY <2>5 DEF Sweep, SweepAt
    <3> QED
      BY <3>1 DEF IdsInv, Live, disk, Index
  <2>6. ASSUME NEW n \in Ids, CommitInterval(n) PROVE IdsInv'
    <3>1. /\ status = "running" /\ WriteInterval(RotationDue(n))
          /\ points' = {} /\ UNCHANGED <<status, nextId, ids>>
      BY <2>6 DEF CommitInterval
    <3>2. dIds' = ids
      BY <3>1, CommitInterns
    <3> QED
      BY <3>1, <3>2, CommitIds DEF IdsInv, Live
  <2>7. ASSUME NEW n \in Ids, CommitFails(n) PROVE IdsInv'
    <3>1. status = "running" /\ MemoryGone /\ ~Live' /\ status' # "opening"
      BY <2>7 DEF CommitFails, Live
    <3>2. CASE WriteInterval(RotationDue(n))
      BY <3>1, <3>2, CommitIds, GoneIds DEF IdsInv
    <3>3. CASE UNCHANGED disk
      BY <3>1, <3>3, GoneIds DEF IdsInv, disk
    <3> QED
      BY <2>7, <3>2, <3>3 DEF CommitFails
  <2>8. CASE Close
    <3>1. status = "running" /\ MemoryGone /\ ~Live' /\ status' # "opening" /\ WriteInterval(Index)
      BY <2>8 DEF Close, Live
    <3> QED
      BY <3>1, CommitIds, GoneIds DEF IdsInv
  <2>9. CASE Crash
    <3>1. MemoryGone /\ ~Live' /\ status' # "opening" /\ UNCHANGED disk
      BY <2>9 DEF Crash, Live
    <3> QED
      BY <3>1, GoneIds DEF IdsInv, disk
  <2>10. CASE UNCHANGED vars
    BY <2>10 DEF vars, disk, batch, rotation, IdsInv, Live, Index
  <2> QED
    BY <2>1, <2>2, <2>3, <2>4, <2>5, <2>6, <2>7, <2>8, <2>9, <2>10 DEF Next
<1> QED
  BY <1>1, <1>2, TypeCorrect, PTL DEF Spec

\* Two keys never share an id, in memory or in the tables, across any crashes.
THEOREM IdsNeverShared == Spec => []IdsUnique
<1>1. IdsInv => IdsUnique
  BY DEF IdsInv, IdsUnique
<1> QED
  BY <1>1, IdsInductive, PTL

\* Whatever a tail or a log entry names was interned by then, so an open never finds "a
\* logged point of no series".
THEOREM UsedIsInterned == Spec => []InternedBeforeUse
<1>1. IdsInv => InternedBeforeUse
  BY DEF IdsInv, InternedBeforeUse, Live
<1> QED
  BY <1>1, IdsInductive, PTL

-----------------------------------------------------------------------------
(* One series.                                                             *)

\* Later points are in the same span or a later one.
LEMMA SpanOfMonotone == \A a, b \in Times : a <= b => SpanOf(a) <= SpanOf(b)
<1> SUFFICES ASSUME NEW a \in Times, NEW b \in Times, a <= b PROVE SpanOf(a) <= SpanOf(b)
  OBVIOUS
<1>1. a \in Nat /\ b \in Nat /\ SpanSecs \in Nat \ {0}
  BY ConstAssumption DEF Times
<1>2. /\ a = SpanSecs * (a \div SpanSecs) + (a % SpanSecs) /\ a \div SpanSecs \in Nat
      /\ b = SpanSecs * (b \div SpanSecs) + (b % SpanSecs) /\ b \div SpanSecs \in Nat
      /\ a % SpanSecs \in 0..(SpanSecs - 1) /\ b % SpanSecs \in 0..(SpanSecs - 1)
  BY <1>1
<1>3. a \div SpanSecs <= b \div SpanSecs
  BY <1>1, <1>2
<1>4. SpanSecs * (a \div SpanSecs) <= SpanSecs * (b \div SpanSecs)
  BY <1>1, <1>2, <1>3
<1> QED
  BY <1>1, <1>2, <1>4 DEF SpanOf

\* The three ways a point is pushed: into a new span, into a full chunk's span, or into the
\* open chunk.
LEMMA PushCases ==
    ASSUME NEW id, NEW s \in Series, NEW ts \in Times
    PROVE \/ /\ s.span # SpanOf(ts)
             /\ Pushed(s, ts) = [last |-> ts, span |-> SpanOf(ts), open |-> {ts}, next |-> 0]
             /\ SealedBy(id, s, ts) = IF s.open # {} THEN {Chunk(id, s)} ELSE {}
          \/ /\ s.span = SpanOf(ts) /\ s.open # {}
             /\ Pushed(s, ts) = [last |-> ts, span |-> s.span, open |-> {ts}, next |-> s.next + 1]
             /\ SealedBy(id, s, ts) = {Chunk(id, s)}
          \/ /\ s.span = SpanOf(ts)
             /\ Pushed(s, ts) = [last |-> ts, span |-> s.span, open |-> s.open \cup {ts},
                                 next |-> s.next]
             /\ SealedBy(id, s, ts) = {}
<1>1. Cardinality({}) = 0 /\ ChunkPoints \in Nat \ {0}
  BY FS_EmptySet, ConstAssumption
<1>2. CASE s.span # SpanOf(ts)
  <2>1. InSpan(s, ts) = [last |-> s.last, span |-> SpanOf(ts), open |-> {}, next |-> 0]
    BY <1>2 DEF InSpan, Series
  <2>2. ~(Cardinality({}) >= ChunkPoints)
    BY <1>1
  <2>3. Pushed(s, ts) = [last |-> ts, span |-> SpanOf(ts), open |-> {ts}, next |-> 0]
    BY <2>1, <2>2 DEF Pushed
  <2> QED
    BY <1>2, <2>3 DEF SealedBy
<1>3. CASE s.span = SpanOf(ts) /\ Cardinality(s.open) >= ChunkPoints
  <2>1. s.open # {}
    BY <1>1, <1>3
  <2>2. InSpan(s, ts) = s
    BY <1>3 DEF InSpan
  <2>3. Pushed(s, ts) = [last |-> ts, span |-> s.span, open |-> {ts}, next |-> s.next + 1]
    BY <1>3, <2>2 DEF Pushed, SealedState
  <2> QED
    BY <1>3, <2>1, <2>3 DEF SealedBy
<1>4. CASE s.span = SpanOf(ts) /\ ~(Cardinality(s.open) >= ChunkPoints)
  <2>1. InSpan(s, ts) = s
    BY <1>4 DEF InSpan
  <2>2. Pushed(s, ts) = [last |-> ts, span |-> s.span, open |-> s.open \cup {ts}, next |-> s.next]
    BY <1>4, <2>1 DEF Pushed, Series
  <2> QED
    BY <1>4, <2>2 DEF SealedBy
<1> QED
  BY <1>2, <1>3, <1>4

\* A chunk of one series is nothing to another.
LEMMA FitsOther ==
    ASSUME NEW rows, NEW new, NEW j, NEW s, Fits(rows, j, s), \A c \in new : c.id # j
    PROVE Fits(rows \cup new, j, s)
  BY DEF Fits

\* A push keeps every chunk, the one it seals too, behind the series.
LEMMA PushFits ==
    ASSUME NEW rows \in SUBSET Chunks, NEW i \in Ids, NEW s \in Series, NEW ts \in Times,
           Fits(rows, i, s), s.last < ts
    PROVE Fits(rows \cup SealedBy(i, s, ts), i, Pushed(s, ts))
<1> DEFINE u == Pushed(s, ts)
           c == Chunk(i, s)
<1> USE DEF Series, Chunks
<1>1. /\ ts \in Int /\ s.last \in Int /\ s.next \in Int /\ s.span \in Int /\ NoSpan = -1
      /\ \A t \in s.open : t \in Int
      /\ \A r \in rows : r.span \in Int /\ r.seq \in Int /\ \A t \in r.pts : t \in Int
  BY DEF Times, NoSpan
<1>2. SpanOf(ts) \in 0..MaxTime
  BY SpanOfType
<1>3. s.span <= SpanOf(ts)
  BY <1>1, <1>2, SpanOfMonotone DEF Fits, SeriesOK, Times
<1>4. /\ u.last = ts /\ u.span = SpanOf(ts)
      /\ \A t \in u.open : t = ts \/ t \in s.open
      /\ u.span = s.span => u.next \in {s.next, s.next + 1}
      /\ \A r \in SealedBy(i, s, ts) : /\ r = c /\ u.open = {ts}
                                       /\ u.span = s.span => u.next = s.next + 1
  <2>1. \/ /\ s.span # SpanOf(ts)
           /\ u = [last |-> ts, span |-> SpanOf(ts), open |-> {ts}, next |-> 0]
           /\ SealedBy(i, s, ts) = IF s.open # {} THEN {c} ELSE {}
        \/ /\ s.span = SpanOf(ts)
           /\ u = [last |-> ts, span |-> s.span, open |-> {ts}, next |-> s.next + 1]
           /\ SealedBy(i, s, ts) = {c}
        \/ /\ s.span = SpanOf(ts)
           /\ u = [last |-> ts, span |-> s.span, open |-> s.open \cup {ts}, next |-> s.next]
           /\ SealedBy(i, s, ts) = {}
    BY PushCases
  <2> HIDE DEF u, c
  <2> QED
    BY <2>1
<1> HIDE DEF u, c
<1>a. \A t \in s.open : t \in Int /\ t < ts /\ t <= ts /\ t # ts
  <2>1. \A t \in s.open : t <= s.last
    BY DEF Fits, SeriesOK
  <2> QED
    BY <1>1, <2>1
<1>5. SeriesOK(u)
  <2>1. ASSUME NEW t \in u.open PROVE t <= ts
    <3>1. CASE t = ts
      BY <1>1, <3>1
    <3>2. CASE t \in s.open
      BY <1>a, <3>2
    <3> QED
      BY <1>4, <3>1, <3>2
  <2> QED
    BY <1>1, <1>2, <1>4, <2>1 DEF SeriesOK
<1>6. ASSUME NEW r \in rows, r.id = i
      PROVE Below(r, u) /\ \A t \in r.pts : t <= u.last /\ t \notin u.open
  <2>1. Below(r, s) /\ \A t \in r.pts : t <= s.last /\ t \notin s.open
    BY <1>6 DEF Fits
  <2>2. \A t \in r.pts : t <= u.last /\ t # ts
    BY <1>1, <1>4, <2>1
  <2>3. Below(r, u)
    BY <1>1, <1>2, <1>3, <1>4, <2>1 DEF Below
  <2> QED
    BY <1>4, <2>1, <2>2, <2>3
<1>7. ASSUME NEW r \in SealedBy(i, s, ts)
      PROVE Below(r, u) /\ \A t \in r.pts : t <= u.last /\ t \notin u.open
  <2>1. r = c /\ u.open = {ts} /\ (s.span # SpanOf(ts) \/ u.next = s.next + 1)
    BY <1>4, <1>7
  <2>3. r.span = s.span /\ r.seq = s.next /\ r.pts = s.open
    BY <2>1 DEF Chunk, c
  <2>4. Below(r, u)
    BY <1>1, <1>2, <1>3, <1>4, <2>1, <2>3 DEF Below
  <2> QED
    BY <1>1, <1>4, <1>a, <2>1, <2>3, <2>4
<1> QED
  BY <1>5, <1>6, <1>7 DEF Fits, u

\* So does a seal.
LEMMA SealFits ==
    ASSUME NEW rows \in SUBSET Chunks, NEW i \in Ids, NEW s \in Series, Fits(rows, i, s)
    PROVE Fits(rows \cup {Chunk(i, s)}, i, SealedState(s))
<1> USE DEF Series, Chunks
<1>1. s.next \in Nat /\ s.span \in Int /\ \A r \in rows : r.span \in Int /\ r.seq \in Nat
  BY DEF NoSpan
<1>2. SeriesOK(SealedState(s))
  BY DEF Fits, SeriesOK, SealedState
<1>3. \A r \in rows : r.id = i =>
        Below(r, SealedState(s)) /\ \A t \in r.pts : t <= s.last
  BY <1>1 DEF Fits, Below, SealedState
<1>4. Below(Chunk(i, s), SealedState(s)) /\ \A t \in Chunk(i, s).pts : t <= s.last
  BY <1>1 DEF Fits, SeriesOK, Below, SealedState, Chunk
<1>5. SealedState(s).last = s.last /\ SealedState(s).open = {}
  BY DEF SealedState
<1> QED
  BY <1>2, <1>3, <1>4, <1>5 DEF Fits

\* A chunk sealed now has a key no chunk behind the series has, and none of their points.
LEMMA NewKey ==
    ASSUME NEW rows \in SUBSET Chunks, NEW i \in Ids, NEW s \in Series, Fits(rows, i, s),
           NEW r \in rows, r.id = i
    PROVE ChunkKey(r) # ChunkKey(Chunk(i, s)) /\ r.pts \cap Chunk(i, s).pts = {}
<1>1. r.span \in Int /\ r.seq \in Int /\ s.span \in Int /\ s.next \in Int
  BY DEF Chunks, Series, NoSpan
<1>2. r.span # s.span \/ r.seq # s.next
  BY <1>1 DEF Fits, Below
<1> QED
  BY <1>2 DEF ChunkKey, Chunk, Fits

-----------------------------------------------------------------------------
(* The head.                                                               *)

\* What a push of one point into a live store does to the head and its chunks.
LEMMA PushInHead ==
    ASSUME TypeOK, SeriesInv, Live, NEW i \in Ids, NEW ts \in Times, head[i].last < ts,
           head' = [head EXCEPT ![i] = Pushed(@, ts)],
           sealed' = sealed \cup SealedBy(i, head[i], ts),
           dChunks' = dChunks
    PROVE /\ \A j \in Ids : Fits(dChunks' \cup sealed', j, head'[j])
          /\ DistinctRows(dChunks' \cup sealed')
          /\ \A c \in sealed' : c \in sealed \/ (c.id = i /\ SealedBy(i, head[i], ts) # {})
          /\ head'[i].last = ts
          /\ \A j \in Ids : j # i => head'[j] = head[j]
<1> DEFINE rows == dChunks \cup sealed
           new == SealedBy(i, head[i], ts)
<1>1. rows \subseteq Chunks /\ head[i] \in Series /\ head \in [Ids -> Series]
  BY DEF TypeOK, DiskTypeOK, MemoryTypeOK
<1>2. \A j \in Ids : Fits(rows, j, head[j])
  BY DEF SeriesInv
<1>3. DistinctRows(rows)
  BY DEF SeriesInv
<1>4. dChunks' \cup sealed' = rows \cup new
  OBVIOUS
<1>5. \A c \in new : c = Chunk(i, head[i])
  BY DEF SealedBy
<1>6. Chunk(i, head[i]).id = i
  BY DEF Chunk
<1>7. head'[i] = Pushed(head[i], ts) /\ \A j \in Ids : j # i => head'[j] = head[j]
  BY <1>1
<1>8. Pushed(head[i], ts).last = ts
  BY DEF Pushed
<1> HIDE DEF rows, new
<1>9. ASSUME NEW j \in Ids PROVE Fits(rows \cup new, j, head'[j])
  <2>1. CASE j = i
    <3>1. Fits(rows \cup new, i, Pushed(head[i], ts))
      BY <1>1, <1>2, PushFits DEF new
    <3> QED
      BY <1>7, <2>1, <3>1
  <2>2. CASE j # i
    BY <1>2, <1>5, <1>6, <1>7, <2>2, FitsOther
  <2> QED
    BY <2>1, <2>2
<1>10. DistinctRows(rows \cup new)
  <2>1. \A r \in rows : r.id = i =>
          ChunkKey(r) # ChunkKey(Chunk(i, head[i])) /\ r.pts \cap Chunk(i, head[i]).pts = {}
    BY <1>1, <1>2, NewKey
  <2> QED
    BY <1>3, <1>5, <1>6, <2>1 DEF DistinctRows
<1> QED
  BY <1>4, <1>5, <1>6, <1>7, <1>8, <1>9, <1>10 DEF new

\* What a sweep does to them: every series it seals is touched.
LEMMA SweepInHead ==
    ASSUME TypeOK, SeriesInv, Live, NEW at, SweepAt(at), dChunks' = dChunks
    PROVE /\ \A j \in Ids : Fits(dChunks' \cup sealed', j, head'[j])
          /\ DistinctRows(dChunks' \cup sealed')
          /\ \A c \in sealed' : c \in sealed \/ c.id \in touched' \cap Index
          /\ \A j \in Ids : head'[j].last = head[j].last
          /\ \A j \in Ids : head'[j] # head[j] => j \in touched' \cap Index
          /\ touched \subseteq touched'
<1> DEFINE rows == dChunks \cup sealed
           swept == {i \in Index : SealsAt(head[i], at)}
           new == {Chunk(i, head[i]) : i \in swept}
<1>1. rows \subseteq Chunks /\ swept \subseteq Ids /\ \A j \in Ids : head[j] \in Series
  BY DEF TypeOK, DiskTypeOK, MemoryTypeOK, Index
<1>2. (\A j \in Ids : Fits(rows, j, head[j])) /\ DistinctRows(rows)
  BY DEF SeriesInv
<1>3. dChunks' \cup sealed' = rows \cup new /\ sealed' = sealed \cup new
      /\ touched' = touched \cup swept /\ swept \subseteq Index
      /\ \A j \in Ids : head'[j] = IF j \in swept THEN SealedState(head[j]) ELSE head[j]
  BY DEF SweepAt
<1>4. \A i : Chunk(i, head[i]).id = i
  BY DEF Chunk
<1>5. \A j \in Ids : SealedState(head[j]).last = head[j].last
  BY DEF SealedState
<1>6. \A c \in new : c.id \in swept /\ c = Chunk(c.id, head[c.id])
  BY <1>4
<1>7. \A j \in swept : Chunk(j, head[j]) \in new
  OBVIOUS
<1> HIDE DEF rows, new, swept
<1>8. ASSUME NEW j \in Ids PROVE Fits(rows \cup new, j, head'[j])
  <2>1. CASE j \in swept
    <3>1. Fits(rows \cup {Chunk(j, head[j])}, j, SealedState(head[j]))
      BY <1>1, <1>2, SealFits
    <3>2. Fits((rows \cup {Chunk(j, head[j])}) \cup (new \ {Chunk(j, head[j])}), j, SealedState(head[j]))
      BY <1>6, <3>1, FitsOther
    <3>3. (rows \cup {Chunk(j, head[j])}) \cup (new \ {Chunk(j, head[j])}) = rows \cup new
      BY <1>7, <2>1
    <3> QED
      BY <1>3, <2>1, <3>2, <3>3
  <2>2. CASE j \notin swept
    <3>1. \A c \in new : c.id # j
      BY <1>6, <2>2
    <3> QED
      BY <1>2, <1>3, <2>2, <3>1, FitsOther
  <2> QED
    BY <2>1, <2>2
<1>9. DistinctRows(rows \cup new)
  <2>1. \A j \in Ids : \A r \in rows : r.id = j =>
          ChunkKey(r) # ChunkKey(Chunk(j, head[j])) /\ r.pts \cap Chunk(j, head[j]).pts = {}
    BY <1>1, <1>2, NewKey
  <2>2. \A c, d \in new : c.id = d.id => c = d
    BY <1>6
  <2>3. \A r \in rows, c \in new : r.id = c.id =>
          ChunkKey(r) # ChunkKey(c) /\ r.pts \cap c.pts = {}
    BY <1>1, <1>6, <2>1
  <2> QED
    BY <1>2, <2>2, <2>3 DEF DistinctRows
<1> QED
  BY <1>3, <1>5, <1>6, <1>8, <1>9

-----------------------------------------------------------------------------
(* The commit.                                                             *)

\* No row of `chunks` is replaced by another chunk: the sealed ones are added.
LEMMA UpsertAdds ==
    ASSUME NEW rows, NEW new, DistinctRows(rows \cup new) PROVE Upserted(rows, new) = rows \cup new
<1>1. ASSUME NEW r \in rows, NEW c \in new, ChunkKey(c) = ChunkKey(r) PROVE r \in new
  <2>1. c.id = r.id
    BY <1>1 DEF ChunkKey
  <2> QED
    BY <1>1, <2>1 DEF DistinctRows
<1> QED
  BY <1>1 DEF Upserted

\* A series whose tail is not in the commit sealed nothing, and its tail is as it was.
LEMMA TailsAfterCommit ==
    ASSUME TypeOK, SeriesInv, status = "running", NEW due, WriteInterval(due), NEW i \in Ids
    PROVE \/ dTail'[i] = head[i]
          \/ /\ i \notin TailsWritten(due)
             /\ dTail'[i] = dTail[i] /\ \A c \in sealed : c.id # i
<1>1. dTail'[i] = IF i \in TailsWritten(due) THEN head[i] ELSE dTail[i]
  BY DEF WriteInterval
<1>2. \A c \in sealed : c.id \in TailsWritten(due)
  BY DEF SeriesInv, TailsWritten
<1> QED
  BY <1>1, <1>2

LEMMA CommitSeries ==
    ASSUME TypeOK, SeriesInv, status = "running", NEW due, WriteInterval(due)
    PROVE /\ dChunks' = dChunks \cup sealed
          /\ \A i \in Ids : Fits(dChunks', i, dTail'[i]) /\ dTail'[i].last <= dClock'
          /\ DistinctRows(dChunks')
          /\ \A e \in dLog' : e.ts <= dClock'
          /\ dClock' = clock
          /\ \A i \in Ids : dTail'[i].last <= head[i].last
<1> USE DEF TypeOK, DiskTypeOK, MemoryTypeOK
<1>1. dChunks' = dChunks \cup sealed
  BY UpsertAdds DEF WriteInterval, SeriesInv
<1>2. dClock' = clock /\ clock \in Nat /\ dClock \in Nat /\ dClock <= clock
  BY DEF WriteInterval, WriteMeta, SeriesInv, Live
<1>3. ASSUME NEW i \in Ids
      PROVE Fits(dChunks', i, dTail'[i]) /\ dTail'[i].last <= dClock' /\ dTail'[i].last <= head[i].last
  <2>1. /\ Fits(dChunks \cup sealed, i, head[i]) /\ head[i].last <= clock
        /\ Fits(dChunks, i, dTail[i]) /\ dTail[i].last <= dClock /\ dTail[i].last <= head[i].last
    BY DEF SeriesInv, Live
  <2>2. dTail[i].last \in Nat /\ head[i].last \in Nat
    BY DEF Series
  <2>3. CASE dTail'[i] = head[i]
    BY <1>1, <1>2, <2>1, <2>2, <2>3
  <2>4. CASE dTail'[i] = dTail[i] /\ \A c \in sealed : c.id # i
    <3>1. Fits(dChunks \cup sealed, i, dTail[i])
      BY <2>1, <2>4, FitsOther
    <3> QED
      BY <1>1, <1>2, <2>1, <2>2, <2>4, <3>1
  <2> QED
    BY <2>3, <2>4, TailsAfterCommit
<1>4. ASSUME NEW e \in dLog' PROVE e.ts <= dClock'
  <2>1. e \in dLog \/ \E p \in points : e.ts = p.ts
    BY DEF WriteInterval, LogWith
  <2>2. CASE e \in dLog
    <3>1. e.ts \in Nat /\ e.ts <= dClock
      BY <2>2 DEF SeriesInv, LogPoints, Times
    <3> QED
      BY <1>2, <3>1
  <2>3. CASE \E p \in points : e.ts = p.ts
    BY <1>2, <2>3 DEF SeriesInv
  <2> QED
    BY <2>1, <2>2, <2>3
<1> QED
  BY <1>1, <1>2, <1>3, <1>4 DEF SeriesInv

-----------------------------------------------------------------------------
(* Every step.                                                             *)

LEMMA AppendSeries ==
    ASSUME TypeOK, TypeOK', IdsInv, SeriesInv, NEW k \in Keys, NEW sys \in Times, Append(k, sys)
    PROVE SeriesInv'
<1> DEFINE at == Max2(clock, sys)
           id == IdFor(k)
<1> USE DEF TypeOK, DiskTypeOK, MemoryTypeOK
<1>1. status = "running" /\ status' = status /\ UNCHANGED disk /\ clock' = at /\ Live /\ Live'
  BY DEF Append, Live
<1>2. at \in Times /\ at \in Nat /\ clock \in Nat /\ clock <= at /\ dClock \in Nat
  BY ClockType, ConstAssumption DEF Max2, Times
<1>3. /\ \A j \in Ids : head[j].last \in Nat /\ dTail[j].last \in Nat
      /\ \A p \in points : p.ts \in Nat
  BY DEF Series, Times
<1> HIDE DEF at, id
<1>4. CASE Rejected(k, at)
  <2>1. UNCHANGED <<ids, head, dirty, touched, points, sealed>>
    BY <1>4 DEF Append, at
  <2>2. Index' = Index
    BY <2>1 DEF Index
  <2>3. dClock <= at /\ \A j \in Ids : head[j].last <= at
    BY <1>1, <1>2, <1>3 DEF SeriesInv
  <2>4. \A p \in points : p.ts <= at
    BY <1>2, <1>3 DEF SeriesInv
  <2> QED
    BY <1>1, <2>1, <2>2, <2>3, <2>4 DEF SeriesInv, disk
<1>5. CASE ~Rejected(k, at)
  <2>1. /\ ids' = [ids EXCEPT ![k] = id]
        /\ head' = [head EXCEPT ![id] = Pushed(@, at)]
        /\ dirty' = dirty \cup {id}
        /\ sealed' = sealed \cup SealedBy(id, head[id], at)
        /\ touched' = IF ids[k] = NoId \/ SealedBy(id, head[id], at) # {}
                      THEN touched \cup {id} ELSE touched
        /\ points' = points \cup {[id |-> id, ts |-> at]}
    BY <1>5 DEF Append, at, id
  <2>2. id \in Ids
    BY DEF IdFor, id
  <2>3. head[id].last < at
    BY <1>2, <1>3, <1>5, <2>2 DEF Rejected, id
  <2>4. /\ \A j \in Ids : Fits(dChunks' \cup sealed', j, head'[j])
        /\ DistinctRows(dChunks' \cup sealed')
        /\ \A c \in sealed' : c \in sealed \/ (c.id = id /\ SealedBy(id, head[id], at) # {})
        /\ head'[id].last = at
        /\ \A j \in Ids : j # id => head'[j] = head[j]
    BY <1>1, <1>2, <2>1, <2>2, <2>3, PushInHead DEF disk
  <2>5. id \in Index' /\ Index \subseteq Index' /\ Index' \subseteq Index \cup {id}
    <3>1. ids'[k] = id /\ \A l \in Keys : l # k => ids'[l] = ids[l]
      BY <2>1
    <3>2. ids[k] = NoId \/ ids[k] = id
      BY DEF IdFor, id
    <3> QED
      BY <2>2, <3>1, <3>2, ConstAssumption DEF Index, Ids
  <2>6. \A c \in sealed' : c.id \in touched' \cap Index'
    BY <2>1, <2>4, <2>5 DEF SeriesInv
  <2>7. \A p \in points' : p.ts <= at
    BY <1>2, <1>3, <2>1 DEF SeriesInv
  <2>8. ASSUME NEW j \in Ids
        PROVE /\ dTail[j].last <= head'[j].last /\ head'[j].last <= at
              /\ j \notin Index' => head'[j] = NewSeries
              /\ j \in Index' \ (dirty' \cup touched') => head'[j] = dTail[j]
    <3>1. /\ dTail[j].last <= head[j].last /\ head[j].last <= clock
          /\ j \notin Index => head[j] = NewSeries
          /\ j \in Index \ (dirty \cup touched) => head[j] = dTail[j]
      BY <1>1 DEF SeriesInv
    <3>2. CASE j = id
      BY <1>2, <1>3, <2>1, <2>2, <2>3, <2>4, <2>5, <3>1, <3>2
    <3>3. CASE j # id
      <4>1. head'[j] = head[j]
        BY <2>4, <3>3
      <4>2. dTail[j].last <= head'[j].last /\ head'[j].last <= at
        BY <1>2, <1>3, <3>1, <4>1
      <4> QED
        BY <2>1, <2>5, <3>1, <3>3, <4>1, <4>2
    <3> QED
      BY <3>2, <3>3
  <2>9. dClock <= at
    BY <1>1, <1>2 DEF SeriesInv
  <2> QED
    BY <1>1, <2>4, <2>6, <2>7, <2>8, <2>9 DEF SeriesInv, disk
<1> QED
  BY <1>4, <1>5

LEMMA ReplaySeries ==
    ASSUME TypeOK, TypeOK', IdsInv, SeriesInv, ReplayPoint PROVE SeriesInv'
<1> USE DEF TypeOK, DiskTypeOK, MemoryTypeOK
<1>1. /\ status = "opening" /\ Live /\ Live'
      /\ UNCHANGED <<disk, status, clock, ids, points>>
  BY DEF ReplayPoint, Live
<1>2. Index' = Index
  BY <1>1 DEF Index
<1>3. PICK p \in replay :
        IF Replays(p)
        THEN LET new == SealedBy(p.id, head[p.id], p.ts) IN
             /\ head' = [head EXCEPT ![p.id] = Pushed(@, p.ts)]
             /\ dirty' = dirty \cup {p.id}
             /\ sealed' = sealed \cup new
             /\ touched' = IF new = {} THEN touched ELSE touched \cup {p.id}
        ELSE UNCHANGED <<head, dirty, sealed, touched>>
  BY DEF ReplayPoint
<1>4. CASE ~Replays(p)
  BY <1>1, <1>2, <1>3, <1>4 DEF SeriesInv, disk
<1>5. CASE Replays(p)
  <2>1. p \in dLog /\ p.id \in Ids /\ p.ts \in Times /\ p.ts \in Nat
    BY <1>1 DEF IdsInv, LogPoints, Times
  <2>2. p.id \in Index
    BY <1>1, <2>1 DEF IdsInv, Index
  <2>3. p.ts <= clock /\ clock \in Nat
    <3>1. p.ts <= dClock /\ dClock <= clock /\ dClock \in Nat /\ clock \in Nat
      BY <1>1, <2>1 DEF SeriesInv
    <3> QED
      BY <2>1, <3>1
  <2>4. \A j \in Ids : head[j].last \in Nat /\ dTail[j].last \in Nat
    BY DEF Series
  <2>5. head[p.id].last < p.ts
    BY <1>5, <2>1, <2>4 DEF Replays
  <2>6. /\ head' = [head EXCEPT ![p.id] = Pushed(@, p.ts)]
        /\ dirty' = dirty \cup {p.id}
        /\ sealed' = sealed \cup SealedBy(p.id, head[p.id], p.ts)
        /\ touched' = IF SealedBy(p.id, head[p.id], p.ts) = {} THEN touched ELSE touched \cup {p.id}
    BY <1>3, <1>5
  <2>7. /\ \A j \in Ids : Fits(dChunks' \cup sealed', j, head'[j])
        /\ DistinctRows(dChunks' \cup sealed')
        /\ \A c \in sealed' : c \in sealed \/ (c.id = p.id /\ SealedBy(p.id, head[p.id], p.ts) # {})
        /\ head'[p.id].last = p.ts
        /\ \A j \in Ids : j # p.id => head'[j] = head[j]
    BY <1>1, <2>1, <2>5, <2>6, PushInHead DEF disk
  <2>8. \A c \in sealed' : c.id \in touched' \cap Index'
    BY <1>2, <2>2, <2>6, <2>7 DEF SeriesInv
  <2>9. ASSUME NEW j \in Ids
        PROVE /\ dTail[j].last <= head'[j].last /\ head'[j].last <= clock
              /\ j \notin Index => head'[j] = NewSeries
              /\ j \in Index \ (dirty' \cup touched') => head'[j] = dTail[j]
    <3>1. /\ dTail[j].last <= head[j].last /\ head[j].last <= clock
          /\ j \notin Index => head[j] = NewSeries
          /\ j \in Index \ (dirty \cup touched) => head[j] = dTail[j]
      BY <1>1 DEF SeriesInv
    <3>2. CASE j = p.id
      BY <2>1, <2>2, <2>3, <2>4, <2>5, <2>6, <2>7, <3>1, <3>2
    <3>3. CASE j # p.id
      BY <2>6, <2>7, <3>1, <3>3
    <3> QED
      BY <3>2, <3>3
  <2> QED
    BY <1>1, <1>2, <2>7, <2>8, <2>9 DEF SeriesInv, disk
<1> QED
  BY <1>4, <1>5

\* A sweep that leaves the disk and the ids alone, with hub time moving on.
LEMMA SweepSeries ==
    ASSUME TypeOK, TypeOK', SeriesInv, Live, Live', NEW sys \in Times, clock' = Max2(clock, sys),
           SweepAt(clock'), UNCHANGED <<disk, ids, dirty, points>>
    PROVE SeriesInv'
<1> USE DEF TypeOK, DiskTypeOK, MemoryTypeOK
<1>1. clock \in Nat /\ clock' \in Nat /\ clock <= clock' /\ dClock \in Nat
  BY DEF Max2, Times
<1>2. Index' = Index
  BY DEF Index
<1>3. /\ \A j \in Ids : head[j].last \in Nat
      /\ \A p \in points : p.ts \in Nat
  BY DEF Series, Times
<1>4. /\ \A j \in Ids : Fits(dChunks' \cup sealed', j, head'[j])
      /\ DistinctRows(dChunks' \cup sealed')
      /\ \A c \in sealed' : c \in sealed \/ c.id \in touched' \cap Index
      /\ \A j \in Ids : head'[j].last = head[j].last
      /\ \A j \in Ids : head'[j] # head[j] => j \in touched' \cap Index
      /\ touched \subseteq touched'
  BY SweepInHead DEF disk
<1>5. \A c \in sealed' : c.id \in touched' \cap Index'
  BY <1>2, <1>4 DEF SeriesInv
<1>6. \A p \in points' : p.ts <= clock'
  BY <1>1, <1>3 DEF SeriesInv
<1>7. ASSUME NEW j \in Ids
      PROVE /\ dTail'[j].last <= head'[j].last /\ head'[j].last <= clock'
            /\ j \notin Index' => head'[j] = NewSeries
            /\ j \in Index' \ (dirty' \cup touched') => head'[j] = dTail'[j]
  <2>1. /\ dTail[j].last <= head[j].last /\ head[j].last <= clock
        /\ j \notin Index => head[j] = NewSeries
        /\ j \in Index \ (dirty \cup touched) => head[j] = dTail[j]
        /\ dTail' = dTail
    BY DEF SeriesInv, disk
  <2>2. head'[j].last <= clock'
    BY <1>1, <1>3, <1>4, <2>1
  <2> QED
    BY <1>2, <1>4, <2>1, <2>2
<1>8. dClock' <= clock'
  BY <1>1 DEF SeriesInv, disk
<1> QED
  BY <1>4, <1>5, <1>6, <1>7, <1>8 DEF SeriesInv, disk

\* Every tail fits the committed chunks and the head all of them, whatever crashes between a
\* seal and its commit, and in whatever order opens, sweeps and commits come.
THEOREM SeriesInductive == Spec => []SeriesInv
<1>1. Init => SeriesInv
  BY NewSeriesType DEF Init, SeriesInv, Live, Fits, SeriesOK, NewSeries, DistinctRows
<1>2. TypeOK /\ TypeOK' /\ IdsInv /\ SeriesInv /\ [Next]_vars => SeriesInv'
  <2> SUFFICES ASSUME TypeOK, TypeOK', IdsInv, SeriesInv, [Next]_vars PROVE SeriesInv'
    OBVIOUS
  <2>1. CASE Open
    <3>1. /\ UNCHANGED disk /\ head' = dTail /\ sealed' = {} /\ points' = {}
          /\ clock' = dClock /\ ids' = dIds /\ Live'
      BY <2>1 DEF Open, Live
    <3>2. dChunks' \cup sealed' = dChunks
      BY <3>1 DEF disk
    <3>3. DistinctRows(dChunks)
      BY DEF SeriesInv, DistinctRows
    <3>4. \A i \in Ids : i \notin Index' => dTail[i] = NewSeries
      BY <3>1 DEF IdsInv, Index
    <3>5. dClock \in Nat /\ \A i \in Ids : dTail[i].last \in Nat
      BY DEF TypeOK, DiskTypeOK, Series
    <3> QED
      BY <3>1, <3>2, <3>3, <3>4, <3>5 DEF SeriesInv, disk
  <2>2. CASE ReplayPoint
    BY <2>2, ReplaySeries
  <2>3. ASSUME NEW sys \in Times, Opened(sys) PROVE SeriesInv'
    BY <2>3, SweepSeries DEF Opened, Live
  <2>4. ASSUME NEW sys \in Times, NEW k \in Keys, Append(k, sys) PROVE SeriesInv'
    BY <2>4, AppendSeries
  <2>5. ASSUME NEW sys \in Times, Sweep(sys) PROVE SeriesInv'
    BY <2>5, SweepSeries DEF Sweep, Live
  <2>6. ASSUME NEW n \in Ids, CommitInterval(n) PROVE SeriesInv'
    <3> DEFINE due == RotationDue(n)
    <3>1. /\ status = "running" /\ WriteInterval(due) /\ Live /\ Live'
          /\ dirty' = dirty \ TailsWritten(due)
          /\ touched' = {} /\ points' = {} /\ sealed' = {}
          /\ UNCHANGED <<clock, ids, head>>
      BY <2>6 DEF CommitInterval, Live
    <3> HIDE DEF due
    <3>2. /\ dChunks' = dChunks \cup sealed
          /\ \A i \in Ids : Fits(dChunks', i, dTail'[i]) /\ dTail'[i].last <= dClock'
          /\ DistinctRows(dChunks')
          /\ \A e \in dLog' : e.ts <= dClock'
          /\ dClock' = clock
          /\ \A i \in Ids : dTail'[i].last <= head[i].last
      BY <3>1, CommitSeries
    <3>3. dChunks' \cup sealed' = dChunks' /\ Index' = Index /\ clock \in Nat
      BY <3>1 DEF Index, TypeOK, MemoryTypeOK
    <3>4. ASSUME NEW i \in Ids, i \in Index \ dirty' PROVE head[i] = dTail'[i]
      <4>1. CASE i \in dirty \cup touched
        <5>1. i \in TailsWritten(due)
          BY <3>1, <3>4, <4>1 DEF TailsWritten
        <5> QED
          BY <3>1, <5>1 DEF WriteInterval
      <4>2. CASE i \notin dirty \cup touched
        <5>1. head[i] = dTail[i]
          BY <3>1, <3>4, <4>2 DEF SeriesInv
        <5> QED
          BY <3>1, <5>1, TailsAfterCommit
      <4> QED
        BY <4>1, <4>2
    <3>5. \A i \in Ids : /\ Fits(dChunks', i, head[i]) /\ head[i].last <= clock
                         /\ i \notin Index => head[i] = NewSeries
      BY <3>1, <3>2 DEF SeriesInv
    <3>6. DistinctRows(dChunks' \cup sealed')
      BY <3>2, <3>3
    <3>7. \A i \in Ids : Fits(dChunks' \cup sealed', i, head'[i])
      BY <3>1, <3>3, <3>5
    <3>8. \A i \in Ids : /\ dTail'[i].last <= head'[i].last /\ head'[i].last <= clock'
                         /\ i \notin Index' => head'[i] = NewSeries
                         /\ i \in Index' \ (dirty' \cup touched') => head'[i] = dTail'[i]
      BY <3>1, <3>2, <3>3, <3>4, <3>5
    <3>9. dClock' <= clock' /\ sealed' = {} /\ points' = {}
      BY <3>1, <3>2, <3>3
    <3> QED
      BY <3>1, <3>2, <3>6, <3>7, <3>8, <3>9 DEF SeriesInv
  <2>7. ASSUME NEW n \in Ids, CommitFails(n) PROVE SeriesInv'
    <3>1. status = "running" /\ ~Live' /\ sealed' = {} /\ points' = {}
      BY <2>7 DEF CommitFails, MemoryGone, Live
    <3>2. CASE WriteInterval(RotationDue(n))
      BY <3>1, <3>2, CommitSeries DEF SeriesInv
    <3>3. CASE UNCHANGED disk
      BY <3>1, <3>3 DEF SeriesInv, disk, DistinctRows
    <3> QED
      BY <2>7, <3>2, <3>3 DEF CommitFails
  <2>8. CASE Close
    <3>1. status = "running" /\ ~Live' /\ sealed' = {} /\ points' = {} /\ WriteInterval(Index)
      BY <2>8 DEF Close, MemoryGone, Live
    <3> QED
      BY <3>1, CommitSeries DEF SeriesInv
  <2>9. CASE Crash
    <3>1. ~Live' /\ sealed' = {} /\ points' = {} /\ UNCHANGED disk
      BY <2>9 DEF Crash, MemoryGone, Live
    <3> QED
      BY <3>1 DEF SeriesInv, disk, DistinctRows
  <2>10. CASE UNCHANGED vars
    <3>1. UNCHANGED <<disk, status, clock, ids, head, dirty, touched, points, sealed>>
      BY <2>10 DEF vars, batch
    <3>2. Index' = Index /\ (Live' <=> Live)
      BY <3>1 DEF Index, Live
    <3> QED
      BY <3>1, <3>2 DEF SeriesInv, disk
  <2> QED
    BY <2>1, <2>2, <2>3, <2>4, <2>5, <2>6, <2>7, <2>8, <2>9, <2>10 DEF Next
<1> QED
  BY <1>1, <1>2, TypeCorrect, IdsInductive, PTL DEF Spec

\* No commit ever replaces a row of `chunks` with another chunk.
THEOREM ChunkKeysGivenOnce == Spec => []ChunkKeysOnce
<1>1. SeriesInv => ChunkKeysOnce
  <2> SUFFICES ASSUME SeriesInv, NEW c \in dChunks \cup sealed, NEW d \in dChunks \cup sealed,
                      ChunkKey(c) = ChunkKey(d)
               PROVE c = d
    BY DEF ChunkKeysOnce
  <2>1. c.id = d.id
    BY DEF ChunkKey
  <2> QED
    BY <2>1 DEF SeriesInv, DistinctRows
<1> QED
  BY <1>1, SeriesInductive, PTL

\* A point is never in two chunks, nor in a chunk and the open one: no reopen doubles it.
THEOREM PointsInOnePlace == Spec => []OnePlace
<1>1. TypeOK /\ SeriesInv => OnePlace
  <2> SUFFICES ASSUME TypeOK, SeriesInv, status = "running" PROVE OnePlace
    BY DEF OnePlace
  <2>1. \A c, d \in dChunks \cup sealed : c.id = d.id /\ c.pts \cap d.pts # {} => c = d
    BY DEF SeriesInv, DistinctRows
  <2>2. \A c \in dChunks \cup sealed : c.pts \cap head[c.id].open = {}
    BY DEF SeriesInv, Fits, Live, TypeOK, DiskTypeOK, MemoryTypeOK, Chunks
  <2> QED
    BY <2>1, <2>2 DEF OnePlace
<1> QED
  BY <1>1, TypeCorrect, SeriesInductive, PTL

\* "A committed point is never later than the committed clock", for any clock readings.
THEOREM ClockNeverBehind == Spec => []ClockCoversPoints
<1>1. TypeOK /\ SeriesInv => ClockCoversPoints
  <2> SUFFICES ASSUME TypeOK, SeriesInv PROVE ClockCoversPoints
    OBVIOUS
  <2> USE DEF TypeOK, DiskTypeOK
  <2>1. dClock \in Nat /\ \A i \in Ids : dTail[i].last \in Nat /\ dTail[i].last <= dClock
    BY DEF Series, SeriesInv
  <2>2. ASSUME NEW i \in Ids, NEW t \in DiskPts(i) PROVE t <= dClock
    <3>1. CASE t \in dTail[i].open
      <4>1. t <= dTail[i].last /\ t \in Nat
        BY <3>1 DEF SeriesInv, Fits, SeriesOK, Series, Times
      <4> QED
        BY <2>1, <4>1
    <3>2. CASE t \in ChunkPts(dChunks, i)
      <4>1. PICK c \in dChunks : c.id = i /\ t \in c.pts
        BY <3>2 DEF ChunkPts
      <4>2. t <= dTail[i].last /\ t \in Nat
        BY <4>1 DEF SeriesInv, Fits, Chunks, Times
      <4> QED
        BY <2>1, <4>2
    <3>3. CASE t \in LogPts(i)
      BY <3>3 DEF LogPts, SeriesInv
    <3> QED
      BY <2>2, <3>1, <3>2, <3>3 DEF DiskPts
  <2>3. status = "running" => \A i \in Index : head[i].last <= clock
    BY DEF SeriesInv, Live, Index
  <2> QED
    BY <2>2, <2>3 DEF ClockCoversPoints
<1> QED
  BY <1>1, TypeCorrect, SeriesInductive, PTL

-----------------------------------------------------------------------------
(* The points a series has.                                                *)

LEMMA ChunkPtsIn ==
    ASSUME NEW rows, NEW i, NEW t
    PROVE t \in ChunkPts(rows, i) <=> \E c \in rows : c.id = i /\ t \in c.pts
  BY DEF ChunkPts

LEMMA TimesOfIn ==
    ASSUME NEW ps, NEW i, NEW t
    PROVE t \in TimesOf(ps, i) <=> \E p \in ps : p.id = i /\ p.ts = t
  BY DEF TimesOf

LEMMA MemPtsIn ==
    ASSUME NEW i, NEW t
    PROVE t \in MemPts(i) <=> \/ t \in head[i].open
                              \/ \E c \in dChunks \cup sealed : c.id = i /\ t \in c.pts
  BY ChunkPtsIn DEF MemPts

LEMMA DiskPtsIn ==
    ASSUME NEW i, NEW t
    PROVE t \in DiskPts(i) <=> \/ t \in dTail[i].open
                               \/ \E c \in dChunks : c.id = i /\ t \in c.pts
                               \/ \E e \in dLog : e.id = i /\ e.ts = t
  BY ChunkPtsIn DEF DiskPts, LogPts

\* A push adds its point to its series, wherever the open chunk goes.
LEMMA PushPts ==
    ASSUME TypeOK, NEW i \in Ids, NEW ts \in Times,
           head' = [head EXCEPT ![i] = Pushed(@, ts)],
           sealed' = sealed \cup SealedBy(i, head[i], ts),
           dChunks' = dChunks
    PROVE \A j \in Ids : \A t : t \in MemPts(j)' <=> t \in MemPts(j) \/ (j = i /\ t = ts)
<1> DEFINE new == SealedBy(i, head[i], ts)
<1>1. head[i] \in Series /\ head \in [Ids -> Series]
  BY DEF TypeOK, MemoryTypeOK
<1>2. \/ new = {Chunk(i, head[i])} /\ Pushed(head[i], ts).open = {ts}
      \/ new = {} /\ Pushed(head[i], ts).open = head[i].open \cup {ts}
  <2>1. \/ /\ Pushed(head[i], ts) = [last |-> ts, span |-> SpanOf(ts), open |-> {ts}, next |-> 0]
           /\ new = IF head[i].open # {} THEN {Chunk(i, head[i])} ELSE {}
        \/ /\ Pushed(head[i], ts) = [last |-> ts, span |-> head[i].span, open |-> {ts},
                                     next |-> head[i].next + 1]
           /\ new = {Chunk(i, head[i])}
        \/ /\ Pushed(head[i], ts) = [last |-> ts, span |-> head[i].span,
                                     open |-> head[i].open \cup {ts}, next |-> head[i].next]
           /\ new = {}
    BY <1>1, PushCases
  <2> HIDE DEF new
  <2> QED
    BY <2>1
<1>3. Chunk(i, head[i]).id = i /\ Chunk(i, head[i]).pts = head[i].open
  BY DEF Chunk
<1>4. head'[i] = Pushed(head[i], ts) /\ \A j \in Ids : j # i => head'[j] = head[j]
  BY <1>1
<1>5. dChunks' \cup sealed' = (dChunks \cup sealed) \cup new
  OBVIOUS
<1> HIDE DEF new
<1>6. \A j \in Ids : \A t :
        t \in MemPts(j)' <=> \/ t \in head'[j].open
                             \/ \E c \in dChunks' \cup sealed' : c.id = j /\ t \in c.pts
  BY ChunkPtsIn DEF MemPts
<1> SUFFICES ASSUME NEW j \in Ids, NEW t
             PROVE t \in MemPts(j)' <=> t \in MemPts(j) \/ (j = i /\ t = ts)
  OBVIOUS
<1>7. t \in MemPts(j) <=> \/ t \in head[j].open
                          \/ \E c \in dChunks \cup sealed : c.id = j /\ t \in c.pts
  BY MemPtsIn
<1>8. CASE j = i
  BY <1>2, <1>3, <1>4, <1>5, <1>6, <1>7, <1>8
<1>9. CASE j # i
  BY <1>2, <1>3, <1>4, <1>5, <1>6, <1>7, <1>9
<1> QED
  BY <1>8, <1>9

\* A sweep moves points from the open chunks to sealed ones.
LEMMA SweepPts ==
    ASSUME TypeOK, NEW at, SweepAt(at), dChunks' = dChunks
    PROVE \A j \in Ids : \A t : t \in MemPts(j)' <=> t \in MemPts(j)
<1> DEFINE swept == {i \in Index : SealsAt(head[i], at)}
           new == {Chunk(i, head[i]) : i \in swept}
<1>1. /\ dChunks' \cup sealed' = (dChunks \cup sealed) \cup new
      /\ \A j \in Ids : head'[j] = IF j \in swept THEN SealedState(head[j]) ELSE head[j]
  BY DEF SweepAt
<1>2. \A j \in Ids : SealedState(head[j]).open = {}
  BY DEF SealedState
<1>3. \A i : Chunk(i, head[i]).id = i /\ Chunk(i, head[i]).pts = head[i].open
  BY DEF Chunk
<1>4. \A c \in new : c.id \in swept /\ c.pts = head[c.id].open
  BY <1>3
<1>5. \A j \in swept : Chunk(j, head[j]) \in new
  OBVIOUS
<1> HIDE DEF new, swept
<1>6. \A j \in Ids : \A t :
        t \in MemPts(j)' <=> \/ t \in head'[j].open
                             \/ \E c \in dChunks' \cup sealed' : c.id = j /\ t \in c.pts
  BY ChunkPtsIn DEF MemPts
<1> SUFFICES ASSUME NEW j \in Ids, NEW t PROVE t \in MemPts(j)' <=> t \in MemPts(j)
  OBVIOUS
<1>7. t \in MemPts(j) <=> \/ t \in head[j].open
                          \/ \E c \in dChunks \cup sealed : c.id = j /\ t \in c.pts
  BY MemPtsIn
<1>8. CASE j \in swept
  BY <1>1, <1>2, <1>3, <1>4, <1>5, <1>6, <1>7, <1>8
<1>9. CASE j \notin swept
  BY <1>1, <1>4, <1>6, <1>7, <1>9
<1> QED
  BY <1>8, <1>9

\* A live series' points are times, none after its last.
LEMMA MemPtsLast ==
    ASSUME TypeOK, SeriesInv, Live, NEW i \in Ids, NEW t \in MemPts(i)
    PROVE t \in Times /\ t <= head[i].last
<1>1. Fits(dChunks \cup sealed, i, head[i])
  BY DEF SeriesInv
<1> QED
  BY <1>1, MemPtsIn DEF Fits, SeriesOK, TypeOK, DiskTypeOK, MemoryTypeOK, Series, Chunks

\* A series that is not in the head has no points.
LEMMA NoPtsOutside ==
    ASSUME TypeOK, SeriesInv, Live, NEW i \in Ids, i \notin Index
    PROVE MemPts(i) = {}
<1>1. head[i] = NewSeries /\ Fits(dChunks \cup sealed, i, NewSeries)
  BY DEF SeriesInv
<1>2. ASSUME NEW c \in dChunks \cup sealed, c.id = i PROVE FALSE
  <2>1. Below(c, NewSeries) /\ c.span \in {NoSpan} \cup (0..MaxTime) /\ c.seq \in Nat
    BY <1>1, <1>2 DEF Fits, TypeOK, DiskTypeOK, MemoryTypeOK, Chunks
  <2> QED
    BY <2>1 DEF Below, NewSeries, NoSpan
<1>3. head[i].open = {}
  BY <1>1 DEF NewSeries
<1> QED
  BY <1>2, <1>3, MemPtsIn

-----------------------------------------------------------------------------
(* The commit.                                                             *)

\* A commit's log: the entries from the bound on, and the interval's at this sequence.
LEMMA LogAfterCommit ==
    ASSUME TypeOK, LogInv, status = "running", NEW due, WriteInterval(due)
    PROVE /\ \A e \in dLog' : \/ e \in dLog /\ e.seq < seq /\ e.seq >= logBound
                              \/ e.seq = seq /\ \E p \in points : e.id = p.id /\ e.ts = p.ts
          /\ \A e \in dLog : e.seq >= logBound => e \in dLog'
          /\ \A p \in points : [seq |-> seq, id |-> p.id, ts |-> p.ts] \in dLog'
<1>1. seq = dSeq /\ logBound <= seq /\ seq \in Nat /\ logBound \in Nat
  BY DEF LogInv, RunInv, TypeOK, MemoryTypeOK
<1>2. \A e \in dLog : e.seq < seq /\ e.seq \in Nat
  BY <1>1 DEF LogInv, DiskLogInv, TypeOK, DiskTypeOK, LogPoints
<1>3. dLog' = {e \in LogWith : e.seq >= logBound}
  BY DEF WriteInterval
<1>4. \A e \in LogWith : \/ e \in dLog
                         \/ e.seq = seq /\ \E p \in points : e.id = p.id /\ e.ts = p.ts
  BY DEF LogWith
<1>5. \A e \in dLog : e \in LogWith
  BY <1>1, <1>2 DEF LogWith
<1>6. \A p \in points : [seq |-> seq, id |-> p.id, ts |-> p.ts] \in LogWith
  BY DEF LogWith
<1> QED
  BY <1>1, <1>2, <1>3, <1>4, <1>5, <1>6

\* Exactly what memory has is on disk after it: a point that is in no written tail and no
\* chunk is in the log, for the log that goes is in the tails.
LEMMA CommitPts ==
    ASSUME TypeOK, SeriesInv, LogInv, status = "running", NEW due, WriteInterval(due)
    PROVE \A i \in Ids : \A t : t \in DiskPts(i)' <=> t \in MemPts(i)
<1> SUFFICES ASSUME NEW i \in Ids, NEW t PROVE t \in DiskPts(i)' <=> t \in MemPts(i)
  OBVIOUS
<1>1. t \in DiskPts(i)' <=> \/ t \in dTail'[i].open
                            \/ \E c \in dChunks' : c.id = i /\ t \in c.pts
                            \/ \E e \in dLog' : e.id = i /\ e.ts = t
  BY ChunkPtsIn DEF DiskPts, LogPts
<1>2. dChunks' = dChunks \cup sealed
  BY CommitSeries
<1>3. t \in MemPts(i) <=> \/ t \in head[i].open
                          \/ \E c \in dChunks \cup sealed : c.id = i /\ t \in c.pts
  BY MemPtsIn
<1>4. t \in MemPts(i) <=> t \in DiskPts(i) \/ \E p \in points : p.id = i /\ p.ts = t
  BY TimesOfIn DEF LogInv, RunInv
<1>5. t \in DiskPts(i) <=> \/ t \in dTail[i].open
                           \/ \E c \in dChunks : c.id = i /\ t \in c.pts
                           \/ \E e \in dLog : e.id = i /\ e.ts = t
  BY DiskPtsIn
<1>6. /\ \A e \in dLog' : e \in dLog \/ \E p \in points : e.id = p.id /\ e.ts = p.ts
      /\ \A e \in dLog : e.seq >= logBound => e \in dLog'
      /\ \A p \in points : [seq |-> seq, id |-> p.id, ts |-> p.ts] \in dLog'
  BY LogAfterCommit
<1>7. dTail'[i] = head[i] \/ dTail'[i] = dTail[i]
  BY TailsAfterCommit
<1>8. t \in DiskPts(i)' => t \in MemPts(i)
  BY <1>1, <1>2, <1>3, <1>4, <1>5, <1>6, <1>7
<1>9. ASSUME t \in MemPts(i) PROVE t \in DiskPts(i)'
  <2>1. CASE \E c \in dChunks \cup sealed : c.id = i /\ t \in c.pts
    BY <1>1, <1>2, <2>1
  <2>2. CASE t \in head[i].open /\ dTail'[i] = head[i]
    BY <1>1, <2>2
  <2>3. CASE dTail'[i] = dTail[i]
    <3>1. CASE t \in dTail[i].open \/ \E c \in dChunks : c.id = i /\ t \in c.pts
      BY <1>1, <1>2, <2>3, <3>1
    <3>2. CASE \E p \in points : p.id = i /\ p.ts = t
      BY <1>1, <1>6, <3>2
    <3>3. CASE \E e \in dLog : e.id = i /\ e.ts = t
      <4>1. PICK e \in dLog : e.id = i /\ e.ts = t
        BY <3>3
      <4>2. CASE e.seq >= logBound
        BY <1>1, <1>6, <4>1, <4>2
      <4>3. CASE ~(e.seq >= logBound)
        <5>1. e.seq < logBound
          BY <4>1, <4>3 DEF TypeOK, DiskTypeOK, MemoryTypeOK, LogPoints
        <5>2. e.ts <= dTail[i].last
          BY <4>1, <5>1 DEF LogInv, RunInv
        <5>3. t \in dTail[i].open \cup ChunkPts(dChunks, i)
          BY <4>1, <5>2 DEF LogInv, DiskLogInv, Logged
        <5> QED
          BY <3>1, <5>3, ChunkPtsIn
      <4> QED
        BY <4>2, <4>3
    <3> QED
      BY <1>4, <1>5, <1>9, <3>1, <3>2, <3>3
  <2> QED
    BY <1>3, <1>7, <1>9, <2>1, <2>2, <2>3
<1> QED
  BY <1>8, <1>9

\* The committed log stays in order, and what the tails are past is in them.
LEMMA CommitDiskLog ==
    ASSUME TypeOK, SeriesInv, LogInv, status = "running", NEW due, WriteInterval(due)
    PROVE DiskLogInv'
<1>1. seq = dSeq /\ dSeq' = seq + 1 /\ seq \in Nat
  BY DEF LogInv, RunInv, WriteInterval, WriteMeta, TypeOK, MemoryTypeOK
<1>2. \A e \in dLog' : \/ e \in dLog /\ e.seq < seq
                       \/ e.seq = seq /\ \E p \in points : e.id = p.id /\ e.ts = p.ts
  BY LogAfterCommit
<1>3. \A e \in dLog : e.seq \in Nat /\ e.ts \in Nat /\ e.id \in Ids
  BY DEF TypeOK, DiskTypeOK, LogPoints, Times
<1>4. \A p \in points : /\ p.ts \in Nat /\ p.id \in Ids /\ dTail[p.id].last < p.ts
                        /\ \A e \in dLog : e.id = p.id => e.ts < p.ts
  BY DEF LogInv, RunInv, TypeOK, MemoryTypeOK, Times
<1>5. \A e \in dLog' : e.seq < dSeq'
  BY <1>1, <1>2, <1>3
<1>6. LogInOrder'
  <2> SUFFICES ASSUME NEW e \in dLog', NEW f \in dLog', e.id = f.id, e.seq < f.seq
               PROVE e.ts < f.ts
    BY DEF LogInOrder
  <2>1. CASE e \in dLog /\ f \in dLog
    BY <2>1 DEF LogInv, DiskLogInv, LogInOrder
  <2>2. CASE e \in dLog /\ \E p \in points : f.id = p.id /\ f.ts = p.ts
    BY <1>4, <2>2
  <2>3. CASE e.seq = seq
    BY <1>1, <1>2, <1>3, <2>3
  <2> QED
    BY <1>2, <2>1, <2>2, <2>3
<1>7. ASSUME NEW e \in dLog', e.ts <= dTail'[e.id].last PROVE Logged(e.id, e.ts)'
  <2>1. e.id \in Ids
    BY <1>2, <1>3, <1>4
  <2>2. dChunks' = dChunks \cup sealed
    BY CommitSeries
  <2>3. e.ts \in MemPts(e.id)
    <3>1. e.ts \in DiskPts(e.id)'
      BY DEF DiskPts, LogPts
    <3> QED
      BY <2>1, <3>1, CommitPts
  <2>4. CASE dTail'[e.id] = head[e.id]
    BY <2>2, <2>3, <2>4, MemPtsIn, ChunkPtsIn DEF Logged
  <2>5. CASE dTail'[e.id] = dTail[e.id]
    <3>1. e \in dLog
      BY <1>2, <1>4, <1>7, <2>1, <2>5 DEF TypeOK, DiskTypeOK, Series
    <3>2. Logged(e.id, e.ts)
      BY <1>7, <2>5, <3>1 DEF LogInv, DiskLogInv
    <3> QED
      BY <2>2, <2>5, <3>2, ChunkPtsIn DEF Logged
  <2> QED
    BY <2>1, <2>4, <2>5, TailsAfterCommit
<1> QED
  BY <1>5, <1>6, <1>7 DEF DiskLogInv

\* A tail that is due, or that was past a point already, is past it after the commit.
LEMMA TailsMoveOn ==
    ASSUME TypeOK, SeriesInv, LogInv, status = "running", NEW due, WriteInterval(due),
           NEW e \in dLog, e.id \in Index,
           e.id \in due \/ e.ts <= dTail[e.id].last
    PROVE e.ts <= dTail'[e.id].last
<1>1. e.id \in Ids /\ e.ts \in Nat /\ dTail[e.id].last \in Nat /\ head[e.id].last \in Nat
  BY DEF TypeOK, DiskTypeOK, MemoryTypeOK, LogPoints, Times, Series
<1>2. e.ts <= head[e.id].last
  <2>1. e.ts \in MemPts(e.id)
    BY <1>1 DEF LogInv, RunInv, DiskPts, LogPts
  <2> QED
    BY <1>1, <2>1, MemPtsLast DEF Live
<1>3. CASE dTail'[e.id] = head[e.id]
  BY <1>2, <1>3
<1>4. CASE e.id \notin TailsWritten(due) /\ dTail'[e.id] = dTail[e.id]
  <2>1. CASE e.id \in due
    <3>1. e.id \notin dirty \cup touched
      BY <1>4, <2>1 DEF TailsWritten
    <3>2. head[e.id] = dTail[e.id]
      BY <1>1, <3>1 DEF SeriesInv, Live
    <3> QED
      BY <1>2, <1>4, <3>2
  <2>2. CASE e.ts <= dTail[e.id].last
    BY <1>4, <2>2
  <2> QED
    BY <2>1, <2>2
<1> QED
  BY <1>1, <1>3, <1>4, TailsAfterCommit

\* The rotation: a log entry goes only when its point is in a tail or a chunk.
LEMMA CommitRun ==
    ASSUME TypeOK, TypeOK', IdsInv, SeriesInv, LogInv, NEW n \in Ids, CommitInterval(n)
    PROVE RunInv'
<1> DEFINE due == RotationDue(n)
<1>1. /\ status = "running" /\ WriteInterval(due) /\ AfterCommit(due)
      /\ points' = {} /\ sealed' = {} /\ UNCHANGED <<status, ids, head>>
  BY DEF CommitInterval
<1> HIDE DEF due
<1>2. /\ seq \in Nat /\ rotSeq \in Nat /\ logBound \in Nat /\ rotSeq <= seq /\ logBound <= seq
      /\ seq' = seq + 1 /\ dSeq' = seq + 1
  BY <1>1 DEF LogInv, RunInv, TypeOK, MemoryTypeOK, AfterCommit, WriteInterval, WriteMeta
<1>3. \/ rotTodo \ due = {} /\ logBound' = rotSeq /\ rotSeq' = seq + 1 /\ rotTodo' = Index
      \/ rotTodo' = rotTodo \ due /\ logBound' = logBound /\ rotSeq' = rotSeq
  BY <1>1 DEF AfterCommit
<1>4. seq' = dSeq' /\ rotSeq' <= seq' /\ logBound' <= seq'
  BY <1>2, <1>3
<1>5. ASSUME NEW i \in Ids PROVE MemPts(i)' = DiskPts(i)' \cup TimesOf(points', i)
  <2>1. dChunks' = dChunks \cup sealed
    BY <1>1, CommitSeries
  <2>2. \A t : t \in MemPts(i)' <=> t \in MemPts(i)
    <3>1. \A t : t \in MemPts(i)' <=> \/ t \in head'[i].open
                                      \/ \E c \in dChunks' \cup sealed' : c.id = i /\ t \in c.pts
      BY ChunkPtsIn DEF MemPts
    <3> QED
      BY <1>1, <2>1, <3>1, MemPtsIn
  <2>3. \A t : t \in DiskPts(i)' <=> t \in MemPts(i)
    BY <1>1, CommitPts
  <2>4. TimesOf(points', i) = {}
    BY <1>1 DEF TimesOf
  <2> QED
    BY <2>2, <2>3, <2>4
<1>6. \A e \in dLog' : \/ e \in dLog /\ e.seq < seq /\ e.seq >= logBound
                       \/ e.seq = seq
  BY <1>1, LogAfterCommit
<1>7. \A e \in dLog' : e.id \in Index /\ e.seq \in Nat /\ e.id \in Ids
  <2>1. dIds' = ids
    BY <1>1, CommitInterns
  <2>2. \A e \in dLog' : \E k \in Keys : dIds'[k] = e.id
    BY <1>1, CommitIds
  <2>3. \A e \in dLog' : e.id \in Ids /\ e.seq \in Nat
    BY DEF TypeOK, DiskTypeOK, LogPoints
  <2> QED
    BY <2>1, <2>2, <2>3 DEF Index
<1>8. \A e \in dLog : e \in dLog' /\ (e.id \in due \/ e.ts <= dTail[e.id].last) =>
        e.ts <= dTail'[e.id].last
  BY <1>1, <1>7, TailsMoveOn
<1>9. \A e \in dLog : e.seq < rotSeq /\ e.id \notin rotTodo => e.ts <= dTail[e.id].last
  BY <1>1 DEF LogInv, RunInv
<1>10. ASSUME NEW e \in dLog', e.seq < logBound' PROVE e.ts <= dTail'[e.id].last
  <2>1. CASE rotTodo \ due = {} /\ logBound' = rotSeq
    BY <1>2, <1>6, <1>7, <1>8, <1>9, <1>10, <2>1
  <2>2. CASE logBound' = logBound
    BY <1>2, <1>6, <1>7, <1>10, <2>2
  <2> QED
    BY <1>3, <2>1, <2>2
<1>11. ASSUME NEW e \in dLog', e.seq < rotSeq', e.id \notin rotTodo'
       PROVE e.ts <= dTail'[e.id].last
  <2>1. CASE rotTodo' = Index
    BY <1>7, <1>11, <2>1
  <2>2. CASE rotTodo' = rotTodo \ due /\ rotSeq' = rotSeq
    BY <1>2, <1>6, <1>7, <1>8, <1>9, <1>11, <2>2
  <2> QED
    BY <1>3, <2>1, <2>2
<1> QED
  BY <1>1, <1>4, <1>5, <1>10, <1>11 DEF RunInv

-----------------------------------------------------------------------------
(* The other steps.                                                        *)

LEMMA AppendLog ==
    ASSUME TypeOK, TypeOK', IdsInv, SeriesInv, LogInv,
           NEW k \in Keys, NEW sys \in Times, Append(k, sys)
    PROVE RunInv'
<1> DEFINE at == Max2(clock, sys)
           id == IdFor(k)
<1>1. /\ status = "running" /\ status' = "running" /\ Live
      /\ UNCHANGED disk /\ UNCHANGED <<seq, logBound, rotSeq, rotTodo>>
  BY DEF Append, Live, rotation
<1>2. at \in Times /\ at \in Nat
  BY ClockType DEF Times, TypeOK, MemoryTypeOK
<1>3. id \in Ids /\ head[id].last \in Nat /\ dTail[id].last \in Nat
  BY DEF IdFor, TypeOK, DiskTypeOK, MemoryTypeOK, Series
<1> HIDE DEF at, id
<1>4. CASE Rejected(k, at)
  <2>1. UNCHANGED <<head, points, sealed>>
    BY <1>4 DEF Append, at
  <2> QED
    BY <1>1, <2>1 DEF LogInv, RunInv, MemPts, DiskPts, LogPts, disk
<1>5. CASE ~Rejected(k, at)
  <2>1. /\ head' = [head EXCEPT ![id] = Pushed(@, at)]
        /\ sealed' = sealed \cup SealedBy(id, head[id], at)
        /\ points' = points \cup {[id |-> id, ts |-> at]}
    BY <1>5 DEF Append, at, id
  <2>2. head[id].last < at
    BY <1>2, <1>3, <1>5 DEF Rejected, id
  <2>3. \A j \in Ids : \A t : t \in MemPts(j)' <=> t \in MemPts(j) \/ (j = id /\ t = at)
    BY <1>1, <1>2, <1>3, <2>1, PushPts DEF disk
  <2>4. \A j \in Ids : DiskPts(j)' = DiskPts(j)
    BY <1>1 DEF DiskPts, LogPts, disk
  <2>5. ASSUME NEW j \in Ids PROVE MemPts(j)' = DiskPts(j)' \cup TimesOf(points', j)
    <3>1. MemPts(j) = DiskPts(j) \cup TimesOf(points, j)
      BY <1>1 DEF LogInv, RunInv
    <3>2. \A t : t \in TimesOf(points', j) <=> t \in TimesOf(points, j) \/ (j = id /\ t = at)
      <4> DEFINE new == [id |-> id, ts |-> at]
      <4>1. \A t : t \in TimesOf(points', j) <=> \E p \in points' : p.id = j /\ p.ts = t
        BY TimesOfIn
      <4>2. \A t : t \in TimesOf(points, j) <=> \E p \in points : p.id = j /\ p.ts = t
        BY TimesOfIn
      <4>3. new.id = id /\ new.ts = at /\ points' = points \cup {new}
        BY <2>1
      <4> HIDE DEF new
      <4> QED
        BY <4>1, <4>2, <4>3
    <3> QED
      BY <2>3, <2>4, <3>1, <3>2
  <2>6. dTail[id].last < at
    BY <1>1, <1>2, <1>3, <2>2 DEF SeriesInv
  <2>7. ASSUME NEW e \in dLog, e.id = id PROVE e.ts < at
    <3>1. e.ts \in MemPts(id)
      BY <1>1, <1>3, <2>7 DEF LogInv, RunInv, DiskPts, LogPts
    <3>2. e.ts <= head[id].last /\ e.ts \in Nat
      BY <1>1, <1>3, <3>1, MemPtsLast DEF Times
    <3> QED
      BY <1>2, <1>3, <2>2, <3>2
  <2>8. \A p \in points' : /\ dTail'[p.id].last < p.ts
                           /\ \A e \in dLog' : e.id = p.id => e.ts < p.ts
    BY <1>1, <2>1, <2>6, <2>7 DEF LogInv, RunInv, disk
  <2> QED
    BY <1>1, <2>5, <2>8 DEF LogInv, RunInv, disk
<1> QED
  BY <1>4, <1>5

\* Replay: a point that is skipped is in memory already, and one that is applied comes before
\* every other its series has left to replay.
LEMMA ReplayLog ==
    ASSUME TypeOK, TypeOK', IdsInv, SeriesInv, LogInv, ReplayPoint PROVE ReplayInv'
<1>1. /\ status = "opening" /\ status' = "opening" /\ Live
      /\ UNCHANGED disk /\ UNCHANGED <<seq, points, logBound>>
  BY DEF ReplayPoint, Live, rotation
<1>2. PICK p \in replay :
        /\ \A q \in replay : p.seq < q.seq \/ (p.seq = q.seq /\ p.ts <= q.ts)
        /\ replay' = replay \ {p}
        /\ IF Replays(p)
           THEN LET new == SealedBy(p.id, head[p.id], p.ts) IN
                /\ head' = [head EXCEPT ![p.id] = Pushed(@, p.ts)]
                /\ sealed' = sealed \cup new
           ELSE UNCHANGED <<head, sealed>>
  BY DEF ReplayPoint
<1>3. /\ replay \subseteq dLog /\ replay \subseteq LogPoints
      /\ p.id \in Ids /\ p.ts \in Times /\ p.ts \in Nat
  BY <1>1 DEF IdsInv, TypeOK, MemoryTypeOK, LogPoints, Times
<1>4. \A j \in Ids : DiskPts(j)' = DiskPts(j)
  BY <1>1 DEF DiskPts, LogPts, disk
<1>5. /\ \A i \in Ids : MemPts(i) \cup TimesOf(replay, i) = DiskPts(i)
      /\ \A q \in replay : q.ts <= head[q.id].last => q.ts \in MemPts(q.id)
      /\ points = {} /\ seq = dSeq /\ logBound = 0
  BY <1>1 DEF LogInv, ReplayInv
<1>6. \A i \in Ids : \A t : t \in TimesOf(replay, i) <=>
                              t \in TimesOf(replay', i) \/ (i = p.id /\ t = p.ts)
  BY <1>2, TimesOfIn
<1>7. CASE ~Replays(p)
  <2>1. UNCHANGED <<head, sealed>> /\ \A i : MemPts(i)' = MemPts(i)
    BY <1>1, <1>2, <1>7 DEF MemPts, disk
  <2>2. p.ts \in MemPts(p.id)
    BY <1>3, <1>5, <1>7 DEF Replays, TypeOK, MemoryTypeOK, Series
  <2>3. \A i \in Ids : MemPts(i)' \cup TimesOf(replay', i) = DiskPts(i)'
    BY <1>4, <1>5, <1>6, <2>1, <2>2
  <2>4. \A q \in replay' : q.ts <= head'[q.id].last => q.ts \in MemPts(q.id)'
    BY <1>2, <1>5, <2>1
  <2> QED
    BY <1>1, <1>5, <2>3, <2>4 DEF ReplayInv, disk
<1>8. CASE Replays(p)
  <2>1. /\ head' = [head EXCEPT ![p.id] = Pushed(@, p.ts)]
        /\ sealed' = sealed \cup SealedBy(p.id, head[p.id], p.ts)
    BY <1>2, <1>8
  <2>2. \A j \in Ids : \A t : t \in MemPts(j)' <=> t \in MemPts(j) \/ (j = p.id /\ t = p.ts)
    BY <1>1, <1>3, <2>1, PushPts DEF disk
  <2>3. \A i \in Ids : MemPts(i)' \cup TimesOf(replay', i) = DiskPts(i)'
    BY <1>4, <1>5, <1>6, <2>2
  <2>4. head'[p.id].last = p.ts /\ \A j \in Ids : j # p.id => head'[j] = head[j]
    BY <1>3, <2>1 DEF TypeOK, MemoryTypeOK, Pushed
  <2>5. ASSUME NEW q \in replay', q.ts <= head'[q.id].last PROVE q.ts \in MemPts(q.id)'
    <3>1. q \in replay /\ q # p /\ q.id \in Ids /\ q.ts \in Nat /\ q.seq \in Nat /\ p.seq \in Nat
      BY <1>2, <1>3 DEF LogPoints, Times
    <3>2. CASE q.id # p.id
      BY <1>5, <2>2, <2>4, <2>5, <3>1, <3>2
    <3>3. CASE q.id = p.id
      <4>1. q.ts <= p.ts
        BY <2>4, <2>5, <3>3
      <4>2. ~(p.seq < q.seq)
        <5>1. p.seq < q.seq => p.ts < q.ts
          BY <1>3, <3>1, <3>3 DEF LogInv, DiskLogInv, LogInOrder
        <5> QED
          BY <1>3, <3>1, <4>1, <5>1
      <4>3. p.seq = q.seq /\ p.ts = q.ts
        BY <1>2, <1>3, <3>1, <4>1, <4>2
      <4>4. p = q
        BY <1>3, <3>1, <3>3, <4>3 DEF LogPoints
      <4> QED
        BY <3>1, <4>4
    <3> QED
      BY <3>2, <3>3
  <2> QED
    BY <1>1, <1>5, <2>3, <2>5 DEF ReplayInv, disk
<1> QED
  BY <1>7, <1>8

LEMMA OpenedLog ==
    ASSUME TypeOK, TypeOK', IdsInv, SeriesInv, LogInv, NEW sys \in Times, Opened(sys)
    PROVE RunInv'
<1>1. /\ status = "opening" /\ replay = {} /\ UNCHANGED disk /\ SweepAt(clock')
      /\ UNCHANGED <<seq, ids, points, logBound>> /\ rotSeq' = seq /\ rotTodo' = Index
  BY DEF Opened
<1>2. /\ \A i \in Ids : MemPts(i) \cup TimesOf(replay, i) = DiskPts(i)
      /\ points = {} /\ seq = dSeq /\ logBound = 0 /\ seq \in Nat
  BY <1>1 DEF LogInv, ReplayInv, TypeOK, MemoryTypeOK
<1>3. \A i \in Ids : \A t : t \in MemPts(i)' <=> t \in MemPts(i)
  BY <1>1, SweepPts DEF disk
<1>4. \A i \in Ids : DiskPts(i)' = DiskPts(i) /\ TimesOf(replay, i) = {} /\ TimesOf(points', i) = {}
  BY <1>1, <1>2 DEF DiskPts, LogPts, disk, TimesOf
<1>5. \A i \in Ids : MemPts(i)' = DiskPts(i)' \cup TimesOf(points', i)
  BY <1>2, <1>3, <1>4
<1>6. \A e \in dLog : e.id \in Index /\ e.seq \in Nat
  BY <1>1 DEF IdsInv, Index, TypeOK, DiskTypeOK, LogPoints
<1> QED
  BY <1>1, <1>2, <1>5, <1>6 DEF RunInv, disk

\* Memory and disk always agree, through any opens, rotations, crashes and commits that fail
\* after they landed.
THEOREM LogInductive == Spec => []LogInv
<1>1. Init => LogInv
  BY DEF Init, LogInv, DiskLogInv, ReplayInv, RunInv, LogInOrder
<1>2. /\ TypeOK /\ TypeOK' /\ IdsInv /\ SeriesInv /\ LogInv /\ [Next]_vars => LogInv'
  <2> SUFFICES ASSUME TypeOK, TypeOK', IdsInv, SeriesInv, LogInv, [Next]_vars PROVE LogInv'
    OBVIOUS
  <2>0. UNCHANGED disk => DiskLogInv'
    BY DEF disk, LogInv, DiskLogInv, LogInOrder, Logged
  <2>1. CASE Open
    <3>1. /\ status' = "opening" /\ UNCHANGED disk /\ replay' = dLog /\ points' = {}
          /\ seq' = dSeq /\ head' = dTail /\ sealed' = {} /\ logBound' = 0
      BY <2>1 DEF Open
    <3>2. ASSUME NEW i \in Ids, NEW t PROVE t \in MemPts(i)' \cup TimesOf(replay', i) <=> t \in DiskPts(i)'
      BY <3>1, ChunkPtsIn DEF MemPts, DiskPts, LogPts, TimesOf, disk
    <3>3. ASSUME NEW p \in replay', p.ts <= head'[p.id].last PROVE p.ts \in MemPts(p.id)'
      <4>1. Logged(p.id, p.ts)
        BY <3>1, <3>3 DEF LogInv, DiskLogInv
      <4> QED
        BY <3>1, <4>1 DEF Logged, MemPts, disk
    <3> QED
      BY <2>0, <3>1, <3>2, <3>3 DEF LogInv, ReplayInv, RunInv, disk
  <2>2. CASE ReplayPoint
    BY <2>0, <2>2, ReplayLog DEF ReplayPoint, LogInv, RunInv
  <2>3. ASSUME NEW sys \in Times, Opened(sys) PROVE LogInv'
    BY <2>0, <2>3, OpenedLog DEF Opened, LogInv, ReplayInv
  <2>4. ASSUME NEW sys \in Times, NEW k \in Keys, Append(k, sys) PROVE LogInv'
    BY <2>0, <2>4, AppendLog DEF Append, LogInv, ReplayInv
  <2>5. ASSUME NEW sys \in Times, Sweep(sys) PROVE LogInv'
    <3>1. /\ status = "running" /\ status' = status /\ UNCHANGED disk /\ SweepAt(clock')
          /\ UNCHANGED <<seq, points, logBound, rotSeq, rotTodo>>
      BY <2>5 DEF Sweep, rotation
    <3>2. \A i \in Ids : \A t : t \in MemPts(i)' <=> t \in MemPts(i)
      BY <3>1, SweepPts DEF disk
    <3>3. \A i \in Ids : MemPts(i)' = DiskPts(i)' \cup TimesOf(points', i)
      <4>1. \A i \in Ids : DiskPts(i)' = DiskPts(i) /\ TimesOf(points', i) = TimesOf(points, i)
        BY <3>1 DEF DiskPts, LogPts, disk
      <4>2. \A i \in Ids : MemPts(i) = DiskPts(i) \cup TimesOf(points, i)
        BY <3>1 DEF LogInv, RunInv
      <4> QED
        BY <3>2, <4>1, <4>2
    <3> QED
      BY <2>0, <3>1, <3>3 DEF LogInv, RunInv, ReplayInv, disk
  <2>6. ASSUME NEW n \in Ids, CommitInterval(n) PROVE LogInv'
    <3>1. DiskLogInv'
      BY <2>6, CommitDiskLog DEF CommitInterval
    <3>2. RunInv'
      BY <2>6, CommitRun
    <3> QED
      BY <2>6, <3>1, <3>2 DEF CommitInterval, LogInv, ReplayInv
  <2>7. ASSUME NEW n \in Ids, CommitFails(n) PROVE LogInv'
    <3>1. DiskLogInv'
      BY <2>0, <2>7, CommitDiskLog DEF CommitFails
    <3> QED
      BY <2>7, <3>1 DEF CommitFails, LogInv, ReplayInv, RunInv
  <2>8. CASE Close
    <3>1. DiskLogInv'
      BY <2>8, CommitDiskLog DEF Close
    <3> QED
      BY <2>8, <3>1 DEF Close, LogInv, ReplayInv, RunInv
  <2>9. CASE Crash
    BY <2>0, <2>9 DEF Crash, LogInv, ReplayInv, RunInv
  <2>10. CASE UNCHANGED vars
    <3>1. /\ UNCHANGED <<disk, status, replay, seq, head, points, sealed>>
          /\ UNCHANGED <<logBound, rotSeq, rotTodo>>
      BY <2>10 DEF vars, batch, rotation
    <3>2. \A i : MemPts(i)' = MemPts(i) /\ DiskPts(i)' = DiskPts(i)
      BY <3>1 DEF MemPts, DiskPts, LogPts, disk
    <3>3. ReplayInv'
      BY <3>1, <3>2 DEF LogInv, ReplayInv, disk
    <3>4. RunInv'
      BY <3>1, <3>2 DEF LogInv, RunInv, disk
    <3> QED
      BY <2>0, <3>1, <3>3, <3>4 DEF LogInv
  <2> QED
    BY <2>1, <2>2, <2>3, <2>4, <2>5, <2>6, <2>7, <2>8, <2>9, <2>10 DEF Next
<1> QED
  BY <1>1, <1>2, TypeCorrect, IdsInductive, SeriesInductive, PTL DEF Spec

\* The log lists every series' points in time order.
THEOREM LogAlwaysInOrder == Spec => []LogInOrder
<1>1. LogInv => LogInOrder
  BY DEF LogInv, DiskLogInv
<1> QED
  BY <1>1, LogInductive, PTL

\* All that the runs check of the writer's state: ids, interning, the clock, the log's order, and
\* that every point and every chunk key is in one place.
THEOREM StoreAlwaysSafe == Spec => []StoreSafe
  BY TypeCorrect, UsedIsInterned, IdsNeverShared, ClockNeverBehind, LogAlwaysInOrder,
     PointsInOnePlace, ChunkKeysGivenOnce, PTL DEF StoreSafe

\* All the layers together.
THEOREM InvariantHolds == Spec => []IndInv
  BY TypeCorrect, IdsInductive, SeriesInductive, LogInductive, PTL DEF IndInv

-----------------------------------------------------------------------------
(* The refinement.                                                         *)

\* Membership in what a running store answers for, and in what is durable, series by series.
LEMMA HeldIn ==
    ASSUME NEW k \in Keys, NEW t \in Times, NEW i, i = ids[k]
    PROVE <<k, t>> \in Held <=> i # NoId /\ t \in MemPts(i)
  BY DEF Held

LEMMA HeldInNext ==
    ASSUME NEW k \in Keys, NEW t \in Times, NEW i, i = ids'[k]
    PROVE <<k, t>> \in Held' <=> i # NoId /\ t \in MemPts(i)'
  BY DEF Held, MemPts

LEMMA DurableIn ==
    ASSUME NEW k \in Keys, NEW t \in Times, NEW i, i = dIds[k]
    PROVE <<k, t>> \in Durable <=> i # NoId /\ t \in DiskPts(i)
  BY DEF Durable

LEMMA DurableInNext ==
    ASSUME NEW k \in Keys, NEW t \in Times, NEW i, i = dIds'[k]
    PROVE <<k, t>> \in Durable' <=> i # NoId /\ t \in DiskPts(i)'
  BY DEF Durable, DiskPts, LogPts

\* A commit makes exactly what the store answers for durable.
LEMMA CommitDurable ==
    ASSUME TypeOK, IdsInv, SeriesInv, LogInv, status = "running", NEW due, WriteInterval(due)
    PROVE Durable' = Held
<1>1. dIds' = ids
  BY CommitInterns
<1>2. \A i \in Ids : \A t : t \in DiskPts(i)' <=> t \in MemPts(i)
  BY CommitPts
<1>3. ASSUME NEW k \in Keys, NEW t \in Times PROVE <<k, t>> \in Durable' <=> <<k, t>> \in Held
  <2>1. PICK i : i = ids[k] /\ i = dIds'[k]
    BY <1>1
  <2>2. i # NoId => i \in Ids
    BY <2>1 DEF TypeOK, MemoryTypeOK
  <2> QED
    BY <1>2, <2>1, <2>2, HeldIn, DurableInNext
<1>4. Durable' \subseteq Keys \X Times /\ Held \subseteq Keys \X Times
  BY DEF Durable, Held
<1> QED
  BY <1>3, <1>4

\* The end of an open answers for exactly what is durable.
LEMMA OpenedHeld ==
    ASSUME TypeOK, IdsInv, LogInv, NEW sys \in Times, Opened(sys)
    PROVE Held' = Durable
<1>1. /\ status = "opening" /\ replay = {} /\ UNCHANGED disk /\ SweepAt(clock') /\ ids' = ids
  BY DEF Opened
<1>2. \A i \in Ids : \A t : t \in MemPts(i)' <=> t \in MemPts(i)
  BY <1>1, SweepPts DEF disk
<1>3. \A i \in Ids : MemPts(i) = DiskPts(i)
  <2>1. \A i \in Ids : MemPts(i) \cup TimesOf(replay, i) = DiskPts(i) /\ TimesOf(replay, i) = {}
    BY <1>1 DEF LogInv, ReplayInv, TimesOf
  <2> QED
    BY <2>1
<1>4. ASSUME NEW k \in Keys, NEW t \in Times PROVE <<k, t>> \in Held' <=> <<k, t>> \in Durable
  <2>1. PICK i : i = ids'[k] /\ i = dIds[k]
    BY <1>1 DEF IdsInv
  <2>2. i # NoId => i \in Ids
    BY <2>1 DEF TypeOK, DiskTypeOK
  <2>3. <<k, t>> \in Held' <=> i # NoId /\ t \in MemPts(i)'
    BY <2>1, HeldInNext
  <2>4. <<k, t>> \in Durable <=> i # NoId /\ t \in DiskPts(i)
    BY <2>1, DurableIn
  <2> QED
    BY <1>2, <1>3, <2>2, <2>3, <2>4
<1>5. Durable \subseteq Keys \X Times /\ Held' \subseteq Keys \X Times
  BY DEF Durable, Held
<1> QED
  BY <1>4, <1>5

\* A sweep changes nothing the store answers for.
LEMMA SweepHeld ==
    ASSUME TypeOK, NEW at, SweepAt(at), UNCHANGED disk, ids' = ids
    PROVE Held' = Held
<1>1. \A i \in Ids : \A t : t \in MemPts(i)' <=> t \in MemPts(i)
  BY SweepPts DEF disk
<1>2. ASSUME NEW k \in Keys, NEW t \in Times PROVE <<k, t>> \in Held' <=> <<k, t>> \in Held
  <2>1. PICK i : i = ids'[k] /\ i = ids[k]
    OBVIOUS
  <2>2. i # NoId => i \in Ids
    BY <2>1 DEF TypeOK, MemoryTypeOK
  <2> QED
    BY <1>1, <2>1, <2>2, HeldInNext, HeldIn
<1>3. Held \subseteq Keys \X Times /\ Held' \subseteq Keys \X Times
  BY DEF Held
<1> QED
  BY <1>2, <1>3

\* A point that is accepted is later than all its series has, and is all that is added.
LEMMA AppendHeld ==
    ASSUME TypeOK, IdsInv, SeriesInv, NEW k \in Keys, NEW sys \in Times, Append(k, sys),
           ~Rejected(k, Max2(clock, sys))
    PROVE \E t \in Times : /\ \A u \in Times : <<k, u>> \in Held => u < t
                           /\ Held' = Held \cup {<<k, t>>}
<1> DEFINE at == Max2(clock, sys)
<1>0. PICK id : id = IdFor(k)
  OBVIOUS
<1>1. status = "running" /\ Live /\ UNCHANGED disk
  BY DEF Append, Live
<1>2. at \in Times /\ at \in Nat
  BY ClockType DEF Times, TypeOK, MemoryTypeOK
<1>3. id \in Ids /\ head[id].last \in Nat
  BY <1>0 DEF IdFor, TypeOK, MemoryTypeOK, Series
<1> HIDE DEF at
<1>4. /\ ids' = [ids EXCEPT ![k] = id]
      /\ head' = [head EXCEPT ![id] = Pushed(@, at)]
      /\ sealed' = sealed \cup SealedBy(id, head[id], at)
  BY <1>0 DEF Append, at
<1>5. head[id].last < at
  BY <1>0, <1>2, <1>3 DEF Rejected, at
<1>6. \A j \in Ids : \A t : t \in MemPts(j)' <=> t \in MemPts(j) \/ (j = id /\ t = at)
  BY <1>1, <1>2, <1>3, <1>4, PushPts DEF disk
<1>7. NoId \notin Ids /\ ids'[k] = id /\ \A l \in Keys : ids[l] = NoId \/ ids[l] \in Ids
  BY <1>4, ConstAssumption DEF Ids, TypeOK, MemoryTypeOK
<1>8. \A l \in Keys : l # k => ids'[l] = ids[l] /\ ids[l] # id
  <2>1. \A l \in Keys : ids[l] # NoId => ids[l] < nextId
    BY DEF IdsInv
  <2>2. CASE ids[k] # NoId
    BY <1>0, <1>4, <1>7, <2>2 DEF IdsInv, IdFor, TypeOK, MemoryTypeOK
  <2>3. CASE ids[k] = NoId
    <3>1. id = nextId /\ nextId \in Nat /\ nextId # NoId
      BY <1>0, <1>3, <1>7, <2>3 DEF IdFor, Ids
    <3> QED
      BY <1>4, <1>7, <2>1, <3>1 DEF Ids, TypeOK, MemoryTypeOK
  <2> QED
    BY <2>2, <2>3
<1>9. ids[k] = id \/ (ids[k] = NoId /\ MemPts(id) = {})
  <2>1. CASE ids[k] # NoId
    BY <1>0, <2>1 DEF IdFor
  <2>2. CASE ids[k] = NoId
    <3>1. id \notin Index
      BY <1>7, <1>8, <2>2, <1>3 DEF Index
    <3> QED
      BY <1>1, <1>3, <2>2, <3>1, NoPtsOutside
  <2> QED
    BY <2>1, <2>2
<1>10. ASSUME NEW u \in Times, <<k, u>> \in Held PROVE u < at
  <2>1. ids[k] # NoId /\ u \in MemPts(ids[k])
    BY <1>10, HeldIn
  <2>2. u \in MemPts(id)
    BY <1>9, <2>1
  <2>3. u <= head[id].last /\ u \in Nat
    BY <1>1, <1>3, <2>2, MemPtsLast DEF Times
  <2> QED
    BY <1>2, <1>3, <1>5, <2>3
<1>11. ASSUME NEW l \in Keys, NEW t \in Times
       PROVE <<l, t>> \in Held' <=> <<l, t>> \in Held \/ (l = k /\ t = at)
  <2>1. CASE l = k
    <3>1. <<k, t>> \in Held' <=> t \in MemPts(id)'
      BY <1>3, <1>7, HeldInNext
    <3>2. <<k, t>> \in Held <=> t \in MemPts(id)
      BY <1>3, <1>7, <1>9, HeldIn
    <3> QED
      BY <1>3, <1>6, <2>1, <3>1, <3>2
  <2>2. CASE l # k
    <3>1. PICK j : j = ids[l] /\ j = ids'[l]
      BY <1>8, <2>2
    <3>2. j # id /\ (j # NoId => j \in Ids)
      BY <1>7, <1>8, <2>2, <3>1
    <3>3. <<l, t>> \in Held' <=> j # NoId /\ t \in MemPts(j)'
      BY <3>1, HeldInNext
    <3>4. <<l, t>> \in Held <=> j # NoId /\ t \in MemPts(j)
      BY <3>1, HeldIn
    <3> QED
      BY <1>6, <2>2, <3>2, <3>3, <3>4
  <2> QED
    BY <2>1, <2>2
<1>12. Held \subseteq Keys \X Times /\ Held' \subseteq Keys \X Times
  BY DEF Held
<1>13. Held' = Held \cup {<<k, at>>}
  <2>1. ASSUME NEW p \in Keys \X Times PROVE p \in Held' <=> p \in Held \/ p = <<k, at>>
    <3>1. PICK l \in Keys, t \in Times : p = <<l, t>>
      OBVIOUS
    <3> QED
      BY <1>11, <3>1
  <2>2. <<k, at>> \in Keys \X Times
    BY <1>2
  <2> QED
    BY <1>12, <2>1, <2>2
<1> QED
  BY <1>2, <1>10, <1>13

\* StoreLog implements DurableSet: every step of the writer, of an open and of a crash is an
\* accepted point, a commit of exactly what is held, a fall back to exactly what is durable,
\* or nothing, for any keys, spans, chunks, times and numbers of commits.
THEOREM StoreKeepsPromise == Spec => KeepsPromise
<1> DEFINE AbsStep == Promise!AbsNext \/ (Answered' = Answered /\ Durable' = Durable)
<1>1. Init => Promise!AbsInit
  <2> SUFFICES ASSUME Init PROVE Promise!AbsInit
    OBVIOUS
  <2>1. Durable = {} /\ Answered = Durable
    BY DEF Init, Durable, Answered
  <2> QED
    BY <2>1 DEF Promise!AbsInit
<1>2. IndInv /\ [Next]_vars => [Promise!AbsNext]_(Promise!absVars)
  <2> SUFFICES ASSUME IndInv, [Next]_vars PROVE AbsStep
    BY DEF Promise!absVars
  <2> USE DEF IndInv
  <2>a. ASSUME Durable' = Answered, Answered' = Answered PROVE AbsStep
    BY <2>a DEF Promise!AbsNext, Promise!AbsCommit
  <2>b. ASSUME Answered' = Durable, Durable' = Durable PROVE AbsStep
    BY <2>b DEF Promise!AbsNext, Promise!AbsLose
  <2>c. UNCHANGED disk => Durable' = Durable
    BY DEF disk, Durable, DiskPts, LogPts
  <2> HIDE DEF AbsStep
  <2>1. CASE Open
    <3>1. Answered' = Durable' /\ UNCHANGED disk
      BY <2>1 DEF Open, Answered
    <3> QED
      BY <2>b, <2>c, <3>1
  <2>2. CASE ReplayPoint
    <3>1. Answered' = Durable' /\ UNCHANGED disk
      BY <2>2 DEF ReplayPoint, Answered
    <3> QED
      BY <2>b, <2>c, <3>1
  <2>3. ASSUME NEW sys \in Times, Opened(sys) PROVE AbsStep
    <3>1. Answered' = Held' /\ UNCHANGED disk
      BY <2>3 DEF Opened, Answered
    <3> QED
      BY <2>3, <2>b, <2>c, <3>1, OpenedHeld
  <2>4. ASSUME NEW sys \in Times, NEW k \in Keys, Append(k, sys) PROVE AbsStep
    <3>1. Answered = Held /\ Answered' = Held' /\ UNCHANGED disk
      BY <2>4 DEF Append, Answered
    <3>2. CASE Rejected(k, Max2(clock, sys))
      <4>1. UNCHANGED <<ids, head, sealed>>
        BY <2>4, <3>2 DEF Append
      <4>2. Held' = Held
        BY <3>1, <4>1 DEF Held, MemPts, disk
      <4> QED
        BY <2>c, <3>1, <4>2 DEF AbsStep
    <3>3. CASE ~Rejected(k, Max2(clock, sys))
      <4>1. \E t \in Times : /\ \A u \in Times : <<k, u>> \in Held => u < t
                             /\ Held' = Held \cup {<<k, t>>}
        BY <2>4, <3>3, AppendHeld
      <4> QED
        BY <2>c, <3>1, <4>1 DEF AbsStep, Promise!AbsNext, Promise!AbsAccept
    <3> QED
      BY <3>2, <3>3
  <2>5. ASSUME NEW sys \in Times, Sweep(sys) PROVE AbsStep
    <3>1. Answered = Held /\ Answered' = Held' /\ UNCHANGED disk /\ SweepAt(clock') /\ ids' = ids
      BY <2>5 DEF Sweep, Answered
    <3>2. Held' = Held
      BY <3>1, SweepHeld
    <3> QED
      BY <2>c, <3>1, <3>2 DEF AbsStep
  <2>6. ASSUME NEW n \in Ids, CommitInterval(n) PROVE AbsStep
    <3>1. /\ status = "running" /\ Answered = Held /\ Answered' = Held'
          /\ WriteInterval(RotationDue(n)) /\ sealed' = {} /\ UNCHANGED <<ids, head>>
      BY <2>6 DEF CommitInterval, Answered
    <3>2. Durable' = Held
      BY <3>1, CommitDurable
    <3>3. dChunks' = dChunks \cup sealed
      BY <3>1, CommitSeries
    <3>4. Held' = Held
      BY <3>1, <3>3, ChunkPtsIn DEF Held, MemPts
    <3> QED
      BY <2>a, <3>1, <3>2, <3>4
  <2>7. ASSUME NEW n \in Ids, CommitFails(n) PROVE AbsStep
    <3>1. status = "running" /\ Answered = Held /\ Answered' = Durable'
      BY <2>7 DEF CommitFails, Answered
    <3>2. CASE WriteInterval(RotationDue(n))
      BY <2>a, <3>1, <3>2, CommitDurable
    <3>3. CASE UNCHANGED disk
      BY <2>b, <2>c, <3>1, <3>3
    <3> QED
      BY <2>7, <3>2, <3>3 DEF CommitFails
  <2>8. CASE Close
    <3>1. status = "running" /\ Answered = Held /\ Answered' = Durable' /\ WriteInterval(Index)
      BY <2>8 DEF Close, Answered
    <3> QED
      BY <2>a, <3>1, CommitDurable
  <2>9. CASE Crash
    <3>1. Answered' = Durable' /\ UNCHANGED disk
      BY <2>9 DEF Crash, Answered
    <3> QED
      BY <2>b, <2>c, <3>1
  <2>10. CASE UNCHANGED vars
    <3>1. UNCHANGED <<disk, status, ids, head, sealed>>
      BY <2>10 DEF vars, batch
    <3>2. Held' = Held
      BY <3>1 DEF Held, MemPts, disk
    <3> QED
      BY <2>c, <3>1, <3>2 DEF AbsStep, Answered
  <2> QED
    BY <2>1, <2>2, <2>3, <2>4, <2>5, <2>6, <2>7, <2>8, <2>9, <2>10 DEF Next
<1> QED
  BY <1>1, <1>2, InvariantHolds, PTL DEF Spec, KeepsPromise, Promise!AbsSpec
===============================================================================
