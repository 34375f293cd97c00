----------------------------- MODULE HubProofs ------------------------------
(***************************************************************************)
(* What the hub's parts at its network side always keep, proved for every  *)
(* value of their constants: the registry under overlapping polls, edits   *)
(* and deletes; the push sockets under their timeouts; the summary feed    *)
(* under its builds; a token bucket's rate; the rounds of one system from  *)
(* connections and polls, which rests on the bucket; and the metrics table *)
(* under its pruning, with what its queries answer.  Each part has its     *)
(* inductive invariant, a lemma per action that disturbs it, and its       *)
(* theorem last.                                                           *)
(***************************************************************************)
EXTENDS HubRegistry, PushSession, SummaryFeed, RoundIntake, BucketRate, FleetHistory,
        FiniteSetTheorems, SequenceTheorems, TLAPS

-----------------------------------------------------------------------------
(* The registry.                                                           *)

RegInv ==
    /\ RegistryTypeOK /\ agent \in [up : BOOLEAN, cap : Capacities]
    /\ NoOrphanRecords

\* What a step owes.
RegStep == RegInv' /\ PolledAsListed /\ AcknowledgedStays /\ RowsBornFresh

\* A step may write fields of the row, and never whether it exists.
RowKept == sysrow' \in Rows /\ sysrow'.exists = sysrow.exists

\* A row's fields, set.
LEMMA RowSet ==
  ASSUME NEW r \in Rows
  PROVE  /\ \A v \in {None, "online", "offline", "unknown"} :
              [r EXCEPT !.status = v] \in Rows /\ [r EXCEPT !.status = v].exists = r.exists
         /\ \A v \in BOOLEAN : [r EXCEPT !.info = v] \in Rows /\ [r EXCEPT !.info = v].exists = r.exists
         /\ \A v \in BOOLEAN : [r EXCEPT !.polled = v] \in Rows /\ [r EXCEPT !.polled = v].exists = r.exists
         /\ \A v \in BOOLEAN : [r EXCEPT !.enabled = v] \in Rows /\ [r EXCEPT !.enabled = v].exists = r.exists
         /\ \A v \in Capacities \cup {None} :
              [r EXCEPT !.cap = v] \in Rows /\ [r EXCEPT !.cap = v].exists = r.exists
         /\ \A v \in {None, "default", "given", "hostname"} :
              [r EXCEPT !.name = v] \in Rows /\ [r EXCEPT !.name = v].exists = r.exists
<1>1. ASSUME NEW v \in {None, "online", "offline", "unknown"}
      PROVE  [r EXCEPT !.status = v] \in Rows /\ [r EXCEPT !.status = v].exists = r.exists
  BY <1>1 DEF Rows
<1>2. ASSUME NEW v \in BOOLEAN
      PROVE  [r EXCEPT !.info = v] \in Rows /\ [r EXCEPT !.info = v].exists = r.exists
  BY <1>2 DEF Rows
<1>3. ASSUME NEW v \in BOOLEAN
      PROVE  [r EXCEPT !.polled = v] \in Rows /\ [r EXCEPT !.polled = v].exists = r.exists
  BY <1>3 DEF Rows
<1>4. ASSUME NEW v \in BOOLEAN
      PROVE  [r EXCEPT !.enabled = v] \in Rows /\ [r EXCEPT !.enabled = v].exists = r.exists
  BY <1>4 DEF Rows
<1>5. ASSUME NEW v \in Capacities \cup {None}
      PROVE  [r EXCEPT !.cap = v] \in Rows /\ [r EXCEPT !.cap = v].exists = r.exists
  BY <1>5 DEF Rows
<1>6. ASSUME NEW v \in {None, "default", "given", "hostname"}
      PROVE  [r EXCEPT !.name = v] \in Rows /\ [r EXCEPT !.name = v].exists = r.exists
  BY <1>6 DEF Rows
<1> QED
  BY <1>1, <1>2, <1>3, <1>4, <1>5, <1>6

\* The updates of the registry write fields of a row that exists.
LEMMA RowWrites ==
  ASSUME sysrow \in Rows
  PROVE  /\ \A v \in {None, "online", "offline", "unknown"} :
              LET r == Updated([sysrow EXCEPT !.status = v]) IN r \in Rows /\ r.exists = sysrow.exists
         /\ LET r == Updated([sysrow EXCEPT !.info = TRUE]) IN r \in Rows /\ r.exists = sysrow.exists
         /\ \A v \in BOOLEAN :
              LET r == Updated([sysrow EXCEPT !.polled = v]) IN r \in Rows /\ r.exists = sysrow.exists
         /\ \A v \in BOOLEAN :
              LET r == Updated([sysrow EXCEPT !.enabled = v]) IN r \in Rows /\ r.exists = sysrow.exists
         /\ \A v \in Capacities \cup {None} :
              LET r == Updated([sysrow EXCEPT !.cap = v]) IN r \in Rows /\ r.exists = sysrow.exists
         /\ \A v \in {None, "default", "given", "hostname"} :
              LET r == Updated([sysrow EXCEPT !.name = v]) IN r \in Rows /\ r.exists = sysrow.exists
<1>1. \A q : (q \in Rows /\ q.exists = sysrow.exists)
               => Updated(q) \in Rows /\ Updated(q).exists = sysrow.exists
  BY DEF Updated
<1>2. [sysrow EXCEPT !.info = TRUE] \in Rows /\ [sysrow EXCEPT !.info = TRUE].exists = sysrow.exists
  BY RowSet, Zenon
<1> QED
  BY <1>1, <1>2, RowSet, Zenon

\* What is kept of a row.
LEMMA SeenIs ==
  ASSUME NEW r \in Rows
  PROVE  Seen(r) \in SeenRows /\ Seen(r).polled = Polled(r)
<1>1. \A a, b \in BOOLEAN, c \in Capacities \cup {None} :
         /\ [polled |-> a, info |-> b, cap |-> c] \in SeenRows
         /\ [polled |-> a, info |-> b, cap |-> c].polled = a
  BY DEF SeenRows
<1>2. r.info \in BOOLEAN /\ r.cap \in Capacities \cup {None} /\ r.exists \in BOOLEAN
      /\ r.enabled \in BOOLEAN /\ r.polled \in BOOLEAN
  BY DEF Rows
<1>3. Polled(r) \in BOOLEAN
  BY <1>2 DEF Polled
<1> QED
  BY <1>1, <1>2, <1>3, Zenon DEF Seen

\* The rows registered, and the one that is not.
LEMMA FreshRows ==
  /\ NoRow \in Rows /\ ~NoRow.exists
  /\ FreshRow \in Rows /\ FreshRow.exists
  /\ [FreshRow EXCEPT !.name = "given", !.polled = TRUE] \in Rows
<1> DEFINE R(e, n, i, c, s, p, b) ==
             [exists |-> e, name |-> n, info |-> i, cap |-> c, status |-> s, polled |-> p, enabled |-> b]
<1>1. \A e, i, p, b \in BOOLEAN, n \in {None, "default", "given", "hostname"},
         s \in {None, "online", "offline", "unknown"} :
           R(e, n, i, None, s, p, b) \in Rows
  BY DEF Rows
<1>2. PICK t, f \in BOOLEAN : t = TRUE /\ f = FALSE
  OBVIOUS
<1>3. NoRow = R(f, None, f, None, None, f, f) /\ FreshRow = R(t, "default", f, None, "unknown", f, t)
  BY <1>2, Zenon DEF NoRow, FreshRow
<1>4. R(f, None, f, None, None, f, f).exists = f /\ R(t, "default", f, None, "unknown", f, t).exists = t
  OBVIOUS
<1> HIDE DEF R
<1>5. NoRow \in Rows /\ FreshRow \in Rows
  BY <1>1, <1>3
<1>6. ~NoRow.exists /\ FreshRow.exists
  BY <1>2, <1>3, <1>4
<1>7. [FreshRow EXCEPT !.name = "given"] \in Rows
  BY <1>5, RowSet
<1>8. \A v \in BOOLEAN : [[FreshRow EXCEPT !.name = "given"] EXCEPT !.polled = v] \in Rows
  BY <1>7, RowSet
<1> QED
  BY <1>5, <1>6, <1>8, Zenon

\* What the poller, the connection, the fill, the PUT and the agent are.
TaskTypes ==
    /\ listed \in SeenRows /\ conn \in {"none", "leased", "plain"} /\ fill \in Fills
    /\ put \in Puts \cup {None} /\ agent \in [up : BOOLEAN, cap : Capacities]

\* A step that writes fields of the row, and no record, does what it owes.
LEMMA RowStep ==
  ASSUME RegInv, RowKept, TaskTypes', poll' \in [Polls -> PollStates], PolledAsListed,
         records' = records
  PROVE  RegStep
<1>1. RegInv'
  BY DEF RegInv, RegistryTypeOK, RowKept, TaskTypes, NoOrphanRecords
<1> QED
  BY <1>1 DEF RegStep, AcknowledgedStays, RowsBornFresh, RowKept

\* A poll that is not there, and one with its fields.
LEMMA PollRecords ==
  /\ \A v \in {"idle", "fetch", "store", "offline", "info", "cap", "alerts"}, i \in BOOLEAN,
        c \in Capacities \cup {None} :
        /\ [at |-> v, info |-> i, cap |-> c] \in PollStates
        /\ [at |-> v, info |-> i, cap |-> c].at = v
  /\ NoPoll \in PollStates /\ NoPoll.at = "idle" /\ NoFill \in Fills
  /\ \A v \in {"offline", "alerts"} : [NoPoll EXCEPT !.at = v] \in PollStates
  /\ \A c \in Capacities \cup {None} : [NoPoll EXCEPT !.at = "cap", !.cap = c] \in PollStates
<1>1. \A v \in {"idle", "fetch", "store", "offline", "info", "cap", "alerts"}, i \in BOOLEAN,
         c \in Capacities \cup {None} :
         /\ [at |-> v, info |-> i, cap |-> c] \in PollStates
         /\ [at |-> v, info |-> i, cap |-> c].at = v
  BY DEF PollStates
<1>2. PICK f \in BOOLEAN : f = FALSE
  OBVIOUS
<1>3. /\ NoPoll = [at |-> "idle", info |-> f, cap |-> None]
      /\ NoFill = [at |-> "idle", info |-> f, cap |-> None, unnamed |-> f]
  BY <1>2 DEF NoPoll, NoFill
<1>4. [at |-> "idle", info |-> f, cap |-> None, unnamed |-> f] \in Fills
  BY DEF Fills
<1>5. ASSUME NEW v \in {"offline", "alerts"}
      PROVE  [NoPoll EXCEPT !.at = v] \in PollStates
  <2>1. [NoPoll EXCEPT !.at = v] = [at |-> v, info |-> f, cap |-> None]
    BY <1>3
  <2> QED
    BY <1>1, <2>1
<1>6. ASSUME NEW c \in Capacities \cup {None}
      PROVE  [NoPoll EXCEPT !.at = "cap", !.cap = c] \in PollStates
  <2>1. [NoPoll EXCEPT !.at = "cap", !.cap = c] = [at |-> "cap", info |-> f, cap |-> c]
    <3>1. [NoPoll EXCEPT !.at = "cap"] = [at |-> "cap", info |-> f, cap |-> None]
      BY <1>3
    <3>2. [[at |-> "cap", info |-> f, cap |-> None] EXCEPT !.cap = c] = [at |-> "cap", info |-> f, cap |-> c]
      OBVIOUS
    <3> QED
      BY <3>1, <3>2, Zenon
  <2> QED
    BY <1>1, <2>1
<1> QED
  BY <1>1, <1>3, <1>4, <1>5, <1>6

\* A poll that goes on, ends, or starts for a system listed as polled.
LEMMA PollSet ==
  ASSUME RegInv, NEW p \in Polls, NEW m \in PollStates, poll' = [poll EXCEPT ![p] = m],
         m.at # "idle" /\ poll[p].at = "idle" => listed'.polled
  PROVE  poll' \in [Polls -> PollStates] /\ PolledAsListed
<1>1. poll \in [Polls -> PollStates]
  BY DEF RegInv, RegistryTypeOK
<1>2. poll' \in [Polls -> PollStates] /\ poll'[p] = m
  BY <1>1
<1>3. \A q \in Polls : q # p => poll'[q] = poll[q]
  BY <1>1
<1>4. ASSUME NEW q \in Polls, poll[q].at = "idle", poll'[q].at # "idle"
      PROVE  listed'.polled
  BY <1>2, <1>3, <1>4
<1> QED
  BY <1>2, <1>4 DEF PolledAsListed

LEMMA PollKept ==
  ASSUME RegInv, poll' = poll
  PROVE  poll' \in [Polls -> PollStates] /\ PolledAsListed
BY DEF RegInv, RegistryTypeOK, PolledAsListed

\* The poller's steps.
LEMMA PollerSteps ==
  ASSUME RegInv, NEW p \in Polls,
         PollTick(p) \/ PollTickBlind(p) \/ PollSteps(p) \/ StoreAnswerFails(p)
  PROVE  RegStep
<1>0. /\ sysrow \in Rows /\ TaskTypes /\ poll \in [Polls -> PollStates]
      /\ listed \in SeenRows /\ agent \in [up : BOOLEAN, cap : Capacities]
  BY DEF RegInv, RegistryTypeOK, TaskTypes
<1>1. /\ poll[p] \in PollStates /\ poll[p].info \in BOOLEAN /\ poll[p].cap \in Capacities \cup {None}
      /\ DOMAIN poll = Polls
  BY <1>0 DEF PollStates
<1>2. ASSUME NEW r \in SeenRows
      PROVE  PollOf(r) \in PollStates /\ r.polled \in BOOLEAN
  <2>1. r.info \in BOOLEAN /\ r.cap \in Capacities \cup {None} /\ r.polled \in BOOLEAN
    BY DEF SeenRows
  <2> QED
    BY <2>1, PollRecords DEF PollOf
<1>3. CASE PollTick(p)
  <2>1. /\ listed' = Seen(sysrow) /\ UNCHANGED <<sysrow, conn, fill, put, records, agent, flaps, edits>>
        /\ poll' = IF Polled(sysrow) THEN [poll EXCEPT ![p] = PollOf(Seen(sysrow))] ELSE poll
    BY <1>3 DEF PollTick
  <2>2. Seen(sysrow) \in SeenRows /\ Seen(sysrow).polled = Polled(sysrow)
    BY <1>0, SeenIs
  <2>3. poll' \in [Polls -> PollStates] /\ PolledAsListed
    <3>1. CASE Polled(sysrow)
      <4>1. poll' = [poll EXCEPT ![p] = PollOf(Seen(sysrow))] /\ listed'.polled
        BY <2>1, <2>2, <3>1
      <4> QED
        BY <1>2, <2>2, <4>1, PollSet
    <3>2. CASE ~Polled(sysrow)
      BY <2>1, <3>2, PollKept
    <3> QED
      BY <3>1, <3>2
  <2>4. TaskTypes'
    BY <1>0, <2>1, <2>2 DEF TaskTypes
  <2> QED
    BY <1>0, <2>1, <2>3, <2>4, RowStep DEF RowKept
<1>4. CASE PollTickBlind(p)
  <2>1. /\ listed.polled /\ poll' = [poll EXCEPT ![p] = PollOf(listed)]
        /\ UNCHANGED <<sysrow, listed, conn, fill, put, records, agent, edits>>
    BY <1>4 DEF PollTickBlind
  <2>2. poll' \in [Polls -> PollStates] /\ PolledAsListed
    BY <1>0, <1>2, <2>1, PollSet
  <2>3. TaskTypes'
    BY <1>0, <2>1 DEF TaskTypes
  <2> QED
    BY <1>0, <2>1, <2>2, <2>3, RowStep DEF RowKept
<1>5. CASE Fetch(p)
  <2>1. PICK c : c = Refreshed(poll[p].cap, agent.cap)
    OBVIOUS
  <2>2. c \in Capacities \cup {None}
    BY <1>0, <2>1 DEF Refreshed
  <2>3. PICK m : m = IF agent.up THEN [at |-> "store", info |-> poll[p].info, cap |-> c]
                     ELSE [NoPoll EXCEPT !.at = "offline"]
    OBVIOUS
  <2>4. m \in PollStates
    BY <1>1, <2>2, <2>3, PollRecords
  <2>5. /\ poll[p].at = "fetch" /\ poll' = [poll EXCEPT ![p] = m]
        /\ UNCHANGED <<sysrow, listed, conn, fill, put, records, agent, flaps, edits>>
    BY <1>5, <2>1, <2>3, Zenon DEF Fetch
  <2>6. poll' \in [Polls -> PollStates] /\ PolledAsListed
    BY <2>4, <2>5, PollSet
  <2>7. TaskTypes'
    BY <1>0, <2>5 DEF TaskTypes
  <2> QED
    BY <1>0, <2>5, <2>6, <2>7, RowStep DEF RowKept
<1>6. CASE MarkOffline(p)
  <2>1. /\ poll' = [poll EXCEPT ![p] = NoPoll] /\ sysrow' = Updated([sysrow EXCEPT !.status = "offline"])
        /\ UNCHANGED <<listed, conn, fill, put, records, agent, flaps, edits>>
    BY <1>6 DEF MarkOffline
  <2>2. RowKept
    BY <1>0, <2>1, RowWrites DEF RowKept
  <2>3. poll' \in [Polls -> PollStates] /\ PolledAsListed
    BY <2>1, PollSet, PollRecords
  <2>4. TaskTypes'
    BY <1>0, <2>1 DEF TaskTypes
  <2> QED
    BY <2>1, <2>2, <2>3, <2>4, RowStep
<1>7. CASE StoreAnswer(p)
  <2>1. PICK m : m = [poll[p] EXCEPT !.at = "info"]
    OBVIOUS
  <2>2. /\ poll[p].at = "store" /\ UNCHANGED <<listed, conn, fill, put, records, agent, flaps, edits>>
        /\ \/ /\ sysrow' = [sysrow EXCEPT !.status = "online"]
              /\ poll' = [poll EXCEPT ![p].at = "info"]
           \/ sysrow' = sysrow /\ poll' = [poll EXCEPT ![p] = NoPoll]
    BY <1>7 DEF StoreAnswer
  <2>3. RowKept
    <3>1. CASE sysrow' = [sysrow EXCEPT !.status = "online"]
      BY <1>0, <3>1, RowSet DEF RowKept
    <3>2. CASE sysrow' = sysrow
      BY <1>0, <3>2 DEF RowKept
    <3> QED
      BY <2>2, <3>1, <3>2, Zenon
  <2>4. m \in PollStates
    BY <1>1, <2>1 DEF PollStates
  <2>5. poll' \in [Polls -> PollStates] /\ PolledAsListed
    <3>1. CASE poll' = [poll EXCEPT ![p].at = "info"]
      <4>1. poll' = [poll EXCEPT ![p] = m]
        BY <1>1, <2>1, <3>1
      <4> QED
        BY <2>2, <2>4, <4>1, PollSet
    <3>2. CASE poll' = [poll EXCEPT ![p] = NoPoll]
      BY <3>2, PollSet, PollRecords
    <3> QED
      BY <2>2, <3>1, <3>2
  <2>6. TaskTypes'
    BY <1>0, <2>2 DEF TaskTypes
  <2> QED
    BY <2>2, <2>3, <2>5, <2>6, RowStep
<1>8. CASE StoreAnswerFails(p)
  <2>1. /\ poll[p].at = "store" /\ poll' = [poll EXCEPT ![p] = [NoPoll EXCEPT !.at = "alerts"]]
        /\ UNCHANGED <<sysrow, listed, conn, fill, put, records, agent, edits>>
    BY <1>8 DEF StoreAnswerFails
  <2>2. [NoPoll EXCEPT !.at = "alerts"] \in PollStates
    BY PollRecords
  <2>3. poll' \in [Polls -> PollStates] /\ PolledAsListed
    BY <2>1, <2>2, PollSet
  <2>4. TaskTypes'
    BY <1>0, <2>1 DEF TaskTypes
  <2> QED
    BY <1>0, <2>1, <2>3, <2>4, RowStep DEF RowKept
<1>9. CASE RecordInfo(p)
  <2>1. PICK m : m = [NoPoll EXCEPT !.at = "cap", !.cap = poll[p].cap]
    OBVIOUS
  <2>2. /\ poll[p].at = "info" /\ poll' = [poll EXCEPT ![p] = m]
        /\ sysrow' = IF poll[p].info THEN sysrow ELSE Updated([sysrow EXCEPT !.info = TRUE])
        /\ UNCHANGED <<listed, conn, fill, put, records, agent, flaps, edits>>
    BY <1>9, <2>1 DEF RecordInfo
  <2>3. m \in PollStates
    BY <1>1, <2>1, PollRecords
  <2>4. RowKept
    BY <1>0, <2>2, RowWrites, Zenon DEF RowKept
  <2>5. poll' \in [Polls -> PollStates] /\ PolledAsListed
    BY <2>2, <2>3, PollSet
  <2>6. TaskTypes'
    BY <1>0, <2>2 DEF TaskTypes
  <2> QED
    BY <2>2, <2>4, <2>5, <2>6, RowStep
<1>10. CASE RefreshCapacity(p)
  <2>1. /\ poll[p].at = "cap" /\ poll' = [poll EXCEPT ![p] = [NoPoll EXCEPT !.at = "alerts"]]
        /\ \/ sysrow' = Updated([sysrow EXCEPT !.cap = poll[p].cap])
           \/ sysrow' = sysrow
        /\ UNCHANGED <<listed, conn, fill, put, records, agent, flaps, edits>>
    BY <1>10 DEF RefreshCapacity
  <2>2. RowKept
    BY <1>0, <1>1, <2>1, RowWrites DEF RowKept
  <2>3. [NoPoll EXCEPT !.at = "alerts"] \in PollStates
    BY PollRecords
  <2>4. poll' \in [Polls -> PollStates] /\ PolledAsListed
    BY <2>1, <2>3, PollSet
  <2>5. TaskTypes'
    BY <1>0, <2>1 DEF TaskTypes
  <2> QED
    BY <2>1, <2>2, <2>4, <2>5, RowStep
<1>11. CASE StoreAlerts(p)
  <2>1. /\ poll' = [poll EXCEPT ![p] = NoPoll]
        /\ records' = IF agent.up /\ sysrow.exists THEN Inserted(records) ELSE records
        /\ UNCHANGED <<sysrow, listed, conn, fill, put, agent, flaps, edits>>
    BY <1>11 DEF StoreAlerts
  <2>2. /\ records' \in {"absent", "active", "acknowledged"} /\ AcknowledgedStays
        /\ ~sysrow.exists => records' = "absent"
    BY <2>1 DEF RegInv, RegistryTypeOK, Inserted, AcknowledgedStays, NoOrphanRecords
  <2>3. poll' \in [Polls -> PollStates] /\ PolledAsListed
    BY <2>1, PollSet, PollRecords
  <2>4. RegInv'
    BY <1>0, <2>1, <2>2, <2>3 DEF RegInv, RegistryTypeOK, TaskTypes, NoOrphanRecords
  <2> QED
    BY <2>1, <2>2, <2>3, <2>4 DEF RegStep, RowsBornFresh
<1> QED
  BY <1>3, <1>4, <1>5, <1>6, <1>7, <1>8, <1>9, <1>10, <1>11 DEF PollSteps

\* The steps of a push connection and its fill, of the operator, and of the agent.
LEMMA OtherSteps ==
  ASSUME RegInv,
         PushOpens \/ PushStores \/ FillSteps \/ PushEnds \/ RegisterAgain \/ PutFinds \/ PutWrites
           \/ DeleteRow \/ Acknowledge \/ AgentChanges \/ UNCHANGED regVars
  PROVE  RegStep
<1>0. /\ sysrow \in Rows /\ TaskTypes /\ listed \in SeenRows /\ fill \in Fills
      /\ conn \in {"none", "leased", "plain"} /\ put \in Puts \cup {None}
      /\ agent \in [up : BOOLEAN, cap : Capacities]
  BY DEF RegInv, RegistryTypeOK, TaskTypes
<1>1. CASE PushOpens
  <2>1. /\ conn' \in {"leased", "plain"}
        /\ UNCHANGED <<sysrow, listed, poll, fill, put, records, agent, flaps>>
    BY <1>1 DEF PushOpens
  <2>2. TaskTypes'
    BY <1>0, <2>1 DEF TaskTypes
  <2> QED
    BY <1>0, <2>1, <2>2, PollKept, RowStep DEF RowKept
<1>2. CASE PushStores
  <2>1. /\ sysrow' = [sysrow EXCEPT !.status = "online"]
        /\ UNCHANGED <<listed, poll, conn, put, records, agent, flaps, edits>>
    BY <1>2 DEF PushStores
  <2>2. PICK c \in {agent.cap, None} : fill' = [NoFill EXCEPT !.at = "read", !.cap = c]
    BY <1>2 DEF PushStores
  <2>3. c \in Capacities \cup {None} /\ NoFill \in Fills
    BY <1>0, PollRecords
  <2>4. fill' \in Fills
    BY <2>2, <2>3 DEF Fills
  <2>5. RowKept
    BY <1>0, <2>1, RowSet DEF RowKept
  <2>6. TaskTypes'
    BY <1>0, <2>1, <2>4 DEF TaskTypes
  <2> QED
    BY <2>1, <2>5, <2>6, PollKept, RowStep
<1>3. CASE FillRead
  <2>1. UNCHANGED <<sysrow, listed, poll, conn, put, records, agent, flaps, edits>>
    BY <1>3 DEF FillRead
  <2>2. PICK i, c, u : /\ i = sysrow.info /\ c = Refreshed(sysrow.cap, fill.cap)
                       /\ u = (sysrow.name = "default")
    OBVIOUS
  <2>3. fill' = NoFill \/ fill' = [at |-> "info", info |-> i, cap |-> c, unnamed |-> u]
    BY <1>3, <2>2, Zenon DEF FillRead
  <2>4. i \in BOOLEAN /\ c \in Capacities \cup {None}
    BY <1>0, <2>2 DEF Rows, Fills, Refreshed
  <2>5. u \in BOOLEAN
    BY <2>2
  <2>6. [at |-> "info", info |-> i, cap |-> c, unnamed |-> u] \in Fills
    BY <2>4, <2>5 DEF Fills
  <2>7. fill' \in Fills
    BY <2>3, <2>6, PollRecords, Zenon
  <2>8. TaskTypes'
    BY <1>0, <2>1, <2>7 DEF TaskTypes
  <2> QED
    BY <1>0, <2>1, <2>8, PollKept, RowStep DEF RowKept
<1>4. CASE FillInfo
  <2>1. /\ fill' = [fill EXCEPT !.at = "cap", !.info = FALSE]
        /\ UNCHANGED <<listed, poll, conn, put, records, agent, flaps, edits>>
        /\ sysrow' = IF fill.info THEN sysrow ELSE Updated([sysrow EXCEPT !.info = TRUE])
    BY <1>4 DEF FillInfo
  <2>2. fill' \in Fills
    BY <1>0, <2>1 DEF Fills
  <2>3. RowKept
    BY <1>0, <2>1, RowWrites, Zenon DEF RowKept
  <2>4. TaskTypes'
    BY <1>0, <2>1, <2>2 DEF TaskTypes
  <2> QED
    BY <2>1, <2>3, <2>4, PollKept, RowStep
<1>5. CASE FillCapacity
  <2>1. /\ fill' = [fill EXCEPT !.at = "name", !.cap = None]
        /\ UNCHANGED <<listed, poll, conn, put, records, agent, flaps, edits>>
        /\ sysrow' = Updated([sysrow EXCEPT !.cap = fill.cap]) \/ sysrow' = sysrow
    BY <1>5 DEF FillCapacity
  <2>2. fill' \in Fills /\ fill.cap \in Capacities \cup {None}
    BY <1>0, <2>1 DEF Fills
  <2>3. RowKept
    BY <1>0, <2>1, <2>2, RowWrites DEF RowKept
  <2>4. TaskTypes'
    BY <1>0, <2>1, <2>2 DEF TaskTypes
  <2> QED
    BY <2>1, <2>3, <2>4, PollKept, RowStep
<1>6. CASE FillName
  <2>1. /\ fill' = NoFill /\ UNCHANGED <<listed, poll, conn, put, records, agent, flaps, edits>>
        /\ \/ sysrow' = Updated([sysrow EXCEPT !.name = "hostname"])
           \/ sysrow' = sysrow
    BY <1>6 DEF FillName
  <2>2. fill' \in Fills
    BY <2>1, PollRecords
  <2>3. RowKept
    BY <1>0, <2>1, RowWrites DEF RowKept
  <2>4. TaskTypes'
    BY <1>0, <2>1, <2>2 DEF TaskTypes
  <2> QED
    BY <2>1, <2>3, <2>4, PollKept, RowStep
<1>7. CASE PushEnds
  <2>1. /\ conn' = "none" /\ UNCHANGED <<listed, poll, fill, put, records, agent, flaps, edits>>
        /\ \/ sysrow' = Updated([sysrow EXCEPT !.status = "offline"])
           \/ sysrow' = sysrow
    BY <1>7 DEF PushEnds
  <2>2. RowKept
    BY <1>0, <2>1, RowWrites DEF RowKept
  <2>3. TaskTypes'
    BY <1>0, <2>1 DEF TaskTypes
  <2> QED
    BY <2>1, <2>2, <2>3, PollKept, RowStep
<1>8. CASE RegisterAgain
  <2>1. /\ ~sysrow.exists /\ sysrow' = FreshRow
        /\ UNCHANGED <<listed, poll, conn, fill, put, records, agent, flaps, edits>>
    BY <1>8 DEF RegisterAgain
  <2>2. sysrow' \in Rows /\ sysrow'.exists
    BY <2>1, FreshRows
  <2>3. RegInv'
    BY <2>1, <2>2 DEF RegInv, RegistryTypeOK, NoOrphanRecords
  <2> QED
    BY <2>1, <2>3, PollKept DEF RegStep, AcknowledgedStays, RowsBornFresh
<1>9. CASE PutFinds
  <2>1. put' \in Puts /\ UNCHANGED <<sysrow, listed, poll, conn, fill, records, agent, flaps>>
    BY <1>9 DEF PutFinds
  <2>2. TaskTypes'
    BY <1>0, <2>1 DEF TaskTypes
  <2> QED
    BY <1>0, <2>1, <2>2, PollKept, RowStep DEF RowKept
<1>10. CASE PutWrites
  <2>0. PICK t \in BOOLEAN, f \in BOOLEAN : t = TRUE /\ f = FALSE
    OBVIOUS
  <2>1. PICK a, b, c, d, e : /\ a = [sysrow EXCEPT !.name = "given"]
                             /\ b = [sysrow EXCEPT !.polled = t] /\ c = [sysrow EXCEPT !.polled = f]
                             /\ d = [sysrow EXCEPT !.enabled = f] /\ e = [sysrow EXCEPT !.enabled = t]
    OBVIOUS
  <2>2. /\ put # None /\ put' = None /\ UNCHANGED <<listed, poll, conn, fill, records, agent, flaps, edits>>
        /\ sysrow' = Updated(CASE put = "name" -> a [] put = "url" -> b [] put = "sentinel" -> c
                               [] put = "disable" -> d [] put = "enable" -> e)
    BY <1>10, <2>0, <2>1, Zenon DEF PutWrites
  <2>3. PICK r : /\ r = CASE put = "name" -> a [] put = "url" -> b [] put = "sentinel" -> c
                          [] put = "disable" -> d [] put = "enable" -> e
                 /\ sysrow' = Updated(r)
    BY <2>2, Zenon
  <2>4. put \in {"name", "url", "sentinel", "disable", "enable"}
    BY <1>0, <2>2 DEF Puts
  <2>5. r \in {a, b, c, d, e}
    BY <2>3, <2>4
  <2>6. \A x \in {a, b, c, d, e} : Updated(x) \in Rows /\ Updated(x).exists = sysrow.exists
    <3>1. Updated(a) \in Rows /\ Updated(a).exists = sysrow.exists
      BY <1>0, <2>1, RowWrites, Zenon
    <3>2. /\ Updated(b) \in Rows /\ Updated(b).exists = sysrow.exists
          /\ Updated(c) \in Rows /\ Updated(c).exists = sysrow.exists
      BY <1>0, <2>1, RowWrites, Zenon
    <3>3. /\ Updated(d) \in Rows /\ Updated(d).exists = sysrow.exists
          /\ Updated(e) \in Rows /\ Updated(e).exists = sysrow.exists
      BY <1>0, <2>1, RowWrites, Zenon
    <3> QED
      BY <3>1, <3>2, <3>3, Zenon
  <2>7. RowKept
    BY <2>3, <2>5, <2>6 DEF RowKept
  <2>8. TaskTypes'
    BY <1>0, <2>2 DEF TaskTypes
  <2> QED
    BY <2>2, <2>7, <2>8, PollKept, RowStep
<1>11. CASE DeleteRow
  <2>1. /\ sysrow' = NoRow /\ records' = "absent"
        /\ UNCHANGED <<listed, poll, conn, fill, put, agent, flaps>>
    BY <1>11 DEF DeleteRow
  <2>2. sysrow' \in Rows /\ ~sysrow'.exists
    BY <2>1, FreshRows
  <2>3. RegInv'
    BY <2>1, <2>2 DEF RegInv, RegistryTypeOK, NoOrphanRecords
  <2> QED
    BY <2>1, <2>2, <2>3, PollKept DEF RegStep, AcknowledgedStays, RowsBornFresh
<1>12. CASE Acknowledge
  <2>1. /\ records = "active" /\ records' = "acknowledged"
        /\ UNCHANGED <<sysrow, listed, poll, conn, fill, put, agent, flaps, edits>>
    BY <1>12 DEF Acknowledge
  <2>2. RegInv'
    BY <2>1 DEF RegInv, RegistryTypeOK, NoOrphanRecords
  <2> QED
    BY <2>1, <2>2, PollKept DEF RegStep, AcknowledgedStays, RowsBornFresh
<1>13. CASE AgentChanges
  <2>1. /\ agent' \in [up : BOOLEAN, cap : Capacities]
        /\ UNCHANGED <<sysrow, listed, poll, conn, fill, put, records, edits>>
    BY <1>13 DEF AgentChanges
  <2>2. TaskTypes'
    BY <1>0, <2>1 DEF TaskTypes
  <2> QED
    BY <1>0, <2>1, <2>2, PollKept, RowStep DEF RowKept
<1>14. CASE UNCHANGED regVars
  <2>1. UNCHANGED <<sysrow, listed, poll, conn, fill, put, records, agent>>
    BY <1>14 DEF regVars
  <2>2. TaskTypes'
    BY <1>0, <2>1 DEF TaskTypes
  <2> QED
    BY <1>0, <2>1, <2>2, PollKept, RowStep DEF RowKept
<1> QED
  BY <1>1, <1>2, <1>3, <1>4, <1>5, <1>6, <1>7, <1>8, <1>9, <1>10, <1>11, <1>12, <1>13, <1>14
     DEF FillSteps

\* Nothing is polled or filled yet.
LEMMA RegInitially == RegistryInit => RegInv
<1> SUFFICES ASSUME RegistryInit
             PROVE  RegInv
  OBVIOUS
<1>1. listed \in SeenRows
  BY FreshRows, SeenIs DEF RegistryInit
<1>2. poll \in [Polls -> PollStates] /\ fill \in Fills
  BY PollRecords DEF RegistryInit
<1>3. sysrow \in Rows
  BY FreshRows DEF RegistryInit
<1>4. \A u \in {TRUE} : u \in BOOLEAN
  OBVIOUS
<1>5. agent \in [up : BOOLEAN, cap : Capacities]
  BY <1>4 DEF RegistryInit
<1> QED
  BY <1>1, <1>2, <1>3, <1>5 DEF RegistryInit, RegInv, RegistryTypeOK, NoOrphanRecords

\* For any overlap of polls, pushes, PUT and DELETE: nothing is polled that the last read did not
\* show so, no alert record without a row, no acknowledgement undone, and no part of a deleted
\* row brought back.
THEOREM RegistryAlwaysKeeps == RegistrySpec => RegistryKeeps
<1>1. RegInv' => (RegistryTypeOK /\ NoOrphanRecords)'
  BY DEF RegInv
<1>2. RegInv /\ [RegistryNext]_regVars
        => /\ RegInv'
           /\ [(RegistryTypeOK /\ NoOrphanRecords)' /\ PolledAsListed /\ AcknowledgedStays
               /\ RowsBornFresh]_regVars
  <2>1. RegInv /\ [RegistryNext]_regVars => RegStep
    BY PollerSteps, OtherSteps DEF RegistryNext
  <2> QED
    BY <1>1, <2>1 DEF RegStep
<1> QED
  BY <1>2, RegInitially, PTL DEF RegistrySpec, RegistryKeeps

-----------------------------------------------------------------------------
(* The push sockets.                                                       *)

Sessions == [at : Places, wait : Nat, token : BOOLEAN, answer : Answers \cup {"none"},
             lease : BOOLEAN, held : 0..OversizeLinger]

\* The answers a client without the token may get.
Public == {"none", "expected auth message", "invalid token", "handshake timeout"}

\* A socket's part of the invariant, under an authentication a: it has no answer before one is
\* given, and none but auth_ok once it receives; whoever got past the token has it; a lease goes
\* with auth_ok; a linger's ticks add up.
Sound(x, a) ==
    /\ x.at \in {"none", "handshake", "registering"} => x.answer = "none"
    /\ x.at \in {"receiving", "ingesting", "lingering", "ending"} => x.answer = "auth_ok"
    /\ x.at = "registering" \/ x.answer \notin Public => (a = "required" => x.token)
    /\ x.lease => x.answer = "auth_ok" /\ x.at # "over"
    /\ x.at \notin {"lingering", "ending", "over"} => x.held = 0
    /\ x.at = "lingering" => x.held + x.wait = OversizeLinger

SessInv ==
    /\ auth \in {"open", "required"} /\ known \in {"absent", "push", "polled", "mail"}
    /\ sess \in [Sockets -> Sessions] /\ outlived \subseteq Sockets /\ silent \subseteq Sockets
    /\ warnAge \in 0..WarningEvery
    /\ \A s \in Sockets : Sound(sess[s], auth)
    /\ OnlyOutlivedFeedMail

\* The invariant gives what a socket is to keep.
LEMMA SessInvGives ==
  SessInv => SessionTypeOK /\ NoProbing /\ LeasesReturned /\ OnlyOutlivedFeedMail
<1> SUFFICES ASSUME SessInv
             PROVE  SessionTypeOK /\ NoProbing /\ LeasesReturned /\ OnlyOutlivedFeedMail
  OBVIOUS
<1>1. SessionTypeOK
  BY DEF SessInv, SessionTypeOK, Sessions
<1>2. NoProbing
  BY DEF SessInv, NoProbing, Sound, Public, Sessions
<1>3. LeasesReturned
  BY DEF SessInv, LeasesReturned, Sound
<1> QED
  BY <1>1, <1>2, <1>3 DEF SessInv

\* A socket s that a step leaves as m is let in by it only to a row that is a push or a polled one.
AdmittedTo(s, m) ==
    m.answer = "auth_ok" /\ m.at # "over"
      => (sess[s].answer = "auth_ok" /\ sess[s].at # "over") \/ known' \notin {"mail", "absent"}

\* A step of one socket keeps the invariant when the socket it leaves is sound.
LEMMA SocketMoves ==
  ASSUME SessInv, NEW s \in Sockets, NEW m \in Sessions,
         sess' = [sess EXCEPT ![s] = m], auth' = auth, UNCHANGED silent, warnAge' \in 0..WarningEvery,
         known' = known \/ (known = "absent" /\ known' = "push"),
         outlived' = outlived \/ (outlived' = outlived \ {s} /\ m.at = "over"),
         Sound(m, auth), AdmittedTo(s, m),
         sess[s].at = "lingering" /\ m.at = "ending" => sess[s].held = OversizeLinger
  PROVE  SessInv' /\ OversizeHeld
<1>1. \A r \in Sockets : sess'[r] = IF r = s THEN m ELSE sess[r]
  BY DEF SessInv
<1>2. \A r \in Sockets : Sound(sess'[r], auth')
  BY <1>1 DEF SessInv
<1>3. ASSUME known' \in {"mail", "absent"}, NEW r \in Sockets,
             sess'[r].answer = "auth_ok", sess'[r].at # "over"
      PROVE  r \in outlived'
  <2>1. known = known' /\ LetIn \subseteq outlived
    BY <1>3 DEF SessInv, OnlyOutlivedFeedMail
  <2>2. CASE r # s
    BY <1>1, <1>3, <2>1, <2>2 DEF LetIn
  <2>3. CASE r = s
    <3>1. m.answer = "auth_ok" /\ m.at # "over"
      BY <1>1, <1>3, <2>3
    <3>2. sess[s].answer = "auth_ok" /\ sess[s].at # "over" /\ outlived' = outlived
      BY <1>3, <3>1 DEF AdmittedTo
    <3> QED
      BY <2>1, <2>3, <3>2 DEF LetIn
  <2> QED
    BY <2>2, <2>3
<1>4. OnlyOutlivedFeedMail'
  BY <1>3 DEF OnlyOutlivedFeedMail, LetIn
<1>5. SessInv'
  <2>1. sess' \in [Sockets -> Sessions]
    BY DEF SessInv
  <2>2. outlived' \subseteq Sockets /\ known' \in {"absent", "push", "polled", "mail"}
    BY DEF SessInv
  <2> QED
    BY <1>2, <1>4, <2>1, <2>2 DEF SessInv
<1>6. OversizeHeld
  BY <1>1 DEF OversizeHeld
<1> QED
  BY <1>5, <1>6

\* The socket before a step, under a name of its own.
LEMMA SocketIs ==
  ASSUME SessInv, NEW s \in Sockets
  PROVE  /\ sess[s] \in Sessions /\ Sound(sess[s], auth)
         /\ auth \in {"open", "required"} /\ known \in {"absent", "push", "polled", "mail"}
         /\ warnAge \in 0..WarningEvery /\ DOMAIN sess = Sockets
  BY DEF SessInv

\* The handshake's steps: whatever is answered, the token was judged before the id.
LEMMA HandshakeSteps ==
  ASSUME SessInv, NEW s \in Sockets,
         Upgrade(s) \/ FirstText(s) \/ FirstOther(s) \/ HandshakeTimesOut(s) \/ Register(s)
           \/ RegisterFails(s)
  PROVE  SessInv' /\ OversizeHeld
<1> USE SessionAssumption
<1>1. PICK x : /\ x = sess[s] /\ x \in Sessions /\ Sound(x, auth)
               /\ auth \in {"open", "required"} /\ known \in {"absent", "push", "polled", "mail"}
               /\ warnAge \in 0..WarningEvery /\ DOMAIN sess = Sockets
  BY SocketIs
<1>2. CASE FirstOther(s)
  <2>1. PICK m : m = [x EXCEPT !.at = "over", !.wait = 0]
    OBVIOUS
  <2>2. /\ x.at = "handshake" /\ UNCHANGED <<auth, known, outlived, silent, warnAge>>
        /\ sess' = [sess EXCEPT ![s] = m]
    BY <1>1, <1>2, <2>1 DEF FirstOther
  <2>3. /\ m.at = "over" /\ m.token = x.token
        /\ m.answer = x.answer /\ m.lease = x.lease /\ m.held = x.held
        /\ m \in Sessions
    BY <1>1, <2>1 DEF Sessions, Places, Answers
  <2>4. Sound(m, auth)
    BY <1>1, <2>2, <2>3 DEF Sound, Sessions, Public
  <2> QED
    BY <1>1, <2>2, <2>3, <2>4, SocketMoves DEF AdmittedTo
<1>3. CASE HandshakeTimesOut(s)
  <2>1. PICK m : m = [x EXCEPT !.at = "answering", !.wait = 0, !.answer = "handshake timeout"]
    OBVIOUS
  <2>2. /\ x.at = "handshake" /\ UNCHANGED <<auth, known, outlived, silent, warnAge>>
        /\ sess' = [sess EXCEPT ![s] = m]
    BY <1>1, <1>3, <2>1 DEF HandshakeTimesOut, Answering
  <2>3. /\ m.at = "answering" /\ m.wait = 0 /\ m.token = x.token
        /\ m.answer = "handshake timeout" /\ m.lease = x.lease /\ m.held = x.held
        /\ m \in Sessions
    BY <1>1, <2>1 DEF Sessions, Places, Answers
  <2>4. Sound(m, auth)
    BY <1>1, <2>2, <2>3 DEF Sound, Sessions, Public
  <2> QED
    BY <1>1, <2>2, <2>3, <2>4, SocketMoves DEF AdmittedTo
<1>4. CASE RegisterFails(s)
  <2>1. PICK m : m = [x EXCEPT !.at = "answering", !.wait = 0, !.answer = "registry unavailable"]
    OBVIOUS
  <2>2. /\ x.at = "registering" /\ UNCHANGED <<auth, known, outlived, silent, warnAge>>
        /\ sess' = [sess EXCEPT ![s] = m]
    BY <1>1, <1>4, <2>1 DEF RegisterFails, Answering
  <2>3. /\ m.at = "answering" /\ m.wait = 0 /\ m.token = x.token
        /\ m.answer = "registry unavailable" /\ m.lease = x.lease /\ m.held = x.held
        /\ m \in Sessions
    BY <1>1, <2>1 DEF Sessions, Places, Answers
  <2>4. Sound(m, auth)
    BY <1>1, <2>2, <2>3 DEF Sound, Sessions, Public
  <2> QED
    BY <1>1, <2>2, <2>3, <2>4, SocketMoves DEF AdmittedTo
<1>5. CASE Upgrade(s)
  <2>1. PICK m, b : m = Upgraded /\ b \in BOOLEAN /\ b = FALSE
    OBVIOUS
  <2>2. /\ x.at = "none" /\ UNCHANGED <<auth, known, outlived, silent, warnAge>>
        /\ sess' = [sess EXCEPT ![s] = m]
    BY <1>1, <1>5, <2>1 DEF Upgrade
  <2>3. m = [at |-> "handshake", wait |-> HandshakeTimeout, token |-> b,
             answer |-> "none", lease |-> b, held |-> 0]
    BY <2>1, Zenon DEF Upgraded
  <2>5. m \in Sessions /\ m.at = "handshake" /\ m.answer = "none" /\ m.lease = b /\ m.held = 0
    BY <2>1, <2>3 DEF Sessions, Places
  <2>6. Sound(m, auth)
    BY <2>1, <2>5 DEF Sound, Public
  <2> QED
    BY <1>1, <2>2, <2>5, <2>6, SocketMoves DEF AdmittedTo
<1>6. CASE FirstText(s)
  <2>1. x.at = "handshake" /\ UNCHANGED <<auth, known, outlived, silent, warnAge>>
    BY <1>1, <1>6 DEF FirstText
  <2>2. PICK f \in FirstMessages :
          sess' = [sess EXCEPT ![s] =
                     IF Authenticate(f) = "none"
                     THEN [x EXCEPT !.at = "registering", !.wait = 0, !.token = f.token]
                     ELSE Answering([x EXCEPT !.token = f.token], Authenticate(f))]
    BY <1>1, <1>6 DEF FirstText
  <2>3. PICK v, t : v = Authenticate(f) /\ t = f.token
    OBVIOUS
  <2>4. /\ v \in Public \/ (auth = "required" => t)
        /\ v = "none" => (auth = "required" => t)
        /\ v \in Answers \cup {"none"} /\ v # "auth_ok" /\ t \in BOOLEAN
    BY <1>1, <2>3 DEF Authenticate, Public, Answers, Rejections, FirstMessages
  <2>5. CASE v = "none"
    <3>1. PICK m : /\ m = [x EXCEPT !.at = "registering", !.wait = 0, !.token = t]
                   /\ sess' = [sess EXCEPT ![s] = m]
      BY <2>2, <2>3, <2>5
    <3>2. /\ m.at = "registering" /\ m.token = t
          /\ m.answer = x.answer /\ m.lease = x.lease /\ m.held = x.held
          /\ m \in Sessions
      BY <1>1, <2>4, <3>1 DEF Sessions, Places
    <3>3. Sound(m, auth)
      BY <1>1, <2>1, <2>4, <2>5, <3>2 DEF Sound, Sessions, Public
    <3> QED
      BY <1>1, <2>1, <3>1, <3>2, <3>3, SocketMoves DEF AdmittedTo
  <2>6. CASE v # "none"
    <3>1. PICK m : /\ m = [x EXCEPT !.token = t, !.at = "answering", !.wait = 0, !.answer = v]
                   /\ sess' = [sess EXCEPT ![s] = m]
      BY <2>2, <2>3, <2>6 DEF Answering
    <3>2. /\ m.at = "answering" /\ m.wait = 0 /\ m.token = t
          /\ m.answer = v /\ m.lease = x.lease /\ m.held = x.held
          /\ m \in Sessions
      BY <1>1, <2>4, <3>1 DEF Sessions, Places
    <3>3. Sound(m, auth)
      BY <1>1, <2>1, <2>4, <2>6, <3>2 DEF Sound, Sessions
    <3> QED
      BY <1>1, <2>1, <2>4, <3>1, <3>2, <3>3, SocketMoves DEF AdmittedTo
  <2> QED
    BY <2>5, <2>6
<1>7. CASE Register(s) /\ Registration = "Mail"
  <2>1. PICK m : m = [x EXCEPT !.at = "answering", !.wait = 0, !.answer = "transport mismatch"]
    OBVIOUS
  <2>2. /\ x.at = "registering" /\ UNCHANGED <<auth, known, outlived, silent>>
        /\ sess' = [sess EXCEPT ![s] = m] /\ warnAge' \in 0..WarningEvery
    BY <1>1, <1>7, <2>1 DEF Register, Answering
  <2>3. /\ m.at = "answering" /\ m.wait = 0 /\ m.token = x.token
        /\ m.answer = "transport mismatch" /\ m.lease = x.lease /\ m.held = x.held
        /\ m \in Sessions
    BY <1>1, <2>1 DEF Sessions, Places, Answers
  <2>4. Sound(m, auth)
    BY <1>1, <2>2, <2>3 DEF Sound, Sessions, Public
  <2> QED
    BY <1>1, <2>2, <2>3, <2>4, SocketMoves DEF AdmittedTo
<1>8. CASE Register(s) /\ Registration # "Mail"
  <2>1. PICK b \in BOOLEAN : b = (Registration # "Other")
    OBVIOUS
  <2>2. PICK m : m = [x EXCEPT !.at = "answering", !.wait = 0, !.answer = "auth_ok", !.lease = b]
    OBVIOUS
  <2>3. /\ x.at = "registering" /\ UNCHANGED <<auth, outlived, silent, warnAge>>
        /\ known' = IF Registration = "Inserted" THEN "push" ELSE known
        /\ sess' = [sess EXCEPT ![s] = [Answering(sess[s], "auth_ok") EXCEPT !.lease = Registration # "Other"]]
    BY <1>1, <1>8 DEF Register
  <2>4. sess' = [sess EXCEPT ![s] = m]
    BY <1>1, <2>1, <2>2, <2>3, Zenon DEF Answering
  <2>5. known # "mail" /\ (Registration = "Inserted" <=> known = "absent")
    BY <1>1, <1>8 DEF Registration
  <2>6. known' \notin {"mail", "absent"} /\ (known' = known \/ (known = "absent" /\ known' = "push"))
    BY <2>3, <2>5
  <2>7. /\ m.at = "answering" /\ m.token = x.token
        /\ m.answer = "auth_ok" /\ m.held = x.held /\ m \in Sessions
    BY <1>1, <2>2 DEF Sessions, Places, Answers
  <2>8. Sound(m, auth)
    BY <1>1, <2>3, <2>6, <2>7 DEF Sound, Sessions, Public
  <2> QED
    BY <1>1, <2>3, <2>4, <2>6, <2>7, <2>8, SocketMoves DEF AdmittedTo
<1> QED
  BY <1>2, <1>3, <1>4, <1>5, <1>6, <1>7, <1>8

\* The receive loop's steps and the ends: a lease outlives neither.
LEMMA ReceiveSteps ==
  ASSUME SessInv, NEW s \in Sockets,
         AnswerSent(s) \/ Binary(s) \/ Ingested(s) \/ Other(s) \/ IdleTimesOut(s) \/ Ended(s)
           \/ Oversize(s) \/ LingerOver(s) \/ EndConnection(s)
  PROVE  SessInv' /\ OversizeHeld
<1> USE SessionAssumption
<1>1. PICK x : /\ x = sess[s] /\ x \in Sessions /\ Sound(x, auth)
               /\ auth \in {"open", "required"} /\ known \in {"absent", "push", "polled", "mail"}
               /\ warnAge \in 0..WarningEvery /\ DOMAIN sess = Sockets
  BY SocketIs
<1>2. CASE AnswerSent(s)
  <2>1. x.at = "answering" /\ UNCHANGED <<auth, known, outlived, silent, warnAge>>
    BY <1>1, <1>2 DEF AnswerSent
  <2>2. PICK d \in BOOLEAN : sess' = [sess EXCEPT ![s] = AfterAnswer(x, d)]
    BY <1>1, <1>2 DEF AnswerSent
  <2>3. PICK m : m = AfterAnswer(x, d)
    OBVIOUS
  <2>4. m \in Sessions /\ Sound(m, auth) /\ m.answer = x.answer
    <3>1. CASE x.answer # "auth_ok"
      <4>1. m = [x EXCEPT !.at = "over"]
        BY <2>3, <3>1 DEF AfterAnswer
      <4>2. /\ m.at = "over" /\ m.token = x.token /\ m.answer = x.answer /\ m.lease = x.lease
            /\ m \in Sessions
        BY <1>1, <4>1 DEF Sessions, Places
      <4> QED
        BY <1>1, <3>1, <4>2 DEF Sound, Sessions
    <3>2. CASE x.answer = "auth_ok" /\ d
      <4>1. m = [x EXCEPT !.at = "receiving", !.wait = IdleTimeout]
        BY <2>3, <3>2 DEF AfterAnswer
      <4>2. /\ m.at = "receiving" /\ m.token = x.token /\ m.answer = x.answer /\ m.lease = x.lease
            /\ m.held = x.held /\ m \in Sessions
        BY <1>1, <4>1 DEF Sessions, Places
      <4> QED
        BY <1>1, <2>1, <3>2, <4>2 DEF Sound, Sessions, Public
    <3>3. CASE x.answer = "auth_ok" /\ ~d
      <4>1. m = [x EXCEPT !.at = "ending"]
        BY <2>3, <3>3 DEF AfterAnswer
      <4>2. /\ m.at = "ending" /\ m.token = x.token /\ m.answer = x.answer /\ m.lease = x.lease
            /\ m \in Sessions
        BY <1>1, <4>1 DEF Sessions, Places
      <4> QED
        BY <1>1, <3>3, <4>2 DEF Sound, Sessions, Public
    <3> QED
      BY <3>1, <3>2, <3>3
  <2> QED
    BY <1>1, <2>1, <2>2, <2>3, <2>4, SocketMoves DEF AdmittedTo
<1>3. CASE Binary(s)
  <2>1. x.at = "receiving" /\ UNCHANGED <<auth, known, outlived, silent, warnAge>>
    BY <1>1, <1>3 DEF Binary
  <2>2. ASSUME sess' = [sess EXCEPT ![s] = [x EXCEPT !.wait = IdleTimeout]]
        PROVE  SessInv' /\ OversizeHeld
    <3>1. PICK m : m = [x EXCEPT !.wait = IdleTimeout] /\ sess' = [sess EXCEPT ![s] = m]
      BY <2>2
    <3>2. /\ m.at = x.at /\ m.wait = IdleTimeout /\ m.token = x.token
          /\ m.answer = x.answer /\ m.lease = x.lease /\ m.held = x.held
          /\ m \in Sessions
      BY <1>1, <3>1 DEF Sessions, Places, Answers
    <3>3. Sound(m, auth)
      BY <1>1, <2>1, <3>2 DEF Sound, Sessions, Public
    <3> QED
      BY <1>1, <2>1, <3>1, <3>2, <3>3, SocketMoves DEF AdmittedTo
  <2>3. ASSUME sess' = [sess EXCEPT ![s] = [x EXCEPT !.at = "ingesting", !.wait = 0]]
        PROVE  SessInv' /\ OversizeHeld
    <3>1. PICK m : m = [x EXCEPT !.at = "ingesting", !.wait = 0] /\ sess' = [sess EXCEPT ![s] = m]
      BY <2>3
    <3>2. /\ m.at = "ingesting" /\ m.token = x.token
          /\ m.answer = x.answer /\ m.lease = x.lease /\ m.held = x.held
          /\ m \in Sessions
      BY <1>1, <3>1 DEF Sessions, Places, Answers
    <3>3. Sound(m, auth)
      BY <1>1, <2>1, <3>2 DEF Sound, Sessions, Public
    <3> QED
      BY <1>1, <2>1, <3>1, <3>2, <3>3, SocketMoves DEF AdmittedTo
  <2> QED
    BY <1>1, <1>3, <2>2, <2>3 DEF Binary
<1>4. CASE Ingested(s)
  <2>1. x.at = "ingesting" /\ UNCHANGED <<auth, known, outlived, silent, warnAge>>
    BY <1>1, <1>4 DEF Ingested
  <2>2. ASSUME sess' = [sess EXCEPT ![s] = [x EXCEPT !.at = "receiving", !.wait = IdleTimeout]]
        PROVE  SessInv' /\ OversizeHeld
    <3>1. PICK m : m = [x EXCEPT !.at = "receiving", !.wait = IdleTimeout] /\ sess' = [sess EXCEPT ![s] = m]
      BY <2>2
    <3>2. /\ m.at = "receiving" /\ m.wait = IdleTimeout /\ m.token = x.token
          /\ m.answer = x.answer /\ m.lease = x.lease /\ m.held = x.held
          /\ m \in Sessions
      BY <1>1, <3>1 DEF Sessions, Places, Answers
    <3>3. Sound(m, auth)
      BY <1>1, <2>1, <3>2 DEF Sound, Sessions, Public
    <3> QED
      BY <1>1, <2>1, <3>1, <3>2, <3>3, SocketMoves DEF AdmittedTo
  <2>3. ASSUME sess' = [sess EXCEPT ![s] = [x EXCEPT !.at = "ending"]]
        PROVE  SessInv' /\ OversizeHeld
    <3>1. PICK m : m = [x EXCEPT !.at = "ending"] /\ sess' = [sess EXCEPT ![s] = m]
      BY <2>3
    <3>2. /\ m.at = "ending" /\ m.wait = x.wait /\ m.token = x.token
          /\ m.answer = x.answer /\ m.lease = x.lease /\ m.held = x.held
          /\ m \in Sessions
      BY <1>1, <3>1 DEF Sessions, Places, Answers
    <3>3. Sound(m, auth)
      BY <1>1, <2>1, <3>2 DEF Sound, Sessions, Public
    <3> QED
      BY <1>1, <2>1, <3>1, <3>2, <3>3, SocketMoves DEF AdmittedTo
  <2> QED
    BY <1>1, <1>4, <2>2, <2>3 DEF Ingested
<1>5. CASE Other(s)
  <2>1. PICK m : m = [x EXCEPT !.wait = IdleTimeout]
    OBVIOUS
  <2>2. /\ x.at = "receiving" /\ UNCHANGED <<auth, known, outlived, silent, warnAge>>
        /\ sess' = [sess EXCEPT ![s] = m]
    BY <1>1, <1>5, <2>1 DEF Other
  <2>3. /\ m.at = x.at /\ m.wait = IdleTimeout /\ m.token = x.token
        /\ m.answer = x.answer /\ m.lease = x.lease /\ m.held = x.held
        /\ m \in Sessions
    BY <1>1, <2>1 DEF Sessions, Places, Answers
  <2>4. Sound(m, auth)
    BY <1>1, <2>2, <2>3 DEF Sound, Sessions, Public
  <2> QED
    BY <1>1, <2>2, <2>3, <2>4, SocketMoves DEF AdmittedTo
<1>6. CASE IdleTimesOut(s) \/ Ended(s)
  <2>0. PICK w \in Nat : sess' = [sess EXCEPT ![s] = [x EXCEPT !.at = "ending", !.wait = w]]
    <3>1. CASE IdleTimesOut(s)
      <4>1. sess' = [sess EXCEPT ![s].at = "ending"]
        BY <3>1 DEF IdleTimesOut
      <4>2. x.wait \in Nat /\ [x EXCEPT !.at = "ending"] = [x EXCEPT !.at = "ending", !.wait = x.wait]
        BY <1>1 DEF Sessions
      <4> QED
        BY <1>1, <4>1, <4>2
    <3>2. CASE Ended(s)
      BY <1>1, <3>2 DEF Ended
    <3> QED
      BY <1>6, <3>1, <3>2
  <2>1. PICK m : m = [x EXCEPT !.at = "ending", !.wait = w]
    OBVIOUS
  <2>2. /\ x.at = "receiving" /\ UNCHANGED <<auth, known, outlived, silent, warnAge>>
        /\ sess' = [sess EXCEPT ![s] = m]
    BY <1>1, <1>6, <2>0, <2>1 DEF IdleTimesOut, Ended
  <2>3. /\ m.at = "ending" /\ m.token = x.token
        /\ m.answer = x.answer /\ m.lease = x.lease /\ m.held = x.held
        /\ m \in Sessions
    BY <1>1, <2>1 DEF Sessions, Places, Answers
  <2>4. Sound(m, auth)
    BY <1>1, <2>2, <2>3 DEF Sound, Sessions, Public
  <2> QED
    BY <1>1, <2>2, <2>3, <2>4, SocketMoves DEF AdmittedTo
<1>7. CASE Oversize(s)
  <2>1. PICK m : m = [x EXCEPT !.at = "lingering", !.wait = OversizeLinger]
    OBVIOUS
  <2>2. /\ x.at = "receiving" /\ UNCHANGED <<auth, known, outlived, silent, warnAge>>
        /\ sess' = [sess EXCEPT ![s] = m]
    BY <1>1, <1>7, <2>1 DEF Oversize
  <2>3. /\ m.at = "lingering" /\ m.wait = OversizeLinger /\ m.token = x.token
        /\ m.answer = x.answer /\ m.lease = x.lease /\ m.held = x.held
        /\ m \in Sessions
    BY <1>1, <2>1 DEF Sessions, Places, Answers
  <2>4. Sound(m, auth)
    <3>1. x.answer = "auth_ok" /\ x.held = 0 /\ (auth = "required" => x.token)
      BY <1>1, <2>2 DEF Sound, Public
    <3>2. m.held + m.wait = OversizeLinger
      BY <2>3, <3>1
    <3> QED
      BY <2>3, <3>1, <3>2 DEF Sound
  <2> QED
    BY <1>1, <2>2, <2>3, <2>4, SocketMoves DEF AdmittedTo
<1>8. CASE LingerOver(s)
  <2>1. PICK m : m = [x EXCEPT !.at = "ending"]
    OBVIOUS
  <2>2. /\ x.at = "lingering" /\ x.wait = 0 /\ UNCHANGED <<auth, known, outlived, silent, warnAge>>
        /\ sess' = [sess EXCEPT ![s] = m]
    BY <1>1, <1>8, <2>1 DEF LingerOver
  <2>3. /\ m.at = "ending" /\ m.wait = x.wait /\ m.token = x.token
        /\ m.answer = x.answer /\ m.lease = x.lease /\ m.held = x.held
        /\ m \in Sessions
    BY <1>1, <2>1 DEF Sessions, Places
  <2>4. Sound(m, auth) /\ x.held = OversizeLinger
    <3>1. /\ x.answer = "auth_ok" /\ (auth = "required" => x.token)
          /\ x.held + x.wait = OversizeLinger
      BY <1>1, <2>2 DEF Sound, Public
    <3>2. x.held = OversizeLinger
      BY <1>1, <2>2, <3>1 DEF Sessions
    <3> QED
      BY <2>3, <3>1, <3>2 DEF Sound
  <2> QED
    BY <1>1, <2>2, <2>3, <2>4, SocketMoves DEF AdmittedTo
<1>9. CASE EndConnection(s)
  <2>0. PICK b \in BOOLEAN : b = FALSE
    OBVIOUS
  <2>1. PICK m : m = [x EXCEPT !.at = "over", !.lease = b, !.held = 0]
    OBVIOUS
  <2>2. /\ x.at = "ending" /\ UNCHANGED <<auth, known, silent, warnAge>>
        /\ outlived' = outlived \ {s}
        /\ sess' = [sess EXCEPT ![s].at = "over", ![s].lease = FALSE, ![s].held = 0]
    BY <1>1, <1>9 DEF EndConnection
  <2>3. sess' = [sess EXCEPT ![s] = m]
    <3>1. sess' = [sess EXCEPT ![s].at = "over", ![s].lease = b, ![s].held = 0]
      BY <2>0, <2>2, Zenon
    <3> QED
      BY <1>1, <2>1, <3>1
  <2>4. /\ m.at = "over" /\ m.token = x.token
        /\ m.answer = x.answer /\ m.lease = b /\ m \in Sessions
    <3>1. PICK z \in 0..OversizeLinger : z = 0
      OBVIOUS
    <3>2. m = [x EXCEPT !.at = "over", !.lease = b, !.held = z]
      BY <2>1, <3>1
    <3> QED
      BY <1>1, <3>2 DEF Sessions, Places
  <2>5. Sound(m, auth)
    BY <1>1, <2>0, <2>2, <2>4 DEF Sound, Sessions, Public
  <2> QED
    BY <1>1, <2>2, <2>3, <2>4, <2>5, SocketMoves DEF AdmittedTo
<1> QED
  BY <1>2, <1>3, <1>4, <1>5, <1>6, <1>7, <1>8, <1>9

\* A tick takes from a linger's countdown what it adds to its ticks.
LEMMA TickStep ==
  ASSUME SessInv, SessionTick
  PROVE  SessInv' /\ OversizeHeld
<1> USE SessionAssumption
<1>1. /\ sess' = [s \in Sockets |->
                    [sess[s] EXCEPT !.wait = Less(@),
                                    !.held = IF sess[s].at = "lingering" /\ sess[s].wait > 0
                                             THEN @ + 1 ELSE @]]
      /\ warnAge' \in 0..WarningEvery /\ UNCHANGED <<auth, known, outlived, silent>>
  <2>1. warnAge' \in 0..WarningEvery
    <3>1. warnAge' = IF warnAge < WarningEvery THEN warnAge + 1 ELSE warnAge
      BY Zenon DEF SessionTick
    <3>2. warnAge \in 0..WarningEvery
      BY DEF SessInv
    <3> QED
      BY <3>1, <3>2
  <2> QED
    BY <2>1, Zenon DEF SessionTick
<1>2. ASSUME NEW s \in Sockets
      PROVE  /\ sess'[s] \in Sessions /\ Sound(sess'[s], auth)
             /\ sess'[s].at = sess[s].at /\ sess'[s].answer = sess[s].answer
  <2>1. PICK x : /\ x = sess[s] /\ x \in Sessions /\ Sound(x, auth)
    BY SocketIs
  <2>2. PICK h, w : /\ h = (IF x.at = "lingering" /\ x.wait > 0 THEN x.held + 1 ELSE x.held)
                    /\ w = Less(x.wait)
    OBVIOUS
  <2>3. PICK m : m = [x EXCEPT !.wait = w, !.held = h] /\ m = sess'[s]
    BY <1>1, <2>1, <2>2 DEF Sessions
  <2>4. /\ w \in Nat /\ h \in 0..OversizeLinger
        /\ x.at = "lingering" => h + w = OversizeLinger
        /\ x.at \notin {"lingering", "ending", "over"} => h = 0
    BY <2>1, <2>2 DEF Less, Sound, Sessions
  <2>5. /\ m.at = x.at /\ m.wait = w /\ m.token = x.token /\ m.answer = x.answer
        /\ m.lease = x.lease /\ m.held = h /\ m \in Sessions
    BY <2>1, <2>3, <2>4 DEF Sessions
  <2>6. Sound(m, auth)
    BY <2>1, <2>4, <2>5 DEF Sound
  <2> QED
    BY <2>1, <2>3, <2>5, <2>6
<1>3. OnlyOutlivedFeedMail'
  BY <1>1, <1>2 DEF SessInv, OnlyOutlivedFeedMail, LetIn
<1>4. SessInv'
  BY <1>1, <1>2, <1>3 DEF SessInv
<1>5. OversizeHeld
  BY <1>2 DEF OversizeHeld
<1> QED
  BY <1>4, <1>5

\* The others who write the row touch no socket.
LEMMA RowSteps ==
  ASSUME SessInv, RowDeleted \/ RowMoved \/ MailRegisters
  PROVE  SessInv' /\ OversizeHeld
<1>1. /\ UNCHANGED <<auth, sess, silent, warnAge>> /\ known' \in {"absent", "push", "polled", "mail"}
      /\ outlived' = LetIn \/ (outlived' = outlived /\ known = "absent")
  BY DEF RowDeleted, RowMoved, MailRegisters
<1>2. outlived' \subseteq Sockets /\ OnlyOutlivedFeedMail'
  BY <1>1 DEF SessInv, OnlyOutlivedFeedMail, LetIn
<1> QED
  BY <1>1, <1>2 DEF SessInv, OversizeHeld

\* Every step keeps the invariant.
LEMMA SessStep ==
  ASSUME SessInv, [SessionNext]_sessVars
  PROVE  SessInv' /\ OversizeHeld
<1>1. ASSUME NEW s \in Sockets, GoesSilent(s)
      PROVE  SessInv' /\ OversizeHeld
  BY <1>1 DEF GoesSilent, SessInv, OversizeHeld, OnlyOutlivedFeedMail, LetIn
<1>2. CASE UNCHANGED sessVars
  BY <1>2 DEF sessVars, SessInv, OversizeHeld, OnlyOutlivedFeedMail, LetIn
<1> QED
  BY <1>1, <1>2, TickStep, RowSteps, HandshakeSteps, ReceiveSteps DEF SessionNext, HubSteps

\* Before any socket is upgraded.
LEMMA SessInitially == SessionInit => SessInv
<1> USE SessionAssumption
<1> SUFFICES ASSUME SessionInit
             PROVE  SessInv
  OBVIOUS
<1>1. PICK b \in BOOLEAN : b = FALSE
  OBVIOUS
<1>2. Upgraded = [at |-> "handshake", wait |-> HandshakeTimeout, token |-> b,
                  answer |-> "none", lease |-> b, held |-> 0]
  BY <1>1, Zenon DEF Upgraded
<1>3. PICK m : m = [Upgraded EXCEPT !.at = "none"]
  OBVIOUS
<1>4. m = [at |-> "none", wait |-> HandshakeTimeout, token |-> b,
           answer |-> "none", lease |-> b, held |-> 0]
  BY <1>2, <1>3
<1>5. m \in Sessions /\ m.at = "none" /\ m.answer = "none" /\ m.lease = b /\ m.held = 0
  BY <1>1, <1>4 DEF Sessions, Places
<1>6. Sound(m, auth)
  BY <1>1, <1>5 DEF Sound, Public
<1>7. sess = [s \in Sockets |-> m]
  BY <1>3 DEF SessionInit
<1> QED
  <2>1. OnlyOutlivedFeedMail
    BY <1>5, <1>7 DEF OnlyOutlivedFeedMail, LetIn
  <2>2. sess \in [Sockets -> Sessions] /\ \A s \in Sockets : Sound(sess[s], auth)
    BY <1>5, <1>6, <1>7
  <2> QED
    BY <2>1, <2>2 DEF SessionInit, SessInv

\* For any sockets and timeouts: every path out of a connection gives its lease back, no answer
\* tells a client without the token which ids exist, only a connection that outlived a change of
\* the row feeds a mail system's, and the sender of an oversize message is held for the linger.
THEOREM SocketsAlwaysSafe == SessionSpec => SocketsSafe
<1>1. SessInv /\ [SessionNext]_sessVars
        => /\ SessInv'
           /\ [/\ (SessionTypeOK /\ NoProbing /\ LeasesReturned /\ OnlyOutlivedFeedMail)'
               /\ OversizeHeld]_sessVars
  <2>1. SessInv' => (SessionTypeOK /\ NoProbing /\ LeasesReturned /\ OnlyOutlivedFeedMail)'
    BY SessInvGives, PTL
  <2> QED
    BY <2>1, SessStep
<1> QED
  BY <1>1, SessInitially, PTL DEF SessionSpec, SocketsSafe

-----------------------------------------------------------------------------
(* The summary feed.                                                       *)

Versions == [systems : Nat, live : Nat]

Sub == [on : BOOLEAN, changed : BOOLEAN, got : BOOLEAN, event : Versions]

FeedTypeOK ==
    /\ registry \in 0..MaxVersion /\ live \in Nat
    /\ build \in [at : {"idle", "live", "publish"}, systems : Nat, live : Nat]
    /\ summary \in Versions
    /\ subs \in [Subscribers -> Sub]

\* A read that did not fail is not after a later one.
NotAfter(v, w) == v # NoSystems => v <= w

\* The versions a summary shows are not after the state, nor after what a build has read since.
Past(v) ==
    /\ NotAfter(v.systems, registry) /\ v.live <= live
    /\ build.at # "idle" => NotAfter(v.systems, build.systems)
    /\ build.at = "publish" => v.live <= build.live

\* The build has read the state as it was or as it is.
BuildPast == NotAfter(build.systems, registry) /\ build.live <= live

\* What a subscriber last got is not after the summary, nor after the one being built.
EventsPast ==
    \A s \in Subscribers : subs[s].got =>
        /\ Past(subs[s].event)
        /\ NotAfter(subs[s].event.systems, summary.systems) /\ subs[s].event.live <= summary.live

FeedInv == FeedTypeOK /\ NewcomersUpToDate /\ Past(summary) /\ BuildPast /\ EventsPast

SubOf(on, changed, got, event) ==
    [on |-> on, changed |-> changed, got |-> got, event |-> event]

\* The fields of a subscriber, for any values of its flags.
LEMMA SubParts ==
  ASSUME NEW a \in BOOLEAN, NEW b \in BOOLEAN, NEW c \in BOOLEAN, NEW e \in Versions
  PROVE  SubOf(a, b, c, e) \in Sub
  BY DEF SubOf, Sub

\* A newcomer, and one that left, has got nothing.
LEMMA NothingGot ==
  \A m \in {NoSub, NewSub} : ~m.got /\ m \in Sub
<1>1. PICK z \in Versions : z = NoEvent
  BY DEF Versions, NoEvent
<1>2. NoSub = SubOf(FALSE, FALSE, FALSE, z) /\ NewSub = SubOf(TRUE, TRUE, FALSE, z)
  BY <1>1, Zenon DEF NoSub, NewSub, SubOf
<1>3. \A a, b, c \in BOOLEAN : SubOf(a, b, c, z) \in Sub
  BY SubParts
<1>4. \A a, b, c : SubOf(a, b, c, z).got = c
  BY DEF SubOf
<1>5. SubOf(FALSE, FALSE, FALSE, z) \in Sub /\ SubOf(TRUE, TRUE, FALSE, z) \in Sub
  BY <1>3, Zenon
<1>6. SubOf(FALSE, FALSE, FALSE, z).got = FALSE /\ SubOf(TRUE, TRUE, FALSE, z).got = FALSE
  BY <1>4, Zenon
<1> QED
  BY <1>2, <1>5, <1>6, Zenon

\* The first summary is of the first state.
LEMMA FeedInitially == FeedInit => FeedInv
<1> SUFFICES ASSUME FeedInit
             PROVE  FeedInv
  OBVIOUS
<1>1. /\ registry = 0 /\ live = 0 /\ build = NoBuild /\ newest = summary
      /\ summary \in {[systems |-> 0, live |-> 0], [systems |-> NoSystems, live |-> 0]}
      /\ subs = [s \in Subscribers |-> NoSub]
  BY DEF FeedInit
<1>2. FeedTypeOK
  BY <1>1, NothingGot, FeedAssumption DEF FeedTypeOK, NoBuild, Versions, NoSystems
<1>3. Past(summary) /\ BuildPast
  BY <1>1, FeedAssumption DEF Past, BuildPast, NotAfter, NoBuild
<1>4. EventsPast
  BY <1>1, NothingGot DEF EventsPast
<1> QED
  BY <1>1, <1>2, <1>3, <1>4 DEF FeedInv, NewcomersUpToDate

\* Each step keeps the order of what is shown, what is built and what is.
LEMMA FeedStep ==
  ASSUME FeedInv, [FeedNext]_feedVars
  PROVE  FeedInv' /\ EventsNeverGoBack
<1> USE FeedAssumption
<1>0. FeedTypeOK /\ NewcomersUpToDate /\ Past(summary) /\ BuildPast /\ EventsPast
  BY DEF FeedInv
<1> NoSystems \in Nat /\ NoSystems > MaxVersion
  BY DEF NoSystems
<1>1. CASE RegistryChanges
  <2>1. registry' = registry + 1 /\ registry < MaxVersion
        /\ UNCHANGED <<live, build, summary, subs, readErrors, newest>>
    BY <1>1 DEF RegistryChanges
  <2>2. FeedTypeOK' /\ NewcomersUpToDate'
    BY <1>0, <2>1 DEF FeedTypeOK, Sub, NewcomersUpToDate
  <2>3. Past(summary)' /\ BuildPast' /\ EventsPast'
    BY <1>0, <2>1 DEF FeedTypeOK, Sub, Past, BuildPast, EventsPast, NotAfter, NoSystems, Versions
  <2> QED
    BY <1>0, <2>1, <2>2, <2>3 DEF FeedInv, EventsNeverGoBack, FeedTypeOK, Sub, Versions
<1>2. CASE LiveChanges
  <2>1. live' = live + 1
        /\ UNCHANGED <<registry, build, summary, subs, readErrors, newest>>
    BY <1>2 DEF LiveChanges
  <2>2. FeedTypeOK' /\ NewcomersUpToDate'
    BY <1>0, <2>1 DEF FeedTypeOK, Sub, NewcomersUpToDate
  <2>3. Past(summary)' /\ BuildPast' /\ EventsPast'
    BY <1>0, <2>1 DEF FeedTypeOK, Sub, Past, BuildPast, EventsPast, NotAfter, NoSystems, Versions
  <2> QED
    BY <1>0, <2>1, <2>2, <2>3 DEF FeedInv, EventsNeverGoBack, FeedTypeOK, Sub, Versions
<1>3. CASE ReadRegistry
  <2>1. /\ build.at = "idle" /\ UNCHANGED <<registry, live, summary, subs, newest>>
        /\ \E v \in {registry, NoSystems} : build' = [at |-> "live", systems |-> v, live |-> 0]
    BY <1>3 DEF ReadRegistry
  <2>2. PICK v \in {registry, NoSystems} : build' = [at |-> "live", systems |-> v, live |-> 0]
    BY <2>1
  <2>3. v \in Nat /\ NotAfter(v, registry) /\ v >= registry
    BY <1>0 DEF FeedTypeOK, Sub, NotAfter
  <2>4. build'.at = "live" /\ build'.systems = v /\ build'.live = 0
    BY <2>2
  <2>5. FeedTypeOK' /\ NewcomersUpToDate'
    BY <1>0, <2>1, <2>2, <2>3 DEF FeedTypeOK, Sub, NewcomersUpToDate
  <2>6. BuildPast'
    BY <1>0, <2>1, <2>3, <2>4 DEF FeedTypeOK, Sub, BuildPast, NotAfter, NoSystems
  <2>7. \A w \in Versions : Past(w) => Past(w)'
    BY <1>0, <2>1, <2>3, <2>4 DEF FeedTypeOK, Sub, Past, NotAfter, NoSystems, Versions
  <2>8. Past(summary)' /\ EventsPast'
    BY <1>0, <2>1, <2>7 DEF FeedTypeOK, Sub, EventsPast, NotAfter, NoSystems
  <2> QED
    BY <1>0, <2>1, <2>5, <2>6, <2>8 DEF FeedInv, EventsNeverGoBack, FeedTypeOK, Sub, Versions
<1>4. CASE ReadLive
  <2>1. /\ build.at = "live" /\ UNCHANGED <<registry, live, summary, subs, newest>>
        /\ build' = [build EXCEPT !.at = "publish", !.live = live]
    BY <1>4 DEF ReadLive
  <2>2. build' = [at |-> "publish", systems |-> build.systems, live |-> live]
    BY <1>0, <2>1 DEF FeedTypeOK, Sub
  <2>4. build'.at = "publish" /\ build'.systems = build.systems /\ build'.live = live
    BY <2>2
  <2>5. FeedTypeOK' /\ NewcomersUpToDate'
    BY <1>0, <2>1, <2>2 DEF FeedTypeOK, Sub, NewcomersUpToDate
  <2>6. BuildPast'
    BY <1>0, <2>1, <2>4 DEF FeedTypeOK, Sub, BuildPast, NotAfter, NoSystems
  <2>7. \A w \in Versions : Past(w) => Past(w)'
    BY <1>0, <2>1, <2>4 DEF FeedTypeOK, Sub, Past, NotAfter, NoSystems, Versions
  <2>8. Past(summary)' /\ EventsPast'
    BY <1>0, <2>1, <2>7 DEF FeedTypeOK, Sub, EventsPast, NotAfter, NoSystems
  <2> QED
    BY <1>0, <2>1, <2>5, <2>6, <2>8 DEF FeedInv, EventsNeverGoBack, FeedTypeOK, Sub, Versions
<1>5. CASE Publish
  <2>1. /\ build.at = "publish" /\ build' = NoBuild /\ summary' = Built /\ newest' = Built
        /\ subs' = Woken /\ UNCHANGED <<registry, live, readErrors>>
    BY <1>5 DEF Publish
  <2>2. summary' \in Versions /\ summary'.systems = build.systems /\ summary'.live = build.live
    BY <1>0, <2>1 DEF Built, FeedTypeOK, Sub, Versions
  <2>3. \A s \in Subscribers : /\ subs'[s].event = subs[s].event /\ subs'[s].got = subs[s].got
                               /\ subs'[s] \in Sub
    BY <1>0, <2>1 DEF Woken, FeedTypeOK, Sub
  <2>4. build'.at = "idle" /\ build'.systems = 0 /\ build'.live = 0
    BY <2>1 DEF NoBuild
  <2>5. FeedTypeOK' /\ NewcomersUpToDate'
    BY <1>0, <2>1, <2>2, <2>3 DEF FeedTypeOK, Sub, NewcomersUpToDate, NoBuild, Woken
  <2>6. BuildPast' /\ Past(summary)'
    BY <1>0, <2>1, <2>2, <2>4 DEF FeedTypeOK, Sub, BuildPast, Past, NotAfter, NoSystems
  <2>7. \A w \in Versions : Past(w) => Past(w)'
    BY <1>0, <2>1, <2>4 DEF Past, NotAfter, NoSystems
  <2>8. EventsPast'
    BY <1>0, <2>1, <2>2, <2>3, <2>7 DEF FeedTypeOK, Sub, EventsPast, Past, NotAfter, NoSystems, Versions
  <2> QED
    BY <1>0, <2>3, <2>5, <2>6, <2>8 DEF FeedInv, EventsNeverGoBack, FeedTypeOK, Sub, Versions
<1>6. CASE BuildFails
  <2>1. build' = NoBuild /\ UNCHANGED <<registry, live, summary, subs, newest>>
    BY <1>6 DEF BuildFails
  <2>4. build'.at = "idle" /\ build'.systems = 0 /\ build'.live = 0
    BY <2>1 DEF NoBuild
  <2>5. FeedTypeOK' /\ NewcomersUpToDate' /\ BuildPast'
    BY <1>0, <2>1, <2>4 DEF FeedTypeOK, Sub, NewcomersUpToDate, NoBuild, BuildPast, NotAfter
  <2>7. \A w \in Versions : Past(w) => Past(w)'
    BY <1>0, <2>1, <2>4 DEF Past, NotAfter, NoSystems
  <2>8. Past(summary)' /\ EventsPast'
    BY <1>0, <2>1, <2>7 DEF FeedTypeOK, Sub, EventsPast, NotAfter, NoSystems
  <2> QED
    BY <1>0, <2>1, <2>5, <2>8 DEF FeedInv, EventsNeverGoBack, FeedTypeOK, Sub, Versions
<1>7. ASSUME NEW s \in Subscribers, Subscribe(s) \/ Unsubscribe(s)
      PROVE  FeedInv' /\ EventsNeverGoBack
  <2>1. UNCHANGED <<registry, live, build, summary, readErrors, newest>>
    BY <1>7 DEF Subscribe, Unsubscribe
  <2>2. PICK m : subs' = [subs EXCEPT ![s] = m] /\ m \in {NoSub, NewSub}
    BY <1>7 DEF Subscribe, Unsubscribe
  <2>3. ~m.got /\ m \in Sub
    BY <2>2, NothingGot, Zenon
  <2>4. FeedTypeOK' /\ NewcomersUpToDate' /\ Past(summary)' /\ BuildPast'
    BY <1>0, <2>1, <2>2, <2>3 DEF FeedTypeOK, Sub, NewcomersUpToDate, Past, BuildPast, NotAfter, NoSystems
  <2>5. EventsPast' /\ EventsNeverGoBack
    BY <1>0, <2>1, <2>2, <2>3 DEF FeedTypeOK, Sub, EventsPast, Past, NotAfter, NoSystems, EventsNeverGoBack, Versions
  <2> QED
    BY <2>4, <2>5 DEF FeedInv
<1>8. ASSUME NEW s \in Subscribers, Deliver(s)
      PROVE  FeedInv' /\ EventsNeverGoBack
  <2>1. UNCHANGED <<registry, live, build, summary, readErrors, newest>>
    BY <1>8 DEF Deliver
  <2>2. PICK m : m = [subs[s] EXCEPT !.changed = FALSE, !.got = TRUE, !.event = summary]
    OBVIOUS
  <2>3. subs' = [subs EXCEPT ![s] = m]
    BY <1>0, <1>8, <2>2 DEF Deliver, FeedTypeOK, Sub
  <2>4. m.event = summary /\ m \in Sub
    BY <1>0, <2>2 DEF FeedTypeOK, Sub
  <2>5. FeedTypeOK' /\ NewcomersUpToDate' /\ Past(summary)' /\ BuildPast'
    BY <1>0, <2>1, <2>3, <2>4 DEF FeedTypeOK, Sub, NewcomersUpToDate, Past, BuildPast, NotAfter, NoSystems
  <2>6. EventsPast'
    BY <1>0, <2>1, <2>3, <2>4 DEF FeedTypeOK, Sub, EventsPast, Past, NotAfter, NoSystems, Versions
  <2>7. EventsNeverGoBack
    BY <1>0, <2>3, <2>4 DEF FeedTypeOK, Sub, EventsPast, NotAfter, EventsNeverGoBack, Versions
  <2> QED
    BY <2>5, <2>6, <2>7 DEF FeedInv
<1>9. CASE UNCHANGED feedVars
  BY <1>0, <1>9 DEF feedVars, FeedInv, FeedTypeOK, Sub, NewcomersUpToDate, Past, BuildPast, EventsPast,
     NotAfter, NoSystems, EventsNeverGoBack, Versions
<1> QED
  BY <1>1, <1>2, <1>3, <1>4, <1>5, <1>6, <1>7, <1>8, <1>9 DEF FeedNext

\* For any number of subscribers and of changes: no event goes back in time, and a newcomer
\* starts from the last summary built.
THEOREM FeedGoesForward == FeedSpec => FeedNeverGoesBack
<1>1. FeedInv /\ [FeedNext]_feedVars
        => FeedInv' /\ [NewcomersUpToDate' /\ EventsNeverGoBack]_feedVars
  BY FeedStep DEF FeedInv
<1> QED
  BY <1>1, FeedInitially, PTL DEF FeedSpec, FeedNeverGoesBack

-----------------------------------------------------------------------------
(* A source behind its token bucket.                                       *)
BucketType == [capacity : Nat \ {0}, period : Nat, tokens : Nat, last : Nat]

BucketTypeOK ==
    /\ tick \in 0..MaxBucketTime /\ refused \in 0..tick \cup {NeverRefused}
    /\ bucket \in BucketType
    /\ bucket.tokens <= bucket.capacity /\ bucket.last <= tick
    /\ takes \in Seq(Nat)

\* The tokens refilled since the i-th take, were the bucket full before it: at least as many were.
Regained(i) == bucket.tokens + Len(takes) - i + 1 - bucket.capacity

\* They took their periods of the refill clock, whichever take they are counted from.
RateInv == \A i \in DOMAIN takes : bucket.period * Regained(i) <= bucket.last - takes[i]

\* While a token is missing, some window is at the rate: the one that began when the bucket was
\* last full.
TightInv ==
    bucket.tokens < bucket.capacity =>
        \E i \in DOMAIN takes : bucket.last - takes[i] = bucket.period * Regained(i)

\* A refusal still stands at the tick it was given.
RefusedInv == refused = tick => ~CanTake(bucket, tick)

BucketInv == BucketTypeOK /\ RateInv /\ TightInv /\ RefusedInv /\ WithinRate

-----------------------------------------------------------------------------
(* Arithmetic, and the refill.                                             *)

\* Division by a positive period rounds down.
LEMMA DivParts ==
  ASSUME NEW p \in Nat \ {0}, NEW x \in Int
  PROVE  x \div p \in Int /\ p * (x \div p) <= x /\ x < p * (x \div p) + p
  BY Z3

\* Products of a period, which the provers do not multiply out by themselves.
LEMMA Times ==
  ASSUME NEW p \in Nat, NEW a \in Int, NEW b \in Int
  PROVE  /\ p * (a + b) = p * a + p * b /\ p * (a - b) = p * a - p * b /\ p * a \in Int
         /\ a <= b => p * a <= p * b
  OBVIOUS

\* A product is less only for a lesser factor.
LEMMA TimesLess ==
  ASSUME NEW p \in Nat \ {0}, NEW a \in Int, NEW b \in Int, p * a < p * b
  PROVE  a < b
  OBVIOUS

\* So many whole periods fit.
LEMMA DivAtLeast ==
  ASSUME NEW p \in Nat \ {0}, NEW k \in Int, NEW x \in Int, p * k <= x
  PROVE  k <= x \div p
<1> DEFINE d == x \div p
<1>1. d \in Int /\ x < p * d + p
  BY DivParts
<1>2. p * (d + 1) = p * d + p
  BY <1>1
<1> HIDE DEF d
<1>3. p * k < p * (d + 1)
  BY <1>1, <1>2, Times
<1>4. k < d + 1
  BY <1>1, <1>3, TimesLess
<1> QED
  BY <1>1, <1>4 DEF d

\* No more whole periods fit.
LEMMA DivAtMost ==
  ASSUME NEW p \in Nat \ {0}, NEW k \in Int, NEW x \in Int, x < p * k
  PROVE  x \div p < k
<1> DEFINE d == x \div p
<1>1. d \in Int /\ p * d <= x
  BY DivParts
<1> HIDE DEF d
<1>2. p * d < p * k
  BY <1>1, Times
<1> QED
  BY <1>1, <1>2, TimesLess DEF d

BucketOf(capacity, period, tokens, last) ==
    [capacity |-> capacity, period |-> period, tokens |-> tokens, last |-> last]

\* A refill grants whole periods and keeps the remainder, or fills the bucket, which took at
\* least as long as its missing tokens do.
LEMMA RefilledIs ==
  ASSUME NEW b \in BucketType, NEW now \in Nat, b.tokens <= b.capacity, b.last <= now
  PROVE  \/ \E e \in Nat :
               /\ Refilled(b, now) = BucketOf(b.capacity, b.period, b.tokens + e, b.last + b.period * e)
               /\ b.tokens + e < b.capacity /\ b.period # 0
               /\ b.period * e <= now - b.last /\ now - b.last < b.period * e + b.period
         \/ /\ Refilled(b, now) = BucketOf(b.capacity, b.period, b.capacity, now)
            /\ b.period * (b.capacity - b.tokens) <= now - b.last
<1>0. PICK cap \in Nat \ {0}, per \in Nat, tok \in Nat, las \in Nat :
        b = BucketOf(cap, per, tok, las)
  BY DEF BucketType, BucketOf
<1>1. b.capacity = cap /\ b.period = per /\ b.tokens = tok /\ b.last = las
  BY <1>0 DEF BucketOf
<1>2. ~(now < las) /\ now - las \in Nat
  BY <1>1
<1>3. \A t, l : [b EXCEPT !.tokens = t, !.last = l]
                  = BucketOf(cap, per, t, l)
  <2>1. \A t : [b EXCEPT !.tokens = t] = BucketOf(cap, per, t, las)
    BY <1>0 DEF BucketOf
  <2>2. \A t, l : [BucketOf(cap, per, t, las) EXCEPT !.last = l]
                    = BucketOf(cap, per, t, l)
    BY DEF BucketOf
  <2> QED
    BY <2>1, <2>2, Zenon
<1>4. Refilled(b, now) =
        IF per # 0 /\ (now - las) \div per < cap - tok
        THEN [b EXCEPT !.tokens = tok + (now - las) \div per, !.last = las + per * ((now - las) \div per)]
        ELSE [b EXCEPT !.tokens = cap, !.last = now]
  BY <1>1, <1>2, Zenon DEF Refilled
<1>5. CASE per # 0 /\ (now - las) \div per < cap - tok
  <2> DEFINE g == (now - las) \div per
  <2>1. g \in Int /\ per * g <= now - las /\ now - las < per * g + per
    BY <1>2, <1>5, DivParts
  <2>2. g \in Nat
    <3>1. per * 0 <= now - las
      BY <1>2
    <3> QED
      BY <1>2, <1>5, <2>1, <3>1, DivAtLeast
  <2>3. Refilled(b, now) = BucketOf(cap, per, tok + g, las + per * g)
    BY <1>3, <1>4, <1>5, Zenon
  <2>4. tok + g < cap
    BY <1>5, <2>2
  <2> HIDE DEF g
  <2> QED
    BY <1>1, <1>5, <2>1, <2>2, <2>3, <2>4
<1>6. CASE ~(per # 0 /\ (now - las) \div per < cap - tok)
  <2>1. Refilled(b, now) = BucketOf(cap, per, cap, now)
    BY <1>3, <1>4, <1>6, Zenon
  <2>2. per * (cap - tok) <= now - las
    <3>1. CASE per = 0
      BY <1>2, <3>1
    <3>2. CASE per # 0
      <4>1. (now - las) \div per \in Int /\ per * ((now - las) \div per) <= now - las
        BY <1>2, <3>2, DivParts
      <4>2. cap - tok <= (now - las) \div per /\ cap - tok \in Int
        BY <1>6, <3>2, <4>1
      <4> QED
        BY <1>2, <4>1, <4>2, Times
    <3> QED
      BY <3>1, <3>2
  <2> QED
    BY <1>1, <2>1, <2>2
<1> QED
  BY <1>5, <1>6

\* A take spends a token of the refilled bucket.
LEMMA TakenIs ==
  ASSUME NEW b, NEW now, NEW cap, NEW per, NEW t, NEW l,
         Refilled(b, now) = BucketOf(cap, per, t, l)
  PROVE  /\ Taken(b, now) = BucketOf(cap, per, t - 1, l)
         /\ CanTake(b, now) <=> t > 0
<1>1. PICK r : r = Refilled(b, now)
  OBVIOUS
<1>2. r.tokens = t /\ \A v : [r EXCEPT !.tokens = v] = BucketOf(cap, per, v, l)
  BY <1>1 DEF BucketOf
<1> QED
  BY <1>1, <1>2, Zenon DEF Taken, CanTake

\* What a take leaves: a token less than the refill, and the clock of the refill.
Leaves(b, now, t, l) ==
    /\ t < b.capacity /\ l <= now
    /\ \/ \E e \in Nat : /\ b.tokens + e < b.capacity /\ t = b.tokens + e - 1
                         /\ l = b.last + b.period * e /\ now - b.last < b.period * e + b.period
       \/ t = b.capacity - 1 /\ l = now /\ b.period * (b.capacity - b.tokens) <= now - b.last

\* A take that succeeds leaves such a bucket.
LEMMA TakesTo ==
  ASSUME NEW b \in BucketType, NEW now \in Nat, b.tokens <= b.capacity, b.last <= now, CanTake(b, now)
  PROVE  \E t, l \in Nat : Taken(b, now) = BucketOf(b.capacity, b.period, t, l) /\ Leaves(b, now, t, l)
<1>0. PICK cap \in Nat \ {0}, per \in Nat, tok \in Nat, las \in Nat :
        b.capacity = cap /\ b.period = per /\ b.tokens = tok /\ b.last = las
  BY DEF BucketType
<1>1. CASE \E e \in Nat : /\ Refilled(b, now) = BucketOf(cap, per, tok + e, las + per * e)
                          /\ tok + e < cap
                          /\ per * e <= now - las /\ now - las < per * e + per
  <2>1. PICK e \in Nat : /\ Refilled(b, now) = BucketOf(cap, per, tok + e, las + per * e)
                         /\ tok + e < cap
                         /\ per * e <= now - las /\ now - las < per * e + per
    BY <1>1
  <2>2. PICK t, l : t = tok + e /\ l = las + per * e
    OBVIOUS
  <2>3. Taken(b, now) = BucketOf(cap, per, t - 1, l) /\ t > 0
    BY <2>1, <2>2, TakenIs
  <2>4. t \in Nat /\ l \in Nat /\ t - 1 \in Nat /\ l <= now /\ t - 1 < cap
    <3>1. per * e \in Nat /\ per * e <= now - las /\ t = tok + e /\ l = las + per * e /\ t > 0 /\ tok + e < cap
      BY <2>1, <2>2, <2>3
    <3> QED
      BY <3>1
  <2>5. Leaves(b, now, t - 1, l)
    BY <1>0, <2>1, <2>2, <2>4 DEF Leaves
  <2> QED
    BY <1>0, <2>3, <2>4, <2>5
<1>2. CASE Refilled(b, now) = BucketOf(cap, per, cap, now) /\ per * (cap - tok) <= now - las
  <2>1. Taken(b, now) = BucketOf(cap, per, cap - 1, now)
    BY <1>2, TakenIs
  <2>2. Leaves(b, now, cap - 1, now) /\ cap - 1 \in Nat
    BY <1>0, <1>2 DEF Leaves
  <2> QED
    BY <1>0, <2>1, <2>2
<1> QED
  BY <1>0, <1>1, <1>2, RefilledIs

\* A take keeps a count of takes within the rate: the c since the time x, and the one taken now.
LEMMA TakeCounts ==
  ASSUME NEW b \in BucketType, NEW now \in Nat, NEW t \in Nat, NEW l \in Nat, Leaves(b, now, t, l),
         b.last <= now
  PROVE  /\ b.period * (t + 1 - b.capacity) <= l - now
         /\ \A c \in Int, x \in Int :
              b.period * (b.tokens + c - b.capacity) <= b.last - x
                => b.period * (t + (c + 1) - b.capacity) <= l - x
<1>1. PICK cap \in Nat \ {0}, per \in Nat, tok \in Nat, las \in Nat :
        b.capacity = cap /\ b.period = per /\ b.tokens = tok /\ b.last = las
  BY DEF BucketType
<1>2. /\ t < cap /\ l <= now
      /\ \/ \E e \in Nat :
               /\ tok + e < cap /\ t = tok + e - 1 /\ l = las + per * e
               /\ now - las < per * e + per
         \/ t = cap - 1 /\ l = now /\ per * (cap - tok) <= now - las
  BY <1>1 DEF Leaves
<1>3. per * (t + 1 - cap) <= l - now
  <2>1. ASSUME NEW e \in Nat, tok + e < cap, t = tok + e - 1, l = las + per * e,
               now - las < per * e + per
        PROVE  per * (t + 1 - cap) <= l - now
    <3>1. t + 1 - cap <= 0 - 1 /\ t + 1 - cap \in Int
      BY <2>1
    <3>2. per * (t + 1 - cap) <= per * (0 - 1) /\ per * (t + 1 - cap) \in Int
      BY <3>1, Times
    <3>3. per * (0 - 1) = 0 - per /\ per * e \in Int
      OBVIOUS
    <3> QED
      BY <2>1, <3>2, <3>3
  <2>2. ASSUME t = cap - 1, l = now
        PROVE  per * (t + 1 - cap) <= l - now
    <3>1. t + 1 - cap = 0 /\ per * 0 = 0
      BY <2>2
    <3> QED
      BY <2>2, <3>1
  <2> QED
    BY <1>2, <2>1, <2>2
<1>4. ASSUME NEW c \in Int, NEW x \in Int, per * (tok + c - cap) <= las - x
      PROVE  per * (t + (c + 1) - cap) <= l - x
  <2>0. PICK a \in Int : a = tok + c - cap /\ per * a <= las - x
    BY <1>4
  <2>1. ASSUME NEW e \in Nat, t = tok + e - 1, l = las + per * e
        PROVE  per * (t + (c + 1) - cap) <= l - x
    <3>1. t + (c + 1) - cap = a + e
      BY <2>0, <2>1
    <3>2. per * (a + e) = per * a + per * e /\ per * a \in Int /\ per * e \in Int
      BY Times
    <3> QED
      BY <2>0, <2>1, <3>1, <3>2
  <2>2. ASSUME t = cap - 1, l = now, per * (cap - tok) <= now - las
        PROVE  per * (t + (c + 1) - cap) <= l - x
    <3>1. t + (c + 1) - cap = a + (cap - tok) /\ cap - tok \in Int
      BY <2>0, <2>2
    <3>2. /\ per * (a + (cap - tok)) = per * a + per * (cap - tok)
          /\ per * a \in Int /\ per * (cap - tok) \in Int
      BY <3>1, Times
    <3> QED
      BY <2>0, <2>2, <3>1, <3>2
  <2> QED
    BY <1>2, <2>1, <2>2
<1> QED
  BY <1>1, <1>3, <1>4

-----------------------------------------------------------------------------
(* The steps.                                                              *)

\* A take keeps every window within the rate, and leaves one that is at it.
LEMMA TakeStep ==
  ASSUME BucketInv, Message, CanTake(bucket, tick)
  PROVE  BucketInv'
<1>1. /\ bucket' = Taken(bucket, tick) /\ takes' = Append(takes, tick)
      /\ UNCHANGED <<tick, refused>>
  BY DEF Message
<1>2. PICK cap \in Nat \ {0}, per \in Nat, tok \in Nat, las \in Nat, n \in Nat :
        /\ bucket.capacity = cap /\ bucket.period = per /\ bucket.tokens = tok /\ bucket.last = las
        /\ n = Len(takes) /\ tok <= cap /\ las <= tick /\ tick \in Nat
  BY BucketAssumption DEF BucketInv, BucketTypeOK, BucketType
<1>3. /\ takes' \in Seq(Nat) /\ Len(takes') = n + 1 /\ DOMAIN takes' = 1..(n + 1) /\ DOMAIN takes = 1..n
      /\ takes'[n + 1] = tick /\ \A i \in 1..n : takes'[i] = takes[i] /\ takes[i] \in Nat
  BY <1>1, <1>2 DEF BucketInv, BucketTypeOK
<1>4. PICK t \in Nat, l \in Nat : bucket' = BucketOf(cap, per, t, l) /\ Leaves(bucket, tick, t, l)
  BY <1>1, <1>2, TakesTo DEF BucketInv, BucketTypeOK
<1>5. /\ t < cap /\ l <= tick
      /\ \/ \E e \in Nat :
               /\ tok + e < cap /\ t = tok + e - 1 /\ l = las + per * e
               /\ tick - las < per * e + per
         \/ t = cap - 1 /\ l = tick /\ per * (cap - tok) <= tick - las
  BY <1>2, <1>4 DEF Leaves
<1>6. /\ bucket' \in BucketType
      /\ bucket'.capacity = cap /\ bucket'.period = per /\ bucket'.tokens = t /\ bucket'.last = l
  BY <1>2, <1>4 DEF BucketOf, BucketType
<1>7. BucketTypeOK'
  BY <1>1, <1>3, <1>5, <1>6 DEF BucketInv, BucketTypeOK
<1>8. \A i \in 1..(n + 1) : Regained(i)' = t + (n + 1) - i + 1 - cap
  BY <1>3, <1>6 DEF Regained
<1>9. \A i \in 1..n : /\ per * Regained(i) <= las - takes[i] /\ Regained(i) = tok + n - i + 1 - cap
                      /\ Regained(i) \in Int /\ takes[i] \in Nat
  <2>1. \A i \in 1..n : per * Regained(i) <= las - takes[i]
    BY <1>2, <1>3 DEF BucketInv, RateInv
  <2>2. \A i \in 1..n : Regained(i) = tok + n - i + 1 - cap /\ Regained(i) \in Int
    BY <1>2 DEF Regained
  <2> QED
    BY <1>3, <2>1, <2>2
<1>10. \A i \in 1..n : per * (t + (n + 1) - i + 1 - cap) <= l - takes[i]
  <2> TAKE i \in 1..n
  <2>1. PICK c \in Int, x \in Int : c = n - i + 1 /\ x = takes[i]
    BY <1>3
  <2>2. tok + c - cap = tok + n - i + 1 - cap /\ t + (c + 1) - cap = t + (n + 1) - i + 1 - cap
    BY <2>1
  <2>3. per * (tok + c - cap) <= las - x
    BY <1>9, <2>1, <2>2
  <2>4. per * (t + (c + 1) - cap) <= l - x
    BY <1>2, <1>4, <2>3, TakeCounts DEF BucketInv, BucketTypeOK
  <2> QED
    BY <2>1, <2>2, <2>4
<1>11. per * (t + 1 - cap) <= l - tick
  BY <1>2, <1>4, TakeCounts DEF BucketInv, BucketTypeOK
<1>12. RateInv'
  <2> SUFFICES ASSUME NEW i \in 1..(n + 1)
               PROVE  per * (t + (n + 1) - i + 1 - cap) <= l - takes'[i]
    BY <1>3, <1>6, <1>8 DEF RateInv
  <2>1. CASE i \in 1..n
    BY <1>3, <1>10, <2>1
  <2>2. CASE i = n + 1
    <3>1. t + (n + 1) - i + 1 - cap = t + 1 - cap
      BY <1>2, <2>2
    <3> QED
      BY <1>3, <1>11, <2>2, <3>1
  <2> QED
    BY <1>2, <2>1, <2>2
<1>13. TightInv'
  <2>1. ASSUME NEW e \in Nat, tok + e < cap, t = tok + e - 1, l = las + per * e
        PROVE  TightInv'
    <3>1. PICK i \in 1..n : las - takes[i] = per * Regained(i)
      BY <1>2, <1>3, <2>1 DEF BucketInv, TightInv
    <3>2. PICK a \in Int : a = Regained(i) /\ a = tok + n - i + 1 - cap /\ las - takes[i] = per * a
      BY <1>9, <3>1
    <3>3. t + (n + 1) - i + 1 - cap = a + e
      BY <2>1, <3>2
    <3>4. per * (a + e) = per * a + per * e /\ per * a \in Int /\ per * e \in Int
      BY Times
    <3>5. l - takes[i] = per * (a + e)
      <4>1. PICK u \in Int, v \in Int, s \in Int : u = per * a /\ v = per * e /\ s = takes[i]
        BY <1>3, <3>4
      <4>2. las - s = u /\ l = las + v /\ per * (a + e) = u + v
        BY <2>1, <3>2, <3>4, <4>1, Zenon
      <4>3. l - s = u + v
        BY <4>2
      <4> QED
        BY <4>1, <4>2, <4>3, Zenon
    <3>6. i \in 1..(n + 1) /\ takes'[i] = takes[i]
      BY <1>3
    <3> QED
      BY <1>3, <1>6, <1>8, <3>3, <3>5, <3>6 DEF TightInv
  <2>2. ASSUME t = cap - 1, l = tick
        PROVE  TightInv'
    <3>1. n + 1 \in 1..(n + 1) /\ t + (n + 1) - (n + 1) + 1 - cap = 0 /\ per * 0 = 0 /\ l - tick = 0
      BY <1>2, <2>2
    <3>2. Regained(n + 1)' = 0
      BY <1>8, <3>1
    <3> QED
      BY <1>3, <1>6, <3>1, <3>2 DEF TightInv
  <2> QED
    BY <1>5, <2>1, <2>2
<1>14. RefusedInv'
  BY <1>1 DEF BucketInv, RefusedInv
<1>15. WithinRate'
  <2> SUFFICES ASSUME NEW i \in 1..(n + 1), NEW j \in 1..(n + 1), per > 0, i <= j
               PROVE  j - i + 1 <= cap + (takes'[j] - takes'[i]) \div per
    BY <1>3, <1>6 DEF WithinRate
  <2>1. CASE j \in 1..n
    <3>1. i \in 1..n
      BY <1>2, <2>1
    <3> QED
      BY <1>2, <1>3, <2>1, <3>1 DEF BucketInv, WithinRate
  <2>2. CASE j = n + 1
    <3>1. takes'[j] = tick /\ takes'[i] \in Nat
      BY <1>2, <1>3, <2>2
    <3>2. per * (t + (n + 1) - i + 1 - cap) <= l - takes'[i]
      BY <1>3, <1>6, <1>8, <1>12 DEF RateInv
    <3>3. per * (j - i + 1 - cap) <= per * (t + (n + 1) - i + 1 - cap)
      <4>1. /\ j - i + 1 - cap <= t + (n + 1) - i + 1 - cap
            /\ j - i + 1 - cap \in Int /\ t + (n + 1) - i + 1 - cap \in Int
        BY <2>2
      <4> QED
        BY <4>1, Times
    <3>4. PICK k \in Int, x \in Int : k = j - i + 1 - cap /\ x = tick - takes'[i]
      BY <1>2, <3>1
    <3>5. per * k <= x
      <4>1. PICK a \in Int, c \in Int, s \in Int :
               a = per * k /\ c = per * (t + (n + 1) - i + 1 - cap) /\ s = takes'[i]
        BY <3>1
      <4>2. a <= c /\ c <= l - s /\ x = tick - s
        BY <3>2, <3>3, <3>4, <4>1, Zenon
      <4>3. l <= tick /\ tick \in Int
        BY <1>2, <1>5
      <4>4. a <= x
        BY <4>2, <4>3
      <4> QED
        BY <4>1, <4>4
    <3>6. k <= x \div per /\ x \div per \in Int
      BY <3>5, DivAtLeast, DivParts
    <3> QED
      BY <3>1, <3>4, <3>6
  <2> QED
    BY <1>2, <2>1, <2>2
<1> QED
  BY <1>7, <1>12, <1>13, <1>14, <1>15 DEF BucketInv

\* The invariant says nothing of the clock but that it is not behind, and that a refusal at this
\* tick stands: a tick keeps both, and a refusal notes it.
LEMMA BucketStep ==
  ASSUME BucketInv, [BucketNext]_bucketVars
  PROVE  BucketInv'
<1>1. CASE BucketTick
  <2>1. tick' = tick + 1 /\ tick < MaxBucketTime /\ UNCHANGED <<bucket, takes, refused>>
    BY <1>1 DEF BucketTick
  <2>2. BucketTypeOK' /\ refused' # tick'
    BY <2>1, BucketAssumption DEF BucketInv, BucketTypeOK, NeverRefused, BucketType
  <2> QED
    BY <2>1, <2>2 DEF BucketInv, RateInv, TightInv, Regained, RefusedInv, WithinRate
<1>2. CASE Message /\ CanTake(bucket, tick)
  BY <1>2, TakeStep
<1>3. CASE Message /\ ~CanTake(bucket, tick)
  <2>1. refused' = tick /\ UNCHANGED <<tick, bucket, takes>>
    BY <1>3 DEF Message
  <2>2. BucketTypeOK'
    BY <2>1, BucketAssumption DEF BucketInv, BucketTypeOK
  <2> QED
    BY <1>3, <2>1, <2>2 DEF BucketInv, RateInv, TightInv, Regained, RefusedInv, WithinRate
<1>4. CASE UNCHANGED bucketVars
  BY <1>4 DEF bucketVars, BucketInv, BucketTypeOK, RateInv, TightInv, Regained, RefusedInv, WithinRate
<1> QED
  BY <1>1, <1>2, <1>3, <1>4 DEF BucketNext

\* A full bucket has taken nothing.
LEMMA BucketInitially == BucketInit => BucketInv
<1> SUFFICES ASSUME BucketInit
             PROVE  BucketInv
  OBVIOUS
<1>1. PICK size \in BucketSizes, period \in BucketPeriods : bucket = Full(size, period, 0)
  BY DEF BucketInit
<1>2. /\ bucket \in BucketType /\ bucket.tokens = bucket.capacity /\ bucket.last = 0
      /\ bucket.capacity \in Nat
  BY <1>1, BucketAssumption DEF Full, BucketType
<1>3. tick = 0 /\ takes = <<>> /\ refused = NeverRefused /\ NeverRefused # 0
  BY BucketAssumption DEF BucketInit, NeverRefused
<1>4. BucketTypeOK
  BY <1>2, <1>3, BucketAssumption DEF BucketTypeOK
<1>5. RateInv /\ TightInv /\ RefusedInv /\ WithinRate
  BY <1>2, <1>3 DEF RateInv, TightInv, RefusedInv, WithinRate
<1> QED
  BY <1>4, <1>5 DEF BucketInv

\* At a refusal the window that began with the last full bucket is at its rate.
LEMMA RefusalEarned ==
  ASSUME BucketInv
  PROVE  RefusedOnlyBeyondRate
<1> SUFFICES ASSUME refused = tick
             PROVE  /\ bucket.period > 0
                    /\ \E i \in DOMAIN takes :
                         Len(takes) - i + 2 > bucket.capacity + (tick - takes[i]) \div bucket.period
  BY DEF RefusedOnlyBeyondRate
<1>1. ~CanTake(bucket, tick)
  BY DEF BucketInv, RefusedInv
<1>2. PICK cap \in Nat \ {0}, per \in Nat, tok \in Nat, las \in Nat, n \in Nat :
        /\ bucket.capacity = cap /\ bucket.period = per /\ bucket.tokens = tok /\ bucket.last = las
        /\ n = Len(takes) /\ tok <= cap /\ las <= tick /\ tick \in Nat
  BY BucketAssumption DEF BucketInv, BucketTypeOK, BucketType
<1>3. bucket \in BucketType /\ DOMAIN takes = 1..n /\ \A i \in 1..n : takes[i] \in Nat
  BY <1>2 DEF BucketInv, BucketTypeOK
<1>4. Refilled(bucket, tick) # BucketOf(cap, per, cap, tick)
  BY <1>1, <1>2, TakenIs
<1>5. PICK e \in Nat : /\ Refilled(bucket, tick) = BucketOf(cap, per, tok + e, las + per * e)
                       /\ tok + e < cap /\ per # 0
                       /\ per * e <= tick - las /\ tick - las < per * e + per
  BY <1>2, <1>3, <1>4, RefilledIs
<1>6. ~(tok + e > 0)
  BY <1>1, <1>5, TakenIs
<1>7. tok = 0 /\ e = 0 /\ per * 0 = 0
  BY <1>6
<1>8. tick - las < per /\ per \in Nat \ {0} /\ tok < cap
  BY <1>5, <1>7
<1>9. PICK i \in 1..n : las - takes[i] = per * Regained(i)
  BY <1>2, <1>3, <1>8 DEF BucketInv, TightInv
<1>10. PICK k \in Int, x \in Int : k = n - i + 1 - cap /\ x = tick - takes[i] /\ las - takes[i] = per * k
  <2>1. Regained(i) = n - i + 1 - cap
    BY <1>2, <1>7 DEF Regained
  <2>2. n - i + 1 - cap \in Int /\ tick - takes[i] \in Int
    BY <1>2, <1>3
  <2>3. las - takes[i] = per * (n - i + 1 - cap)
    BY <1>9, <2>1, Zenon
  <2> QED
    BY <2>2, <2>3, Zenon
<1>11. x < per * (k + 1)
  <2>1. per * (k + 1) = per * k + per /\ per * k \in Int
    OBVIOUS
  <2> QED
    BY <1>2, <1>3, <1>8, <1>10, <2>1
<1>12. x \div per < k + 1 /\ x \div per \in Int
  BY <1>8, <1>11, DivAtMost, DivParts
<1>13. n - i + 2 > cap + x \div per
  BY <1>10, <1>12
<1>14. Len(takes) - i + 2 > bucket.capacity + (tick - takes[i]) \div bucket.period
  BY <1>2, <1>10, <1>13, Zenon
<1>15. i \in DOMAIN takes /\ bucket.period > 0
  BY <1>2, <1>3, <1>8
<1> QED
  BY <1>14, <1>15, Zenon

\* For any capacity and period, and messages at any times: no window takes more than the burst and
\* one message per whole period, and a message refused would have exceeded them.
THEOREM RateAlwaysExact == BucketSpec => []RateExact
<1>1. BucketInv /\ [BucketNext]_bucketVars => BucketInv'
  BY BucketStep
<1>2. BucketInv => RateExact
  BY RefusalEarned DEF BucketInv, RateExact
<1> QED
  BY <1>1, <1>2, BucketInitially, PTL DEF BucketSpec

-----------------------------------------------------------------------------
(* The rounds.                                                             *)

Stored == [round : RoundSet, at : Nat, source : RoundConns \cup {"poll"}, life : Nat]
Rings == Seq(RoundSet)
Entries == [held : BOOLEAN, shown : RoundSet \cup {NoRound}, recent : Rings,
            pace : BucketType \cup {NoPace}, warned : BOOLEAN]
OpenConns == [open : BOOLEAN, budget : BucketType, pace : BucketType, work : RoundSet \cup {NoRound}]

\* A bucket in use: never over its burst, its clock never ahead.
GoodBucket(b, burst, now) ==
    b \in BucketType /\ b.capacity = burst /\ b.tokens <= burst /\ b.last <= now
GoodPace(b, now) == GoodBucket(b, PaceBurst, now) /\ b.period = RoundSpacing

ConnOK(x, now) ==
    /\ x \in OpenConns \cup {NotYet, Closed}
    /\ x.open => x \in OpenConns /\ GoodBucket(x.budget, DecodeBurst, now) /\ GoodPace(x.pace, now)

ClockShape == ticks \in 0..MaxIntakeTime /\ registered \in BOOLEAN /\ deleting \in Nat /\ life \in Nat
EntryShape ==
    /\ entry \in Entries /\ Len(entry.recent) <= RecentRounds
    /\ entry.pace # NoPace => GoodPace(entry.pace, ticks)
ConnShape ==
    /\ rconns = [c \in RoundConns |-> rconns[c]] /\ \A c \in RoundConns : ConnOK(rconns[c], ticks)
PollShape == polling \in [PollTasks -> RoundSet \cup {"idle", "fetching"}]
PointShape ==
    /\ points \in Seq(Stored)
    /\ \A k \in 1..Len(points) : points[k].at <= ticks /\ points[k].life <= life
RoundShape == ClockShape /\ EntryShape /\ ConnShape /\ PollShape /\ PointShape

\* The ring holds the last RECENT_ROUNDS rounds of the entry's life, in their order.
RecentInv ==
    \A k \in 1..Len(points) :
        (points[k].life = life /\ Len(points) - k < RecentRounds) =>
            /\ Len(points) - k < Len(entry.recent)
            /\ entry.recent[Len(entry.recent) - (Len(points) - k)] = points[k].round

\* What the bucket has refilled since the i-th point took its periods of the refill clock.
Covers(b, count, at) == RoundSpacing * (b.tokens + count - PaceBurst) <= b.last - at
Charged(b, i) == Covers(b, Cardinality(Among(i, Len(points))), points[i].at)

\* Each point is charged to its source's pace, while the source goes on.
PaceInv ==
    /\ \A c \in RoundConns, i \in 1..Len(points) :
          points[i].source = c =>
              rconns[c] # NotYet /\ (rconns[c].open => Charged(rconns[c].pace, i))
    /\ \A i \in 1..Len(points) :
          points[i].source = "poll" /\ points[i].life = life =>
              entry.pace # NoPace /\ Charged(entry.pace, i)

RoundInv ==
    /\ RoundShape /\ RecentInv /\ RoundStoredOnce /\ PaceInv /\ SourcesPaced /\ ShownIsNewest
    /\ DeletedForgotten

-----------------------------------------------------------------------------
\* What the shape says of its parts.
LEMMA ShapeParts ==
  ASSUME RoundShape
  PROVE  /\ ticks \in Nat /\ life \in Nat /\ deleting \in Nat /\ registered \in BOOLEAN
         /\ points \in Seq(Stored) /\ entry \in Entries
         /\ entry.recent \in Seq(RoundSet) /\ Len(entry.recent) <= RecentRounds
<1>1. entry.recent \in Rings
  BY DEF RoundShape, EntryShape, Entries
<1>2. ticks \in Nat
  <2>1. MaxIntakeTime \in Nat
    BY RoundAssumption
  <2> QED
    BY <2>1 DEF RoundShape, ClockShape
<1> QED
  BY <1>1, <1>2, Zenon DEF RoundShape, ClockShape, EntryShape, PointShape, Rings

\* A full bucket is good.
LEMMA GoodFull ==
  ASSUME NEW burst \in Nat \ {0}, NEW period \in Nat, NEW now \in Nat
  PROVE  GoodBucket(Full(burst, period, now), burst, now) /\ Full(burst, period, now).period = period
         /\ Full(burst, period, now) \in BucketType /\ Full(burst, period, now) # NoPace
<1>1. PICK b : b = Full(burst, period, now)
  OBVIOUS
<1>2. b \in BucketType /\ b.capacity = burst /\ b.period = period /\ b.tokens = burst /\ b.last = now
  BY <1>1 DEF Full, BucketType
<1>3. NoPace.capacity = 0
  BY DEF NoPace, Full
<1> QED
  BY <1>1, <1>2, <1>3 DEF GoodBucket

\* A good bucket after a take.
LEMMA GoodTaken ==
  ASSUME NEW burst \in Nat \ {0}, NEW now \in Nat, NEW b, GoodBucket(b, burst, now), CanTake(b, now)
  PROVE  \E t \in Nat, l \in Nat :
            /\ Leaves(b, now, t, l) /\ GoodBucket(Taken(b, now), burst, now)
            /\ Taken(b, now).tokens = t /\ Taken(b, now).last = l
            /\ Taken(b, now).period = b.period /\ Taken(b, now) # NoPace
<1>1. PICK t \in Nat, l \in Nat : Taken(b, now) = BucketOf(b.capacity, b.period, t, l) /\ Leaves(b, now, t, l)
  BY TakesTo DEF GoodBucket
<1>2. t < burst /\ l <= now
  BY <1>1 DEF Leaves, GoodBucket
<1>3. PICK m : m = Taken(b, now)
  OBVIOUS
<1>4. PICK per \in Nat : per = b.period
  BY DEF GoodBucket, BucketType
<1>5. m = BucketOf(burst, per, t, l)
  BY <1>1, <1>3, <1>4 DEF GoodBucket
<1>6. m \in BucketType /\ m.capacity = burst /\ m.period = per /\ m.tokens = t /\ m.last = l
  BY <1>5 DEF BucketOf, BucketType
<1>7. NoPace.capacity = 0
  BY DEF NoPace, Full
<1>8. GoodBucket(m, burst, now) /\ m # NoPace
  BY <1>2, <1>6, <1>7 DEF GoodBucket
<1> QED
  BY <1>1, <1>3, <1>4, <1>6, <1>8

\* A source's pace after a take.
LEMMA PaceTaken ==
  ASSUME NEW b, NEW now \in Nat, GoodPace(b, now), CanTake(b, now)
  PROVE  GoodPace(Taken(b, now), now) /\ Taken(b, now) # NoPace
<1>1. GoodBucket(b, PaceBurst, now) /\ b.period = RoundSpacing /\ PaceBurst \in Nat \ {0}
  BY RoundAssumption DEF GoodPace
<1>2. GoodBucket(Taken(b, now), PaceBurst, now) /\ Taken(b, now).period = b.period /\ Taken(b, now) # NoPace
  BY <1>1, GoodTaken, Zenon
<1> QED
  BY <1>1, <1>2, Zenon DEF GoodPace

\* Time keeps a good bucket good.
LEMMA GoodLater ==
  ASSUME NEW b, NEW burst, NEW now \in Nat, NEW later \in Nat, now <= later, GoodBucket(b, burst, now)
  PROVE  GoodBucket(b, burst, later)
  BY DEF GoodBucket, BucketType

\* The points of a source in a stretch are finitely many.
LEMMA AmongFinite ==
  ASSUME NEW i \in Int, NEW j \in Int
  PROVE  IsFiniteSet(Among(i, j)) /\ Cardinality(Among(i, j)) \in Nat
<1>1. IsFiniteSet(i..j)
  BY FS_Interval
<1>2. IsFiniteSet(Among(i, j))
  BY <1>1, FS_Subset DEF Among
<1> QED
  BY <1>2, FS_CardinalityType

\* A point stored joins its source's.
LEMMA AmongAppend ==
  ASSUME points \in Seq(Stored), NEW m \in Stored, points' = Append(points, m),
         NEW n \in Nat, n = Len(points)
  PROVE  /\ Len(points') = n + 1 /\ points' \in Seq(Stored) /\ points'[n + 1] = m
         /\ \A i \in 1..n : points'[i] = points[i]
         /\ \A i \in 1..n, j \in 1..n : Among(i, j)' = Among(i, j)
         /\ \A i \in 1..n : Alike(points[i], m) =>
              Cardinality(Among(i, n + 1)') = Cardinality(Among(i, n)) + 1
         /\ \A i \in 1..n : ~Alike(points[i], m) => Among(i, n + 1)' = Among(i, n)
         /\ Cardinality(Among(n + 1, n + 1)') = 1
<1>1. /\ Len(points') = n + 1 /\ points' \in Seq(Stored) /\ points'[n + 1] = m
      /\ \A i \in 1..n : points'[i] = points[i]
  OBVIOUS
<1>2. \A i \in 1..n, j \in 1..n : Among(i, j)' = Among(i, j)
  <2> TAKE i \in 1..n, j \in 1..n
  <2>1. \A k \in i..j : k \in 1..n
    OBVIOUS
  <2> QED
    BY <1>1, <2>1 DEF Among
<1>3. ASSUME NEW i \in 1..n, Alike(points[i], m)
      PROVE  Cardinality(Among(i, n + 1)') = Cardinality(Among(i, n)) + 1
  <2>1. i..(n + 1) = (i..n) \cup {n + 1} /\ n + 1 \notin i..n /\ \A k \in i..n : k \in 1..n
    OBVIOUS
  <2>2. Among(i, n + 1)' = Among(i, n) \cup {n + 1} /\ n + 1 \notin Among(i, n)
    BY <1>1, <1>3, <2>1 DEF Among
  <2>3. IsFiniteSet(Among(i, n))
    BY AmongFinite
  <2> QED
    BY <2>2, <2>3, FS_AddElement
<1>4. ASSUME NEW i \in 1..n, ~Alike(points[i], m)
      PROVE  Among(i, n + 1)' = Among(i, n)
  <2>1. i..(n + 1) = (i..n) \cup {n + 1} /\ \A k \in i..n : k \in 1..n
    OBVIOUS
  <2> QED
    BY <1>1, <1>4, <2>1 DEF Among
<1>5. Cardinality(Among(n + 1, n + 1)') = 1
  <2>1. (n + 1)..(n + 1) = {n + 1}
    OBVIOUS
  <2>2. Alike(m, m)
    BY DEF Alike
  <2>3. Among(n + 1, n + 1)' = {n + 1}
    BY <1>1, <2>1, <2>2 DEF Among
  <2> QED
    BY <2>3, FS_Singleton
<1> QED
  BY <1>1, <1>2, <1>3, <1>4, <1>5

\* The ring z after a round r on the ring q: it is last, and the others keep their order.
RingAfter(q, r, z) ==
         /\ z \in Seq(RoundSet) /\ Len(z) \in 1..RecentRounds /\ z[Len(z)] = r
         /\ (Len(z) = RecentRounds \/ Len(z) = Len(q) + 1)
         /\ \A d \in Nat : d < Len(z) - 1 => d < Len(q) /\ z[Len(z) - (d + 1)] = q[Len(q) - d]

\* The ring after a round.
LEMMA RememberIs ==
  ASSUME NEW q \in Seq(RoundSet), Len(q) <= RecentRounds, NEW r \in RoundSet,
         NEW z, z = Remember(q, r)
  PROVE  RingAfter(q, r, z)
<1> RecentRounds \in Nat \ {0} /\ PaceBurst \in Nat \ {0} /\ RoundSpacing \in Nat \ {0}
  BY RoundAssumption
<1>1. CASE Len(q) = RecentRounds
  <2>1. z = Append(Tail(q), r)
    BY <1>1 DEF Remember
  <2>2. PICK y : y = Tail(q)
    OBVIOUS
  <2>3. y \in Seq(RoundSet) /\ Len(y) = Len(q) - 1 /\ \A k \in 1..Len(y) : y[k] = q[k + 1]
    BY <1>1, <2>2
  <2>4. z \in Seq(RoundSet) /\ Len(z) = Len(y) + 1 /\ z[Len(z)] = r /\ \A k \in 1..Len(y) : z[k] = y[k]
    BY <2>1, <2>2, <2>3
  <2>5. ASSUME NEW d \in Nat, d < Len(z) - 1
        PROVE  d < Len(q) /\ z[Len(z) - (d + 1)] = q[Len(q) - d]
    <3>0. Len(z) - (d + 1) \in Int
      BY <2>3, <2>4
    <3>1. PICK w \in Int : w = Len(z) - (d + 1)
      BY <3>0
    <3>2. w \in 1..Len(y) /\ w + 1 = Len(q) - d /\ d < Len(q)
      BY <2>3, <2>4, <2>5, <3>1
    <3>3. z[w] = y[w] /\ y[w] = q[w + 1]
      BY <2>3, <2>4, <3>2
    <3> QED
      BY <3>1, <3>2, <3>3
  <2> QED
    BY <1>1, <2>3, <2>4, <2>5 DEF RingAfter
<1>2. CASE Len(q) # RecentRounds
  <2>1. z = Append(q, r)
    BY <1>2 DEF Remember
  <2>4. z \in Seq(RoundSet) /\ Len(z) = Len(q) + 1 /\ z[Len(z)] = r /\ \A k \in 1..Len(q) : z[k] = q[k]
    BY <2>1
  <2>5. ASSUME NEW d \in Nat, d < Len(z) - 1
        PROVE  d < Len(q) /\ z[Len(z) - (d + 1)] = q[Len(q) - d]
    <3>0. Len(q) \in Nat /\ d < Len(q) /\ Len(q) - d \in 1..Len(q)
      BY <2>4, <2>5
    <3>1. PICK w \in 1..Len(q) : w = Len(q) - d
      BY <3>0
    <3>2. w = Len(z) - (d + 1)
      BY <2>4, <3>0, <3>1
    <3>3. z[w] = q[w]
      BY <2>4, <3>1
    <3> QED
      BY <3>0, <3>1, <3>2, <3>3, Zenon
  <2> QED
    BY <1>2, <2>4, <2>5 DEF RingAfter
<1> QED
  BY <1>1, <1>2

\* A ring and a history one round longer: the ring still holds the last rounds, and the round
\* stored was none of them.
LEMMA StoreRecent ==
  ASSUME RoundShape, RecentInv, RoundStoredOnce, NEW r \in RoundSet, r \notin Range(entry.recent),
         NEW m \in Stored, m.round = r, m.life = life, points' = Append(points, m), life' = life,
         entry'.recent = Remember(entry.recent, r)
  PROVE  RecentInv' /\ RoundStoredOnce'
<1> RecentRounds \in Nat \ {0} /\ PaceBurst \in Nat \ {0} /\ RoundSpacing \in Nat \ {0}
  BY RoundAssumption
<1>a. entry.recent \in Seq(RoundSet) /\ Len(entry.recent) <= RecentRounds /\ points \in Seq(Stored)
  BY ShapeParts
<1>b. PICK n \in Nat : n = Len(points)
  BY <1>a
<1>c. PICK q \in Seq(RoundSet) : q = entry.recent
  BY <1>a
<1>d. \E z : z = entry'.recent
  OBVIOUS
<1>e. PICK z : z = entry'.recent
  BY <1>d
<1>1. /\ n = Len(points) /\ q = entry.recent /\ z = entry'.recent /\ Len(q) <= RecentRounds
      /\ z = Remember(q, r)
  BY <1>a, <1>b, <1>c, <1>e
<1>2. /\ z \in Seq(RoundSet) /\ Len(z) \in 1..RecentRounds /\ z[Len(z)] = r
      /\ (Len(z) = RecentRounds \/ Len(z) = Len(q) + 1)
      /\ \A d \in Nat : d < Len(z) - 1 => d < Len(q) /\ z[Len(z) - (d + 1)] = q[Len(q) - d]
  <2>1. RingAfter(q, r, z)
    BY <1>1, RememberIs, Zenon
  <2> QED
    BY <2>1 DEF RingAfter
<1>3. /\ Len(points') = n + 1 /\ points'[n + 1] = m /\ \A i \in 1..n : points'[i] = points[i]
      /\ DOMAIN points' = 1..(n + 1) /\ DOMAIN points = 1..n
  BY <1>1, <1>a
<1>n. \A i \in 1..(n + 1) : i \in 1..n \/ i = n + 1
  OBVIOUS
<1>4. \A k \in 1..n : (points[k].life = life /\ n - k < RecentRounds) =>
                        n - k < Len(q) /\ q[Len(q) - (n - k)] = points[k].round
  BY <1>1 DEF RecentInv
<1>5. RecentInv'
  <2> SUFFICES ASSUME NEW k \in 1..(n + 1), points'[k].life = life, (n + 1) - k < RecentRounds
               PROVE  (n + 1) - k < Len(z) /\ z[Len(z) - ((n + 1) - k)] = points'[k].round
    BY <1>1, <1>3 DEF RecentInv
  <2>1. CASE k = n + 1
    <3>1. (n + 1) - k = 0 /\ Len(z) - 0 = Len(z) /\ 0 < Len(z)
      BY <1>2, <2>1
    <3> QED
      BY <1>2, <1>3, <2>1, <3>1
  <2>2. CASE k \in 1..n
    <3>1. PICK d \in Nat : d = n - k
      BY <2>2
    <3>2. d < Len(q) /\ q[Len(q) - d] = points[k].round /\ points'[k] = points[k]
      BY <1>3, <1>4, <2>2, <3>1
    <3>3. d < Len(z) - 1 /\ (n + 1) - k = d + 1
      BY <1>1, <1>2, <2>2, <3>1, <3>2
    <3> QED
      BY <1>2, <3>2, <3>3
  <2> QED
    BY <1>n, <2>1, <2>2
<1>6. RoundStoredOnce'
  <2> SUFFICES ASSUME NEW i \in 1..(n + 1), NEW j \in 1..(n + 1), i < j,
                      points'[i].round = points'[j].round, points'[i].life = points'[j].life
               PROVE  j - i > RecentRounds
    BY <1>3 DEF RoundStoredOnce
  <2>1. CASE j \in 1..n
    <3>1. i \in 1..n /\ points'[i] = points[i] /\ points'[j] = points[j]
      BY <1>3, <2>1
    <3> QED
      BY <1>3, <2>1, <3>1 DEF RoundStoredOnce
  <2>2. CASE j = n + 1
    <3>1. i \in 1..n /\ points[i].round = r /\ points[i].life = life
      BY <1>3, <2>2
    <3>2. SUFFICES ASSUME n - i < RecentRounds
                   PROVE  FALSE
      BY <2>2
    <3>3. n - i < Len(q) /\ q[Len(q) - (n - i)] = r
      BY <1>4, <3>1, <3>2
    <3>4. Len(q) - (n - i) \in DOMAIN q
      BY <1>1, <3>1, <3>3
    <3> QED
      BY <1>1, <3>3, <3>4 DEF Range
  <2> QED
    BY <1>n, <2>1, <2>2
<1> QED
  BY <1>5, <1>6

\* A longer stretch has no fewer periods.
LEMMA DivMonotone ==
  ASSUME NEW p \in Nat \ {0}, NEW x \in Int, NEW y \in Int, x <= y
  PROVE  x \div p <= y \div p
<1>1. PICK d \in Int : d = x \div p /\ p * d <= x
  BY DivParts
<1>2. p * d <= y
  <2>1. p * d \in Int
    BY Times
  <2> QED
    BY <1>1, <2>1
<1> QED
  BY <1>1, <1>2, DivAtLeast

\* A later time is further.
LEMMA Differences ==
  ASSUME NEW u \in Nat, NEW v \in Nat, NEW w \in Nat, v <= w
  PROVE  v - u \in Int /\ w - u \in Int /\ v - u <= w - u
  OBVIOUS

\* The pace after a take covers the point stored and the source's earlier ones, and no stretch
\* is over its rate.
LEMMA StorePaced ==
  ASSUME RoundShape, SourcesPaced, NEW m \in Stored, m.at = ticks, points' = Append(points, m),
         NEW b, GoodPace(b, ticks), CanTake(b, ticks),
         \A i \in 1..Len(points) : Alike(points[i], m) => Charged(b, i)
  PROVE  /\ SourcesPaced'
         /\ \A i \in 1..Len(points') : Alike(points'[i], m) =>
              Covers(Taken(b, ticks), Cardinality(Among(i, Len(points))'), points'[i].at)
<1> RecentRounds \in Nat \ {0} /\ PaceBurst \in Nat \ {0} /\ RoundSpacing \in Nat \ {0}
  BY RoundAssumption
<1>1. PICK n \in Nat, now \in Nat : n = Len(points) /\ now = ticks /\ points \in Seq(Stored)
  BY ShapeParts
<1>2. /\ Len(points') = n + 1 /\ points' \in Seq(Stored) /\ points'[n + 1] = m
      /\ \A i \in 1..n : points'[i] = points[i]
      /\ \A i \in 1..n, j \in 1..n : Among(i, j)' = Among(i, j)
      /\ \A i \in 1..n : Alike(points[i], m) =>
              Cardinality(Among(i, n + 1)') = Cardinality(Among(i, n)) + 1
      /\ \A i \in 1..n : ~Alike(points[i], m) => Among(i, n + 1)' = Among(i, n)
      /\ Cardinality(Among(n + 1, n + 1)') = 1
  BY <1>1, AmongAppend
<1>3. PICK t \in Nat, l \in Nat : /\ Leaves(b, now, t, l) /\ GoodBucket(Taken(b, now), PaceBurst, now)
                                 /\ Taken(b, now).tokens = t /\ Taken(b, now).last = l
  BY <1>1, GoodTaken DEF GoodPace
<1>4. PICK tok \in Nat, las \in Nat :
         /\ b \in BucketType /\ b.capacity = PaceBurst /\ b.period = RoundSpacing
         /\ b.tokens = tok /\ b.last = las /\ las <= now
  BY <1>1 DEF GoodPace, GoodBucket, BucketType
<1>5. /\ RoundSpacing * (t + 1 - PaceBurst) <= l - now
      /\ \A c \in Int, x \in Int :
              RoundSpacing * (tok + c - PaceBurst) <= las - x
                => RoundSpacing * (t + (c + 1) - PaceBurst) <= l - x
  BY <1>1, <1>3, <1>4, TakeCounts
<1>6. t \in Nat /\ l <= now
  BY <1>3, <1>4 DEF Leaves
<1>7. \A i \in 1..n : points[i].at \in Nat /\ points[i].at <= now
  <2>1. \A i \in 1..n : points[i] \in Stored
    BY <1>1
  <2>2. \A i \in 1..n : points[i].at <= now
    BY <1>1 DEF RoundShape, PointShape
  <2> QED
    BY <2>1, <2>2 DEF Stored
<1>f. \A i \in 1..n : i \in Int /\ Cardinality(Among(i, n)) \in Nat
  <2> TAKE i \in 1..n
  <2>1. i \in Int /\ n \in Int
    OBVIOUS
  <2> QED
    BY <2>1, AmongFinite, Zenon
<1>n. \A i \in 1..(n + 1) : i \in 1..n \/ i = n + 1
  OBVIOUS
<1>8. ASSUME NEW i \in 1..(n + 1), Alike(points'[i], m)
      PROVE  RoundSpacing * (t + Cardinality(Among(i, n + 1)') - PaceBurst) <= l - points'[i].at
  <2>1. CASE i = n + 1
    BY <1>1, <1>2, <1>5, <2>1
  <2>2. CASE i \in 1..n
    <3>1. Alike(points[i], m) /\ points'[i] = points[i]
      BY <1>2, <1>8, <2>2
    <3>2. PICK c \in Int, x \in Int : c = Cardinality(Among(i, n)) /\ x = points[i].at
      BY <1>7, <2>2, <1>f
    <3>3. RoundSpacing * (tok + c - PaceBurst) <= las - x
      BY <1>1, <1>4, <2>2, <3>1, <3>2 DEF Charged, Covers
    <3>4. RoundSpacing * (t + (c + 1) - PaceBurst) <= l - x
      BY <1>5, <3>3
    <3>5. Cardinality(Among(i, n + 1)') = c + 1
      BY <1>2, <2>2, <3>1, <3>2
    <3> QED
      BY <3>1, <3>2, <3>4, <3>5
  <2> QED
    BY <1>n, <2>1, <2>2
<1>9. SourcesPaced'
  <2> SUFFICES ASSUME NEW i \in 1..(n + 1), NEW j \in 1..(n + 1), i <= j
               PROVE  Cardinality(Among(i, j)')
                        <= PaceBurst + (points'[j].at - points'[i].at) \div RoundSpacing
    BY <1>2 DEF SourcesPaced
  <2>1. CASE j \in 1..n
    <3>1. i \in 1..n /\ DOMAIN points = 1..n
      BY <1>1, <2>1
    <3> QED
      BY <1>2, <2>1, <3>1 DEF SourcesPaced
  <2>2. CASE j = n + 1 /\ Alike(points'[i], m)
    <3>1. PICK c \in Int, x \in Int : c = Cardinality(Among(i, n + 1)') /\ x = points'[i].at /\ x <= now
      <4>1. CASE i = n + 1
        BY <1>1, <1>2, <4>1
      <4>2. CASE i \in 1..n
        <5>1. Cardinality(Among(i, n + 1)') = Cardinality(Among(i, n)) + 1
          BY <1>2, <2>2, <4>2
        <5>2. Cardinality(Among(i, n)) \in Nat
          BY <1>f, <4>2
        <5> QED
          BY <1>2, <1>7, <4>2, <5>1, <5>2
      <4> QED
        BY <1>n, <4>1, <4>2
    <3>2. RoundSpacing * (t + c - PaceBurst) <= l - x
      BY <1>8, <2>2, <3>1
    <3>3. RoundSpacing * (c - PaceBurst) <= RoundSpacing * (t + c - PaceBurst)
      <4>1. c - PaceBurst <= t + c - PaceBurst /\ c - PaceBurst \in Int /\ t + c - PaceBurst \in Int
        OBVIOUS
      <4> QED
        BY <4>1, Times
    <3>4. RoundSpacing * (c - PaceBurst) <= now - x
      <4>1. PICK u \in Int, v \in Int : u = RoundSpacing * (c - PaceBurst) /\ v = RoundSpacing * (t + c - PaceBurst)
        OBVIOUS
      <4>2. u <= v /\ v <= l - x
        BY <3>2, <3>3, <4>1
      <4>3. u <= now - x
        BY <1>6, <4>2
      <4> QED
        BY <4>1, <4>3
    <3>5. c - PaceBurst <= (now - x) \div RoundSpacing /\ (now - x) \div RoundSpacing \in Int
      <4>1. c - PaceBurst \in Int /\ now - x \in Int
        OBVIOUS
      <4> QED
        BY <3>4, <4>1, DivAtLeast, DivParts
    <3>6. PICK d \in Int : d = (now - x) \div RoundSpacing
      BY <3>5
    <3>7. c <= PaceBurst + d
      BY <3>5, <3>6
    <3>8. points'[j].at = now /\ Among(i, j)' = Among(i, n + 1)'
      BY <1>1, <1>2, <2>2
    <3> QED
      BY <3>1, <3>6, <3>7, <3>8
  <2>3. CASE j = n + 1 /\ ~Alike(points'[i], m)
    <3>1. i \in 1..n
      BY <1>2, <2>3 DEF Alike
    <3>2. Among(i, j)' = Among(i, n) /\ n \in 1..n /\ i <= n /\ points'[i] = points[i]
      BY <1>2, <2>3, <3>1
    <3>3. Cardinality(Among(i, n)) <= PaceBurst + (points[n].at - points[i].at) \div RoundSpacing
      <4>1. DOMAIN points = 1..n
        BY <1>1
      <4> QED
        BY <3>1, <3>2, <4>1 DEF SourcesPaced
    <3>4. PICK x \in Int, y \in Int, c \in Int :
             x = points[n].at - points[i].at /\ y = now - points[i].at /\ x <= y
             /\ c = Cardinality(Among(i, n))
      <4>1. points[n].at \in Nat /\ points[n].at <= now /\ points[i].at \in Nat /\ Cardinality(Among(i, n)) \in Nat
        BY <1>7, <1>f, <3>1, <3>2
      <4>2. PICK u \in Nat, v \in Nat : u = points[i].at /\ v = points[n].at /\ v <= now
        BY <4>1, Zenon
      <4>3. v - u \in Int /\ now - u \in Int /\ v - u <= now - u
        BY <4>2, Differences, Zenon
      <4>4. Cardinality(Among(i, n)) \in Int
        BY <4>1
      <4> QED
        BY <4>2, <4>3, <4>4, Zenon
    <3>5. x \div RoundSpacing <= y \div RoundSpacing /\ x \div RoundSpacing \in Int /\ y \div RoundSpacing \in Int
      BY <3>4, DivMonotone, DivParts
    <3>6. c <= PaceBurst + y \div RoundSpacing
      BY <3>3, <3>4, <3>5
    <3> QED
      BY <1>1, <1>2, <2>3, <3>2, <3>4, <3>6
  <2> QED
    BY <1>n, <2>1, <2>2, <2>3
<1> QED
  BY <1>1, <1>2, <1>3, <1>8, <1>9 DEF Covers

-----------------------------------------------------------------------------
(* The connections' records.                                               *)

\* A connection's record y after a step that stores nothing of it, x before.
Kept(x, y) ==
    /\ x # NotYet => y # NotYet
    /\ y.open => (x = NotYet \/ (x.open /\ y.pace = x.pace))

\* What an open connection's record holds.
LEMMA ConnParts ==
  ASSUME NEW x, NEW now, ConnOK(x, now), x.open
  PROVE  /\ x \in OpenConns /\ x.open = TRUE /\ x # NotYet /\ x # Closed
         /\ GoodBucket(x.budget, DecodeBurst, now) /\ GoodPace(x.pace, now)
         /\ x.work \in RoundSet \cup {NoRound}
<1>1. x \in OpenConns /\ GoodBucket(x.budget, DecodeBurst, now) /\ GoodPace(x.pace, now)
  BY Zenon DEF ConnOK
<1>2. x.open \in BOOLEAN /\ x.work \in RoundSet \cup {NoRound}
  BY <1>1 DEF OpenConns
<1>3. NotYet.open = FALSE /\ Closed.open = FALSE
  BY DEF NotYet, Closed
<1> QED
  BY <1>1, <1>2, <1>3, Zenon

\* A connection that ended, or was not yet opened.
LEMMA ConnEnded ==
  ASSUME NEW now
  PROVE  ConnOK(Closed, now) /\ ConnOK(NotYet, now) /\ Closed # NotYet /\ ~Closed.open /\ ~NotYet.open
<1>1. NotYet.open = FALSE /\ Closed.open = FALSE /\ NotYet.used = FALSE /\ Closed.used = TRUE
  BY DEF NotYet, Closed
<1> QED
  BY <1>1, Zenon DEF ConnOK

\* A connection opened.
LEMMA ConnOpened ==
  ASSUME NEW now \in Nat
  PROVE  ConnOK(OpenConn(now), now) /\ OpenConn(now) # NotYet
<1>1. DecodeBurst \in Nat \ {0} /\ DecodeRefill \in Nat /\ PaceBurst \in Nat \ {0} /\ RoundSpacing \in Nat
  BY RoundAssumption
<1>2. PICK bud, pac : bud = Full(DecodeBurst, DecodeRefill, now) /\ pac = Full(PaceBurst, RoundSpacing, now)
  OBVIOUS
<1>3. GoodBucket(bud, DecodeBurst, now) /\ bud \in BucketType
  BY <1>1, <1>2, GoodFull
<1>4. GoodPace(pac, now) /\ pac \in BucketType
  BY <1>1, <1>2, GoodFull DEF GoodPace
<1>5. PICK x : x = OpenConn(now)
  OBVIOUS
<1>6. PICK o \in BOOLEAN : o = TRUE
  OBVIOUS
<1>7. x = [open |-> o, budget |-> bud, pace |-> pac, work |-> NoRound]
  BY <1>2, <1>5, <1>6, Zenon DEF OpenConn, Pace
<1>8. x \in OpenConns /\ x.open = o /\ x.budget = bud /\ x.pace = pac
  BY <1>3, <1>4, <1>7 DEF OpenConns
<1>9. ConnOK(x, now)
  BY <1>3, <1>4, <1>8, Zenon DEF ConnOK
<1>10. x # NotYet
  BY <1>6, <1>8, ConnEnded, Zenon
<1> QED
  BY <1>5, <1>9, <1>10, Zenon

\* A connection's record with its budget, its pace and its round.
ConnWith(x, bud, pac, r) == [x EXCEPT !.budget = bud, !.pace = pac, !.work = r]

\* A connection that takes a round, or is done with it.
LEMMA ConnWorks ==
  ASSUME NEW x, NEW now \in Nat, ConnOK(x, now), x.open, NEW r \in RoundSet \cup {NoRound}, NEW y,
         NEW bud, GoodBucket(bud, DecodeBurst, now), NEW pac, GoodPace(pac, now),
         y = ConnWith(x, bud, pac, r)
  PROVE  ConnOK(y, now) /\ y.open /\ y.pace = pac /\ y # NotYet /\ y.work = r
<1>1. x \in OpenConns /\ x.open = TRUE
  BY ConnParts, Zenon
<1>2. bud \in BucketType /\ pac \in BucketType
  BY Zenon DEF GoodPace, GoodBucket
<1>3. y \in OpenConns /\ y.open = x.open /\ y.budget = bud /\ y.pace = pac /\ y.work = r
  BY <1>1, <1>2 DEF OpenConns, ConnWith
<1>4. ConnOK(y, now)
  BY <1>3, Zenon DEF ConnOK
<1> QED
  BY <1>1, <1>3, <1>4, ConnEnded, Zenon

\* A connection that stored its round, its pace spent.
LEMMA ConnSpends ==
  ASSUME NEW x, NEW now \in Nat, ConnOK(x, now), x.open, CanTake(x.pace, now), NEW y,
         y = ConnWith(x, x.budget, Taken(x.pace, now), NoRound)
  PROVE  ConnOK(y, now) /\ y.open /\ y.pace = Taken(x.pace, now) /\ y # NotYet
<1>1. PICK b, bud, pac : b = x.pace /\ bud = x.budget /\ pac = Taken(b, now)
  OBVIOUS
<1>2. GoodBucket(bud, DecodeBurst, now) /\ GoodPace(b, now)
  BY <1>1, ConnParts, Zenon
<1>3. GoodPace(pac, now)
  BY <1>1, <1>2, PaceTaken, Zenon
<1>4. y = ConnWith(x, bud, pac, NoRound) /\ NoRound \in RoundSet \cup {NoRound}
  BY <1>1, Zenon
<1>5. ConnOK(y, now) /\ y.open /\ y.pace = pac /\ y # NotYet
  BY <1>2, <1>3, <1>4, ConnWorks
<1> QED
  BY <1>1, <1>5, Zenon

\* One connection's record is replaced.
LEMMA ConnSet ==
  ASSUME ConnShape, NEW c \in RoundConns, NEW m, ConnOK(m, ticks), ticks' = ticks,
         rconns' = [rconns EXCEPT ![c] = m]
  PROVE  ConnShape' /\ rconns'[c] = m /\ \A d \in RoundConns : d # c => rconns'[d] = rconns[d]
<1>1. rconns = [d \in RoundConns |-> rconns[d]]
  BY DEF ConnShape
<1>2. rconns'[c] = m /\ \A d \in RoundConns : d # c => rconns'[d] = rconns[d]
  BY <1>1
<1>3. rconns' = [d \in RoundConns |-> rconns'[d]]
  BY <1>1
<1>4. \A d \in RoundConns : ConnOK(rconns'[d], ticks')
  <2> TAKE d \in RoundConns
  <2>1. CASE d = c
    BY <1>2, <2>1, Zenon
  <2>2. CASE d # c
    <3>1. ConnOK(rconns[d], ticks)
      BY Zenon DEF ConnShape
    <3> QED
      BY <1>2, <2>2, <3>1, Zenon
  <2> QED
    BY <2>1, <2>2
<1> QED
  BY <1>2, <1>3, <1>4, Zenon DEF ConnShape

-----------------------------------------------------------------------------
(* Steps that store nothing.                                               *)

\* The history, the ring and the paces of the sources are as they were.
LEMMA Unstored ==
  ASSUME RecentInv, RoundStoredOnce, PaceInv, SourcesPaced, points' = points, life' = life,
         entry'.recent = entry.recent, entry'.pace = entry.pace,
         \A c \in RoundConns : Kept(rconns[c], rconns'[c])
  PROVE  RecentInv' /\ RoundStoredOnce' /\ PaceInv' /\ SourcesPaced'
<1>1. RecentInv' /\ RoundStoredOnce'
  BY DEF RecentInv, RoundStoredOnce
<1>2. \A i, j : Among(i, j)' = Among(i, j)
  BY DEF Among
<1>3. SourcesPaced'
  BY <1>2, Zenon DEF SourcesPaced
<1>5. ASSUME NEW c \in RoundConns, NEW i \in 1..Len(points), points[i].source = c
      PROVE  rconns'[c] # NotYet /\ (rconns'[c].open => Charged(rconns[c].pace, i)')
  <2>1. rconns[c] # NotYet /\ (rconns[c].open => Charged(rconns[c].pace, i))
    BY <1>5, Zenon DEF PaceInv
  <2>2. rconns'[c] # NotYet /\ (rconns'[c].open => (rconns[c].open /\ rconns'[c].pace = rconns[c].pace))
    BY <2>1, Zenon DEF Kept
  <2>3. Covers(rconns[c].pace, Cardinality(Among(i, Len(points))), points[i].at)
          = Covers(rconns[c].pace, Cardinality(Among(i, Len(points)))', points'[i].at)
    BY <1>2, Zenon
  <2> QED
    BY <2>1, <2>2, <2>3, Zenon DEF Charged
<1>6. ASSUME NEW i \in 1..Len(points), points[i].source = "poll" /\ points[i].life = life
      PROVE  entry'.pace # NoPace /\ Charged(entry.pace, i)'
  <2>1. entry.pace # NoPace /\ Charged(entry.pace, i)
    BY <1>6, Zenon DEF PaceInv
  <2>3. Covers(entry.pace, Cardinality(Among(i, Len(points))), points[i].at)
          = Covers(entry'.pace, Cardinality(Among(i, Len(points)))', points'[i].at)
    BY <1>2, Zenon
  <2> QED
    BY <2>1, <2>3, Zenon DEF Charged
<1>7. PaceInv'
  BY <1>5, <1>6, Zenon DEF PaceInv
<1> QED
  BY <1>1, <1>3, <1>7

\* A step of one connection that stores nothing.
LEMMA ConnQuiet ==
  ASSUME RoundInv, NEW c \in RoundConns, NEW m, ConnOK(m, ticks), Kept(rconns[c], m),
         rconns' = [rconns EXCEPT ![c] = m], registered' = registered \/ registered' = TRUE,
         UNCHANGED <<ticks, points, entry, life, polling, deleting>>
  PROVE  RoundInv'
<1>1. ConnShape' /\ rconns'[c] = m /\ \A d \in RoundConns : d # c => rconns'[d] = rconns[d]
  BY ConnSet, Zenon DEF RoundInv, RoundShape
<1>2. \A d \in RoundConns : Kept(rconns[d], rconns'[d])
  <2> TAKE d \in RoundConns
  <2>1. ASSUME d # c
        PROVE  Kept(rconns[d], rconns'[d])
    BY <1>1, <2>1, Zenon DEF Kept
  <2> QED
    BY <1>1, <2>1, Zenon
<1>3. RecentInv' /\ RoundStoredOnce' /\ PaceInv' /\ SourcesPaced'
  BY <1>2, Unstored, Zenon DEF RoundInv
<1>4. ClockShape'
  BY Zenon DEF RoundInv, RoundShape, ClockShape
<1>5. EntryShape' /\ PollShape' /\ PointShape'
  BY Zenon DEF RoundInv, RoundShape, EntryShape, PollShape, PointShape
<1>6. ShownIsNewest' /\ DeletedForgotten'
  BY Zenon DEF RoundInv, ShownIsNewest, DeletedForgotten
<1> QED
  BY <1>1, <1>3, <1>4, <1>5, <1>6, Zenon DEF RoundInv, RoundShape

\* A poll's step that stores nothing: the round shown stays or is forgotten.
LEMMA PollQuiet ==
  ASSUME RoundInv, PollShape', entry' \in Entries, entry'.recent = entry.recent,
         entry'.pace = entry.pace, entry'.shown = entry.shown \/ entry'.shown = NoRound,
         UNCHANGED <<ticks, registered, points, life, rconns, deleting>>
  PROVE  RoundInv'
<1>1. RecentInv' /\ RoundStoredOnce' /\ PaceInv' /\ SourcesPaced'
  <2>1. \A c \in RoundConns : Kept(rconns[c], rconns'[c])
    BY Zenon DEF Kept
  <2> QED
    BY <2>1, Unstored, Zenon DEF RoundInv
<1>2. ClockShape' /\ ConnShape' /\ PointShape'
  BY Zenon DEF RoundInv, RoundShape, ClockShape, ConnShape, PointShape
<1>3. EntryShape'
  BY Zenon DEF RoundInv, RoundShape, EntryShape
<1>4. ShownIsNewest'
  BY Zenon DEF RoundInv, ShownIsNewest
<1>5. DeletedForgotten'
  BY Zenon DEF RoundInv, DeletedForgotten
<1> QED
  BY <1>1, <1>2, <1>3, <1>4, <1>5, Zenon DEF RoundInv, RoundShape

\* Time passes.
LEMMA IntakeTickStep ==
  ASSUME RoundInv, IntakeTick
  PROVE  RoundInv'
<1>1. /\ ticks < MaxIntakeTime /\ ticks' = ticks + 1
      /\ UNCHANGED <<registered, points, entry, life, rconns, polling, deleting>>
  BY DEF IntakeTick
<1>2. ticks \in Nat /\ ticks' \in Nat /\ ticks <= ticks'
  BY <1>1, ShapeParts DEF RoundInv
<1>3. ClockShape'
  <2>1. MaxIntakeTime \in Nat /\ ticks \in 0..MaxIntakeTime
    BY RoundAssumption DEF RoundInv, RoundShape, ClockShape
  <2>2. ticks' \in 0..MaxIntakeTime
    BY <1>1, <2>1
  <2> QED
    BY <1>1, <2>2, Zenon DEF RoundInv, RoundShape, ClockShape
<1>4. EntryShape'
  <2>1. GoodPace(entry.pace, ticks) => GoodPace(entry.pace, ticks')
    BY <1>2, GoodLater, Zenon DEF GoodPace
  <2> QED
    BY <1>1, <2>1, Zenon DEF RoundInv, RoundShape, EntryShape
<1>5. ConnShape'
  <2>1. ASSUME NEW c \in RoundConns
        PROVE  ConnOK(rconns[c], ticks')
    <3>1. ConnOK(rconns[c], ticks)
      BY Zenon DEF RoundInv, RoundShape, ConnShape
    <3> QED
      BY <1>2, <3>1, GoodLater, Zenon DEF ConnOK, GoodPace
  <2> QED
    BY <1>1, <2>1, Zenon DEF RoundInv, RoundShape, ConnShape
<1>6. PointShape'
  <2>1. ASSUME NEW k \in 1..Len(points)
        PROVE  points[k].at <= ticks'
    <3>1. points[k].at <= ticks /\ points[k] \in Stored
      BY DEF RoundInv, RoundShape, PointShape
    <3>2. PICK at \in Nat : at = points[k].at
      BY <3>1 DEF Stored
    <3> QED
      BY <1>2, <3>1, <3>2
  <2> QED
    BY <1>1, <2>1, Zenon DEF RoundInv, RoundShape, PointShape
<1>7. RecentInv' /\ RoundStoredOnce' /\ PaceInv' /\ SourcesPaced'
  <2>1. \A c \in RoundConns : Kept(rconns[c], rconns'[c])
    BY <1>1, Zenon DEF Kept
  <2> QED
    BY <1>1, <2>1, Unstored, Zenon DEF RoundInv
<1>8. PollShape' /\ ShownIsNewest' /\ DeletedForgotten'
  BY <1>1, Zenon DEF RoundInv, RoundShape, PollShape, ShownIsNewest, DeletedForgotten
<1> QED
  BY <1>3, <1>4, <1>5, <1>6, <1>7, <1>8, Zenon DEF RoundInv, RoundShape

\* The row goes, and the history with it.
LEMMA RemoveSystemStep ==
  ASSUME RoundInv, RemoveSystem
  PROVE  RoundInv'
<1>1. /\ registered' = FALSE /\ points' = <<>> /\ deleting' = deleting + 1
      /\ UNCHANGED <<ticks, entry, life, rconns, polling>>
  BY DEF RemoveSystem
<1>2. deleting \in Nat /\ deleting' \in Nat /\ deleting' # 0
  BY <1>1, ShapeParts DEF RoundInv
<1>3. Len(points') = 0 /\ points' \in Seq(Stored) /\ 1..Len(points') = {} /\ DOMAIN points' = {}
  BY <1>1
<1>4. ClockShape' /\ PointShape'
  BY <1>1, <1>2, <1>3, Zenon DEF RoundInv, RoundShape, ClockShape, PointShape
<1>5. EntryShape' /\ ConnShape' /\ PollShape'
  BY <1>1, Zenon DEF RoundInv, RoundShape, EntryShape, ConnShape, PollShape
<1>6. RecentInv' /\ RoundStoredOnce' /\ PaceInv' /\ SourcesPaced'
  BY <1>3, Zenon DEF RecentInv, RoundStoredOnce, PaceInv, SourcesPaced
<1>7. ShownIsNewest' /\ DeletedForgotten'
  BY <1>1, <1>2, Zenon DEF ShownIsNewest, DeletedForgotten
<1> QED
  BY <1>4, <1>5, <1>6, <1>7, Zenon DEF RoundInv, RoundShape

\* An entry that holds nothing.
LEMMA EmptyEntry ==
  NoEntry \in Entries /\ NoEntry.recent = <<>> /\ NoEntry.pace = NoPace /\ NoEntry.shown = NoRound
<1>1. PICK o \in BOOLEAN : o = FALSE
  OBVIOUS
<1>2. PICK x : x = NoEntry
  OBVIOUS
<1>3. x = [held |-> o, shown |-> NoRound, recent |-> <<>>, pace |-> NoPace, warned |-> o]
  BY <1>1, <1>2, Zenon DEF NoEntry
<1>4. <<>> \in Rings
  BY DEF Rings
<1>5. PICK q \in Rings : q = <<>>
  BY <1>4
<1>6. x = [held |-> o, shown |-> NoRound, recent |-> q, pace |-> NoPace, warned |-> o]
  BY <1>3, <1>5, Zenon
<1>7. x \in Entries /\ x.recent = q /\ x.pace = NoPace /\ x.shown = NoRound
  BY <1>6 DEF Entries
<1> QED
  BY <1>2, <1>5, <1>7, Zenon

\* The live applications go: the entry's next life begins.
LEMMA RemoveApplicationsStep ==
  ASSUME RoundInv, RemoveApplications
  PROVE  RoundInv'
<1>1. /\ deleting > 0 /\ deleting' = deleting - 1 /\ entry' = NoEntry /\ life' = life + 1
      /\ UNCHANGED <<ticks, registered, points, rconns, polling>>
  BY DEF RemoveApplications
<1>2. /\ entry' \in Entries /\ entry'.recent = <<>> /\ entry'.pace = NoPace /\ entry'.shown = NoRound
  BY <1>1, EmptyEntry, Zenon
<1>3. deleting' \in Nat /\ life \in Nat /\ life' \in Nat
  BY <1>1, ShapeParts DEF RoundInv
<1>4. \A k \in 1..Len(points) : points[k].life <= life' /\ points[k].life # life'
  <2> TAKE k \in 1..Len(points)
  <2>1. points[k].life <= life /\ points[k] \in Stored
    BY DEF RoundInv, RoundShape, PointShape
  <2>2. PICK x \in Nat : x = points[k].life
    BY <2>1 DEF Stored
  <2> QED
    BY <1>1, <1>3, <2>1, <2>2
<1>5. ClockShape' /\ ConnShape' /\ PollShape' /\ PointShape'
  BY <1>1, <1>3, <1>4, Zenon DEF RoundInv, RoundShape, ClockShape, ConnShape, PollShape, PointShape
<1>6. EntryShape'
  <2>1. Len(entry'.recent) <= RecentRounds
    <3>1. RecentRounds \in Nat /\ Len(<<>>) = 0
      BY RoundAssumption
    <3> QED
      BY <1>2, <3>1
  <2> QED
    BY <1>2, <2>1, Zenon DEF EntryShape
<1>7. RecentInv' /\ RoundStoredOnce'
  BY <1>1, <1>4, Zenon DEF RoundInv, RecentInv, RoundStoredOnce
<1>8. \A i, j : Among(i, j)' = Among(i, j)
  BY <1>1 DEF Among
<1>9. SourcesPaced'
  BY <1>1, <1>8, Zenon DEF RoundInv, SourcesPaced
<1>10. PaceInv'
  <2>1. ASSUME NEW c \in RoundConns, NEW i \in 1..Len(points), points[i].source = c
        PROVE  rconns'[c] # NotYet /\ (rconns'[c].open => Charged(rconns[c].pace, i)')
    <3>1. rconns[c] # NotYet /\ (rconns[c].open => Charged(rconns[c].pace, i))
      BY <2>1, Zenon DEF RoundInv, PaceInv
    <3>2. Covers(rconns[c].pace, Cardinality(Among(i, Len(points))), points[i].at)
            = Covers(rconns'[c].pace, Cardinality(Among(i, Len(points)))', points'[i].at)
      BY <1>1, <1>8, Zenon
    <3> QED
      BY <1>1, <3>1, <3>2, Zenon DEF Charged
  <2> QED
    BY <1>1, <1>4, <2>1, Zenon DEF PaceInv
<1>11. ShownIsNewest'
  BY <1>2, Zenon DEF ShownIsNewest
<1>12. DeletedForgotten'
  BY <1>1, <1>2, Zenon DEF RoundInv, DeletedForgotten
<1> QED
  BY <1>5, <1>6, <1>7, <1>9, <1>10, <1>11, <1>12, Zenon DEF RoundInv, RoundShape

-----------------------------------------------------------------------------
(* A round stored.                                                         *)

\* The point a source's round becomes.
PointOf(r, source) == [round |-> r, at |-> ticks, source |-> source, life |-> life]

\* The entry that holds the round.
LEMMA HoldIs ==
  ASSUME RoundShape, NEW r \in RoundSet, NEW e, e = Hold(r)
  PROVE  /\ e \in Entries /\ e.recent = Remember(entry.recent, r) /\ e.shown = r /\ e.pace = entry.pace
         /\ Len(e.recent) <= RecentRounds
<1>1. entry \in Entries /\ entry.recent \in Seq(RoundSet) /\ Len(entry.recent) <= RecentRounds
  BY ShapeParts
<1>2. PICK z : z = Remember(entry.recent, r)
  OBVIOUS
<1>3. RingAfter(entry.recent, r, z)
  BY <1>1, <1>2, RememberIs, Zenon
<1>4. z \in Rings /\ Len(z) <= RecentRounds
  BY <1>3, RoundAssumption DEF RingAfter, Rings
<1>5. PICK o \in BOOLEAN : o = TRUE
  OBVIOUS
<1>6. e = [entry EXCEPT !.held = o, !.recent = z, !.shown = r]
  BY <1>2, <1>5, Zenon DEF Hold
<1>7. e \in Entries /\ e.recent = z /\ e.shown = r /\ e.pace = entry.pace
  BY <1>1, <1>4, <1>6 DEF Entries
<1> QED
  BY <1>2, <1>4, <1>7, Zenon

\* The entry that holds a polled round, its pace spent.
HoldWith(r, b) == [Hold(r) EXCEPT !.pace = b]

\* What it is.
LEMMA HoldPaced ==
  ASSUME RoundShape, NEW r \in RoundSet, NEW b \in BucketType, NEW f, f = HoldWith(r, b)
  PROVE  /\ f \in Entries /\ f.recent = Remember(entry.recent, r) /\ f.shown = r /\ f.pace = b
         /\ Len(f.recent) <= RecentRounds
<1>1. PICK e : e = Hold(r)
  OBVIOUS
<1>2. /\ e \in Entries /\ e.recent = Remember(entry.recent, r) /\ e.shown = r
      /\ Len(e.recent) <= RecentRounds
  BY <1>1, HoldIs, Zenon
<1>3. f = [e EXCEPT !.pace = b]
  BY <1>1, Zenon DEF HoldWith
<1>4. f \in Entries /\ f.recent = e.recent /\ f.shown = e.shown /\ f.pace = b
  BY <1>2, <1>3 DEF Entries
<1> QED
  BY <1>2, <1>4, Zenon

\* What an admitted round tells.
LEMMA AdmitIs ==
  ASSUME NEW r, NEW b, Admit(r, b) = "accept"
  PROVE  r \notin Range(entry.recent) /\ CanTake(b, ticks)
  BY DEF Admit

\* The source's charge on its pace after it stored a round.
Recharged(b, i) == Covers(b, Cardinality(Among(i, Len(points))'), points'[i].at)

\* What storing the point m keeps, and whose charge it adds to.
Accepted(m, b) ==
    /\ RecentInv' /\ RoundStoredOnce' /\ SourcesPaced' /\ ShownIsNewest' /\ DeletedForgotten'
    /\ ClockShape' /\ PointShape'
    /\ Len(points') = Len(points) + 1 /\ Len(points) \in Nat
    /\ points'[Len(points) + 1] = m
    /\ \A i \in 1..Len(points) : points'[i] = points[i] /\
         (~Alike(points[i], m) => \A x : Charged(x, i) => Recharged(x, i))
    /\ \A i \in 1..Len(points') : Alike(points'[i], m) => Recharged(Taken(b, ticks), i)

\* A round admitted from a source whose points are charged to the pace b.
LEMMA Accepts ==
  ASSUME RoundInv, registered, NEW r \in RoundSet, NEW source \in RoundConns \cup {"poll"},
         NEW b, GoodPace(b, ticks), Admit(r, b) = "accept", NEW m, m = PointOf(r, source),
         \A i \in 1..Len(points) : Alike(points[i], m) => Charged(b, i),
         points' = Points(r, source), entry'.recent = Remember(entry.recent, r), entry'.shown = r,
         UNCHANGED <<ticks, registered, life, deleting>>
  PROVE  Accepted(m, b)
<1>1. ticks \in Nat /\ life \in Nat /\ points \in Seq(Stored)
  BY ShapeParts DEF RoundInv
<1>2. /\ m = [round |-> r, at |-> ticks, source |-> source, life |-> life] /\ points' = Append(points, m)
  BY DEF PointOf, Points
<1>3. m \in Stored /\ m.round = r /\ m.at = ticks /\ m.source = source /\ m.life = life
  BY <1>1, <1>2 DEF Stored
<1>4. r \notin Range(entry.recent) /\ CanTake(b, ticks)
  BY AdmitIs, Zenon
<1>5. RecentInv' /\ RoundStoredOnce'
  BY <1>2, <1>3, <1>4, StoreRecent, Zenon DEF RoundInv
<1>6. SourcesPaced' /\ \A i \in 1..Len(points') : Alike(points'[i], m) => Recharged(Taken(b, ticks), i)
  BY <1>2, <1>3, <1>4, StorePaced, Zenon DEF RoundInv, Recharged
<1>7. PICK n \in Nat : n = Len(points)
  BY <1>1
<1>8. /\ Len(points') = n + 1 /\ points' \in Seq(Stored) /\ points'[n + 1] = m
      /\ \A i \in 1..n : points'[i] = points[i]
  BY <1>1, <1>2, <1>3, <1>7
<1>9. \A i \in 1..n : ~Alike(points[i], m) => Among(i, n + 1)' = Among(i, n)
  BY <1>1, <1>2, <1>3, <1>7, AmongAppend, Zenon
<1>10. ASSUME NEW i \in 1..n, ~Alike(points[i], m), NEW x, Charged(x, i)
       PROVE  Recharged(x, i)
  <2>1. Among(i, Len(points))' = Among(i, n)
    BY <1>8, <1>9, <1>10, Zenon
  <2> QED
    BY <1>7, <1>8, <1>10, <2>1, Zenon DEF Charged, Recharged
<1>11. PointShape'
  <2>1. \A k \in 1..(n + 1) : k \in 1..n \/ k = n + 1
    OBVIOUS
  <2>2. \A k \in 1..n : points'[k].at <= ticks /\ points'[k].life <= life
    BY <1>7, <1>8, Zenon DEF RoundInv, RoundShape, PointShape
  <2>3. points'[n + 1].at <= ticks /\ points'[n + 1].life <= life
    BY <1>1, <1>3, <1>8
  <2> QED
    BY <1>8, <2>1, <2>2, <2>3, Zenon DEF PointShape
<1>12. ClockShape'
  BY Zenon DEF RoundInv, RoundShape, ClockShape
<1>13. ShownIsNewest'
  <2>1. points' # <<>> /\ points'[Len(points')] = m
    BY <1>7, <1>8
  <2> QED
    BY <1>3, <2>1, Zenon DEF ShownIsNewest
<1>14. DeletedForgotten'
  BY Zenon DEF DeletedForgotten
<1> QED
  BY <1>5, <1>6, <1>7, <1>8, <1>10, <1>11, <1>12, <1>13, <1>14, Zenon DEF Accepted

\* A pushed round is stored, and its connection's pace is spent.
LEMMA PushStored ==
  ASSUME RoundInv, registered, NEW c \in RoundConns, rconns[c].open, NEW r \in RoundSet,
         Admit(r, rconns[c].pace) = "accept", points' = Points(r, c), entry' = Hold(r),
         NEW y, y = ConnWith(rconns[c], rconns[c].budget, Taken(rconns[c].pace, ticks), NoRound),
         ConnOK(y, ticks) => (ConnShape' /\ rconns'[c] = y
                                /\ \A d \in RoundConns : d # c => rconns'[d] = rconns[d]),
         UNCHANGED <<ticks, registered, life, polling, deleting>>
  PROVE  RoundInv'
<1>1. ConnOK(rconns[c], ticks) /\ ticks \in Nat /\ "poll" \notin RoundConns /\ PaceBurst \in Nat \ {0}
  BY ShapeParts, RoundAssumption DEF RoundInv, RoundShape, ConnShape
<1>2. PICK x : x = rconns[c]
  OBVIOUS
<1>3. x.open /\ GoodBucket(x.budget, DecodeBurst, ticks) /\ GoodPace(x.pace, ticks) /\ x \in OpenConns
  BY <1>1, <1>2, ConnParts, Zenon
<1>4. PICK pac : pac = Taken(x.pace, ticks)
  OBVIOUS
<1>5. CanTake(x.pace, ticks) /\ y = ConnWith(x, x.budget, Taken(x.pace, ticks), NoRound)
  BY <1>2, AdmitIs, Zenon
<1>8. ConnOK(y, ticks) /\ y.open /\ y.pace = pac /\ y # NotYet
  <2>1. ConnOK(x, ticks)
    BY <1>1, <1>2, Zenon
  <2> QED
    BY <1>1, <1>3, <1>4, <1>5, <2>1, ConnSpends, Zenon
<1>10. ConnShape' /\ rconns'[c] = y /\ \A d \in RoundConns : d # c => rconns'[d] = rconns[d]
  BY <1>8, Zenon
<1>11. /\ entry' \in Entries /\ entry'.recent = Remember(entry.recent, r) /\ entry'.shown = r
       /\ entry'.pace = entry.pace /\ Len(entry'.recent) <= RecentRounds
  BY HoldIs, Zenon DEF RoundInv
<1>12. EntryShape'
  BY <1>11, Zenon DEF RoundInv, RoundShape, EntryShape
<1>13. PICK m : m = PointOf(r, c)
  OBVIOUS
<1>14. m.source = c
  BY <1>13 DEF PointOf
<1>15. \A p : Alike(p, m) <=> p.source = c
  BY <1>1, <1>14, Zenon DEF Alike
<1>16. \A i \in 1..Len(points) : Alike(points[i], m) => Charged(x.pace, i)
  BY <1>2, <1>3, <1>15, Zenon DEF RoundInv, PaceInv
<1>17. /\ RecentInv' /\ RoundStoredOnce' /\ SourcesPaced' /\ ShownIsNewest' /\ DeletedForgotten'
       /\ ClockShape' /\ PointShape'
       /\ Len(points') = Len(points) + 1 /\ Len(points) \in Nat
       /\ points'[Len(points) + 1] = m
       /\ \A i \in 1..Len(points) : points'[i] = points[i] /\
              (~Alike(points[i], m) => \A z : Charged(z, i) => Recharged(z, i))
       /\ \A i \in 1..Len(points') : Alike(points'[i], m) => Recharged(Taken(x.pace, ticks), i)
  <2>1. c \in RoundConns \cup {"poll"}
    OBVIOUS
  <2>2. Accepted(m, x.pace)
    BY <1>2, <1>3, <1>11, <1>13, <1>16, <2>1, Accepts, Zenon
  <2> QED
    BY <2>2, Zenon DEF Accepted
<1>18. \A i \in 1..Len(points') : i \in 1..Len(points) \/ i = Len(points) + 1
  BY <1>17
<1>19. ASSUME NEW i \in 1..Len(points'), points'[i].source = c
       PROVE  rconns'[c] # NotYet /\ Recharged(rconns'[c].pace, i)
  <2>1. Recharged(Taken(x.pace, ticks), i)
    BY <1>15, <1>17, <1>19, Zenon
  <2>2. rconns'[c].pace = Taken(x.pace, ticks)
    BY <1>4, <1>8, <1>10, Zenon
  <2> QED
    BY <1>8, <1>10, <2>1, <2>2, Zenon
<1>20. ASSUME NEW d \in RoundConns, d # c, NEW i \in 1..Len(points'), points'[i].source = d
       PROVE  rconns'[d] # NotYet /\ (rconns'[d].open => Recharged(rconns'[d].pace, i))
  <2>1. i \in 1..Len(points)
    BY <1>14, <1>17, <1>18, <1>20, Zenon
  <2>2. points[i].source = d /\ ~Alike(points[i], m)
    BY <1>15, <1>17, <1>20, <2>1, Zenon
  <2>3. rconns[d] # NotYet /\ (rconns[d].open => Charged(rconns[d].pace, i))
    BY <2>1, <2>2, Zenon DEF RoundInv, PaceInv
  <2> QED
    BY <1>10, <1>17, <1>20, <2>1, <2>2, <2>3, Zenon
<1>21. ASSUME NEW i \in 1..Len(points'), points'[i].source = "poll", points'[i].life = life
       PROVE  entry'.pace # NoPace /\ Recharged(entry'.pace, i)
  <2>1. i \in 1..Len(points)
    <3>1. points'[Len(points) + 1].source # "poll"
      BY <1>1, <1>14, <1>17, Zenon
    <3> QED
      BY <1>18, <1>21, <3>1, Zenon
  <2>2. points[i].source = "poll" /\ points[i].life = life /\ ~Alike(points[i], m)
    BY <1>1, <1>15, <1>17, <1>21, <2>1, Zenon
  <2>3. entry.pace # NoPace /\ Charged(entry.pace, i)
    BY <2>1, <2>2, Zenon DEF RoundInv, PaceInv
  <2> QED
    BY <1>11, <1>17, <2>1, <2>2, <2>3, Zenon
<1>22. PaceInv'
  BY <1>19, <1>20, <1>21, Zenon DEF PaceInv, Charged, Recharged
<1>23. PollShape'
  BY Zenon DEF RoundInv, RoundShape, PollShape
<1> QED
  BY <1>10, <1>12, <1>17, <1>22, <1>23, Zenon DEF RoundInv, RoundShape

\* A polled round is stored, and the entry's pace is spent.
LEMMA PollStored ==
  ASSUME RoundInv, registered, NEW r \in RoundSet, Admit(r, PollPace) = "accept",
         points' = Points(r, "poll"), entry' = HoldWith(r, Taken(PollPace, ticks)),
         PollShape', UNCHANGED <<ticks, registered, life, rconns, deleting>>
  PROVE  RoundInv'
<1>1. ticks \in Nat /\ "poll" \notin RoundConns /\ PaceBurst \in Nat \ {0} /\ RoundSpacing \in Nat
  BY ShapeParts, RoundAssumption DEF RoundInv
<1>2. PICK b : b = PollPace
  OBVIOUS
<1>3. GoodPace(b, ticks)
  <2>1. CASE entry.pace = NoPace
    <3>1. b = Full(PaceBurst, RoundSpacing, ticks)
      BY <1>2, <2>1, Zenon DEF PollPace, Pace
    <3> QED
      BY <1>1, <3>1, GoodFull, Zenon DEF GoodPace
  <2>2. CASE entry.pace # NoPace
    BY <1>2, <2>2, Zenon DEF PollPace, RoundInv, RoundShape, EntryShape
  <2> QED
    BY <2>1, <2>2
<1>4. PICK m : m = PointOf(r, "poll")
  OBVIOUS
<1>5. m.source = "poll" /\ m.life = life
  BY <1>4 DEF PointOf
<1>6. \A p : Alike(p, m) <=> (p.source = "poll" /\ p.life = life)
  BY <1>5, Zenon DEF Alike
<1>7. \A i \in 1..Len(points) : Alike(points[i], m) => Charged(b, i)
  BY <1>2, <1>6, Zenon DEF RoundInv, PaceInv, PollPace
<1>8. CanTake(b, ticks)
  BY <1>2, AdmitIs, Zenon
<1>9. PICK pac : pac = Taken(b, ticks)
  OBVIOUS
<1>10. GoodPace(pac, ticks) /\ pac # NoPace /\ pac \in BucketType
  <2>1. GoodPace(pac, ticks) /\ pac # NoPace
    BY <1>1, <1>3, <1>8, <1>9, PaceTaken, Zenon
  <2> QED
    BY <2>1, Zenon DEF GoodPace, GoodBucket
<1>11. entry' = HoldWith(r, pac)
  BY <1>2, <1>9, Zenon
<1>12. RoundShape
  BY DEF RoundInv
<1>13. /\ entry' \in Entries /\ entry'.recent = Remember(entry.recent, r) /\ entry'.shown = r
       /\ entry'.pace = pac /\ Len(entry'.recent) <= RecentRounds
  BY <1>10, <1>11, <1>12, HoldPaced
<1>14. EntryShape'
  BY <1>10, <1>13, Zenon DEF EntryShape
<1>17. /\ RecentInv' /\ RoundStoredOnce' /\ SourcesPaced' /\ ShownIsNewest' /\ DeletedForgotten'
       /\ ClockShape' /\ PointShape'
       /\ Len(points') = Len(points) + 1 /\ Len(points) \in Nat
       /\ points'[Len(points) + 1] = m
       /\ \A i \in 1..Len(points) : points'[i] = points[i] /\
              (~Alike(points[i], m) => \A z : Charged(z, i) => Recharged(z, i))
       /\ \A i \in 1..Len(points') : Alike(points'[i], m) => Recharged(Taken(b, ticks), i)
  <2>1. "poll" \in RoundConns \cup {"poll"}
    OBVIOUS
  <2>2. Accepted(m, b)
    BY <1>2, <1>3, <1>4, <1>7, <1>13, <2>1, Accepts, Zenon
  <2> QED
    BY <2>2, Zenon DEF Accepted
<1>18. \A i \in 1..Len(points') : i \in 1..Len(points) \/ i = Len(points) + 1
  BY <1>17
<1>19. ASSUME NEW i \in 1..Len(points'), points'[i].source = "poll", points'[i].life = life
       PROVE  entry'.pace # NoPace /\ Recharged(entry'.pace, i)
  <2>1. Alike(points'[i], m)
    BY <1>6, <1>19, Zenon
  <2>2. Recharged(Taken(b, ticks), i)
    BY <1>17, <2>1, Zenon
  <2> QED
    BY <1>9, <1>10, <1>13, <2>2, Zenon
<1>20. ASSUME NEW d \in RoundConns, NEW i \in 1..Len(points'), points'[i].source = d
       PROVE  rconns'[d] # NotYet /\ (rconns'[d].open => Recharged(rconns'[d].pace, i))
  <2>1. i \in 1..Len(points)
    BY <1>1, <1>5, <1>17, <1>18, <1>20, Zenon
  <2>2. points[i].source = d /\ ~Alike(points[i], m)
    BY <1>1, <1>6, <1>17, <1>20, <2>1, Zenon
  <2>3. rconns[d] # NotYet /\ (rconns[d].open => Charged(rconns[d].pace, i))
    BY <2>1, <2>2, Zenon DEF RoundInv, PaceInv
  <2> QED
    BY <1>17, <2>1, <2>2, <2>3, Zenon
<1>21. PaceInv'
  BY <1>19, <1>20, Zenon DEF PaceInv, Charged, Recharged
<1>22. ConnShape'
  BY Zenon DEF RoundInv, RoundShape, ConnShape
<1> QED
  BY <1>14, <1>17, <1>21, <1>22, Zenon DEF RoundInv, RoundShape

-----------------------------------------------------------------------------
(* The actions.                                                            *)

\* An open connection of the hub.
LEMMA ConnOf ==
  ASSUME RoundInv, NEW c \in RoundConns
  PROVE  /\ ConnShape /\ ConnOK(rconns[c], ticks) /\ ticks \in Nat
         /\ rconns = [d \in RoundConns |-> rconns[d]]
<1>1. ticks \in Nat
  BY ShapeParts, Zenon DEF RoundInv
<1> QED
  BY <1>1, Zenon DEF RoundInv, RoundShape, ConnShape

\* A connection done with its round, or with a message.
LEMMA ConnGoesOn ==
  ASSUME RoundInv, NEW c \in RoundConns, NEW x, x = rconns[c], x.open,
         NEW bud, GoodBucket(bud, DecodeBurst, ticks), NEW r \in RoundSet \cup {NoRound},
         NEW m, m = ConnWith(x, bud, x.pace, r), rconns' = [rconns EXCEPT ![c] = m],
         UNCHANGED <<ticks, registered, points, entry, life, polling, deleting>>
  PROVE  RoundInv'
<1>1. ConnOK(x, ticks) /\ ticks \in Nat
  BY ConnOf, Zenon
<1>2. PICK pac : pac = x.pace
  OBVIOUS
<1>3. GoodPace(pac, ticks)
  BY <1>1, <1>2, ConnParts, Zenon
<1>4. m = ConnWith(x, bud, pac, r)
  BY <1>2, Zenon
<1>5. ConnOK(m, ticks) /\ m.open /\ m.pace = pac /\ m # NotYet
  BY <1>1, <1>3, <1>4, ConnWorks
<1>6. Kept(rconns[c], m)
  BY <1>2, <1>5, Zenon DEF Kept
<1> QED
  BY <1>5, <1>6, ConnQuiet, Zenon

\* A connection ends.
LEMMA ConnEnds ==
  ASSUME RoundInv, NEW c \in RoundConns, rconns' = [rconns EXCEPT ![c] = Closed],
         UNCHANGED <<ticks, registered, points, entry, life, polling, deleting>>
  PROVE  RoundInv'
<1>1. Kept(rconns[c], Closed) /\ ConnOK(Closed, ticks)
  BY ConnEnded, Zenon DEF Kept
<1> QED
  BY <1>1, ConnQuiet, Zenon

\* The push connections.
LEMMA PushSteps ==
  ASSUME RoundInv, NEW c \in RoundConns,
         OpenConnection(c) \/ Ingest(c) \/ StorePushed(c) \/ StorePushedFails(c) \/ CloseConnection(c)
  PROVE  RoundInv'
<1>1. ConnShape /\ ConnOK(rconns[c], ticks) /\ ticks \in Nat /\ rconns = [d \in RoundConns |-> rconns[d]]
  BY ConnOf, Zenon
<1>2. PICK x : x = rconns[c]
  OBVIOUS
<1>3. ASSUME x.open
      PROVE  x \in OpenConns /\ GoodBucket(x.budget, DecodeBurst, ticks) /\ x.work \in RoundSet \cup {NoRound}
  BY <1>1, <1>2, <1>3, ConnParts, Zenon
<1>4. CASE OpenConnection(c)
  <2>1. /\ rconns[c] = NotYet /\ registered' = TRUE /\ rconns' = [rconns EXCEPT ![c] = OpenConn(ticks)]
        /\ UNCHANGED <<ticks, points, entry, life, polling, deleting>>
    BY <1>4, Zenon DEF OpenConnection
  <2>2. ConnOK(OpenConn(ticks), ticks) /\ Kept(rconns[c], OpenConn(ticks))
    BY <1>1, <2>1, ConnOpened, Zenon DEF Kept
  <2> QED
    BY <2>1, <2>2, ConnQuiet, Zenon
<1>5. CASE Ingest(c)
  <2>1. PICK r \in RoundSet \cup {NoRound} :
          rconns' = [rconns EXCEPT ![c].budget = Taken(@, ticks), ![c].work = r]
    BY <1>5, Zenon DEF Ingest
  <2>2. /\ x.open /\ CanTake(x.budget, ticks)
        /\ UNCHANGED <<ticks, registered, points, entry, life, polling, deleting>>
    BY <1>2, <1>5, Zenon DEF Ingest, AtRest
  <2>3. PICK b, bud : b = x.budget /\ bud = Taken(b, ticks)
    OBVIOUS
  <2>4. GoodBucket(bud, DecodeBurst, ticks)
    <3>1. GoodBucket(b, DecodeBurst, ticks) /\ CanTake(b, ticks) /\ DecodeBurst \in Nat \ {0}
      BY <1>3, <2>2, <2>3, RoundAssumption, Zenon
    <3> QED
      BY <1>1, <2>3, <3>1, GoodTaken, Zenon
  <2>5. PICK m : m = ConnWith(x, bud, x.pace, r)
    OBVIOUS
  <2>6. rconns' = [rconns EXCEPT ![c].budget = bud, ![c].work = r]
    BY <1>2, <2>1, <2>3, Zenon
  <2>7. rconns' = [rconns EXCEPT ![c] = m]
    <3>1. m = [x EXCEPT !.budget = bud, !.work = r]
      BY <1>3, <2>2, <2>5 DEF OpenConns, ConnWith
    <3> QED
      BY <1>1, <1>2, <2>6, <3>1
  <2> QED
    BY <1>2, <2>2, <2>4, <2>5, <2>7, ConnGoesOn, Zenon
<1>6. ASSUME x.open, rconns' = [rconns EXCEPT ![c].work = NoRound],
             UNCHANGED <<ticks, registered, points, entry, life, polling, deleting>>
      PROVE  RoundInv'
  <2>1. PICK m, bud : m = ConnWith(x, bud, x.pace, NoRound) /\ bud = x.budget
    OBVIOUS
  <2>2. rconns' = [rconns EXCEPT ![c] = m]
    <3>1. m = [x EXCEPT !.work = NoRound]
      BY <1>3, <1>6, <2>1 DEF OpenConns, ConnWith
    <3> QED
      BY <1>1, <1>2, <1>6, <3>1
  <2>3. NoRound \in RoundSet \cup {NoRound} /\ GoodBucket(bud, DecodeBurst, ticks)
    BY <1>3, <1>6, <2>1, Zenon
  <2> QED
    <3>1. x.open /\ UNCHANGED <<ticks, registered, points, entry, life, polling, deleting>>
      BY <1>6, Zenon
    <3> QED
      BY <1>2, <2>1, <2>2, <2>3, <3>1, ConnGoesOn, Zenon
<1>7. CASE StorePushed(c)
  <2>1. PICK r : r = x.work
    OBVIOUS
  <2>2. x.open /\ r # NoRound /\ UNCHANGED <<ticks, registered, life, polling, deleting>>
    BY <1>2, <1>7, <2>1, Zenon DEF StorePushed
  <2>3. r \in RoundSet
    BY <1>3, <2>1, <2>2, Zenon
  <2>4. \/ ~registered /\ rconns' = [rconns EXCEPT ![c] = Closed] /\ UNCHANGED <<points, entry>>
        \/ /\ registered /\ Admit(r, x.pace) = "accept" /\ points' = Points(r, c) /\ entry' = Hold(r)
           /\ rconns' = [rconns EXCEPT ![c].work = NoRound, ![c].pace = Taken(@, ticks)]
        \/ rconns' = [rconns EXCEPT ![c].work = NoRound] /\ UNCHANGED <<points, entry>>
    BY <1>2, <1>7, <2>1, Zenon DEF StorePushed
  <2>5. CASE rconns' = [rconns EXCEPT ![c] = Closed] /\ UNCHANGED <<points, entry>>
    BY <2>2, <2>5, ConnEnds, Zenon
  <2>6. CASE rconns' = [rconns EXCEPT ![c].work = NoRound] /\ UNCHANGED <<points, entry>>
    BY <1>6, <2>2, <2>6, Zenon
  <2>7. ASSUME registered, Admit(r, x.pace) = "accept", points' = Points(r, c), entry' = Hold(r),
               rconns' = [rconns EXCEPT ![c].work = NoRound, ![c].pace = Taken(@, ticks)]
        PROVE  RoundInv'
    <3>1. PICK y, pac : y = ConnWith(x, x.budget, pac, NoRound) /\ pac = Taken(x.pace, ticks)
      OBVIOUS
    <3>2. rconns' = [rconns EXCEPT ![c].work = NoRound, ![c].pace = pac]
      BY <1>1, <1>2, <1>3, <2>2, <2>7, <3>1 DEF OpenConns
    <3>3. rconns' = [rconns EXCEPT ![c] = y]
      <4>1. y = [x EXCEPT !.work = NoRound, !.pace = pac]
        BY <1>3, <2>2, <3>1 DEF OpenConns, ConnWith
      <4> QED
        BY <1>1, <1>2, <3>2, <4>1
    <3>4. ConnOK(y, ticks) => (ConnShape' /\ rconns'[c] = y
                                /\ \A d \in RoundConns : d # c => rconns'[d] = rconns[d])
      BY <1>1, <2>2, <3>3, ConnSet, Zenon
    <3>5. y = ConnWith(rconns[c], rconns[c].budget, Taken(rconns[c].pace, ticks), NoRound)
      BY <1>2, <3>1, Zenon
    <3>6. rconns[c].open /\ Admit(r, rconns[c].pace) = "accept"
      BY <1>2, <2>2, <2>7, Zenon
    <3> QED
      BY <2>2, <2>3, <2>7, <3>4, <3>5, <3>6, PushStored, Zenon
  <2> QED
    BY <2>4, <2>5, <2>6, <2>7, Zenon
<1>8. CASE StorePushedFails(c)
  <2>1. /\ x.open /\ UNCHANGED <<ticks, registered, points, entry, life, polling, deleting>>
        /\ \/ rconns' = [rconns EXCEPT ![c].work = NoRound]
           \/ rconns' = [rconns EXCEPT ![c] = Closed]
    BY <1>2, <1>8, Zenon DEF StorePushedFails
  <2> QED
    BY <1>6, <2>1, ConnEnds, Zenon
<1>9. CASE CloseConnection(c)
  <2>1. /\ rconns' = [rconns EXCEPT ![c] = Closed]
        /\ UNCHANGED <<ticks, registered, points, entry, life, polling, deleting>>
    BY <1>9, Zenon DEF CloseConnection
  <2> QED
    BY <2>1, ConnEnds, Zenon
<1> QED
  BY <1>4, <1>5, <1>7, <1>8, <1>9, Zenon

\* A poll's task goes to its next place.
LEMMA PollMoves ==
  ASSUME PollShape, NEW p \in PollTasks, NEW w \in RoundSet \cup {"idle", "fetching"},
         polling' = [polling EXCEPT ![p] = w]
  PROVE  PollShape'
  BY DEF PollShape

\* A poll that leaves the entry alone.
LEMMA PollAside ==
  ASSUME RoundInv, PollShape', UNCHANGED <<ticks, registered, points, entry, life, rconns, deleting>>
  PROVE  RoundInv'
<1>1. entry' \in Entries
  BY ShapeParts, Zenon DEF RoundInv
<1> QED
  BY <1>1, PollQuiet, Zenon

\* The polls.
LEMMA PollTaskSteps ==
  ASSUME RoundInv, NEW p \in PollTasks,
         \/ StartPoll(p) \/ PollForgets(p) \/ PollRefused(p) \/ PollUnusable(p)
         \/ PollAnswers(p) \/ StorePolled(p)
  PROVE  RoundInv'
<1>1. PollShape /\ entry \in Entries
  BY ShapeParts, Zenon DEF RoundInv, RoundShape
<1>2. CASE StartPoll(p) \/ PollUnusable(p) \/ PollAnswers(p)
  <2>1. /\ \E w \in RoundSet \cup {"idle", "fetching"} : polling' = [polling EXCEPT ![p] = w]
        /\ UNCHANGED <<ticks, registered, points, entry, life, rconns, deleting>>
    BY <1>2, Zenon DEF StartPoll, PollUnusable, PollAnswers
  <2> QED
    BY <1>1, <2>1, PollMoves, PollAside, Zenon
<1>3. CASE PollForgets(p)
  <2>1. /\ polling' = [polling EXCEPT ![p] = "idle"] /\ entry' = [entry EXCEPT !.shown = NoRound]
        /\ UNCHANGED <<ticks, registered, points, life, rconns, deleting>>
    BY <1>3, Zenon DEF PollForgets
  <2>2. PollShape'
    BY <1>1, <2>1, PollMoves, Zenon
  <2>3. /\ entry' \in Entries /\ entry'.recent = entry.recent /\ entry'.pace = entry.pace
        /\ entry'.shown = NoRound
    BY <1>1, <2>1 DEF Entries
  <2>4. UNCHANGED <<ticks, registered, points, life, rconns, deleting>>
    BY <2>1, Zenon
  <2> QED
    BY <2>2, <2>3, <2>4, PollQuiet, Zenon
<1>4. CASE PollRefused(p)
  <2>1. /\ polling' = [polling EXCEPT ![p] = "idle"] /\ entry' = [entry EXCEPT !.held = TRUE, !.warned = TRUE]
        /\ UNCHANGED <<ticks, registered, points, life, rconns, deleting>>
    BY <1>4, Zenon DEF PollRefused
  <2>2. PollShape'
    BY <1>1, <2>1, PollMoves, Zenon
  <2>3. PICK o \in BOOLEAN : o = TRUE
    OBVIOUS
  <2>4. entry' = [entry EXCEPT !.held = o, !.warned = o]
    BY <2>1, <2>3, Zenon
  <2>5. /\ entry' \in Entries /\ entry'.recent = entry.recent /\ entry'.pace = entry.pace
        /\ entry'.shown = entry.shown
    BY <1>1, <2>4 DEF Entries
  <2>6. UNCHANGED <<ticks, registered, points, life, rconns, deleting>>
    BY <2>1, Zenon
  <2> QED
    BY <2>2, <2>5, <2>6, PollQuiet, Zenon
<1>5. CASE StorePolled(p)
  <2>1. PICK r : r = polling[p]
    OBVIOUS
  <2>2. r \in RoundSet /\ polling' = [polling EXCEPT ![p] = "idle"]
        /\ UNCHANGED <<ticks, registered, life, rconns, deleting>>
    BY <1>5, <2>1, Zenon DEF StorePolled
  <2>3. PollShape'
    BY <1>1, <2>2, PollMoves, Zenon
  <2>4. \/ /\ registered /\ Admit(r, PollPace) = "accept" /\ points' = Points(r, "poll")
           /\ entry' = HoldWith(r, Taken(PollPace, ticks))
        \/ UNCHANGED <<points, entry>>
    BY <1>5, <2>1, Zenon DEF StorePolled, HoldWith
  <2>5. CASE UNCHANGED <<points, entry>>
    BY <2>2, <2>3, <2>5, PollAside, Zenon
  <2>6. CASE /\ registered /\ Admit(r, PollPace) = "accept" /\ points' = Points(r, "poll")
             /\ entry' = HoldWith(r, Taken(PollPace, ticks))
    BY <2>2, <2>3, <2>6, PollStored, Zenon
  <2> QED
    BY <2>4, <2>5, <2>6
<1> QED
  BY <1>2, <1>3, <1>4, <1>5, Zenon

\* The hub starts with no round.
LEMMA RoundStart ==
  ASSUME RoundInit
  PROVE  RoundInv
<1>1. /\ ticks = 0 /\ registered = TRUE /\ points = <<>> /\ entry = NoEntry /\ life = 0
      /\ rconns = [c \in RoundConns |-> NotYet] /\ polling = [p \in PollTasks |-> "idle"]
      /\ deleting = 0
  BY DEF RoundInit
<1>2. ClockShape
  <2>1. ticks \in 0..MaxIntakeTime /\ life \in Nat /\ deleting \in Nat
    <3>1. MaxIntakeTime \in Nat
      BY RoundAssumption
    <3> QED
      BY <1>1, <3>1
  <2>2. registered \in BOOLEAN
    BY <1>1, Zenon
  <2> QED
    BY <2>1, <2>2, Zenon DEF ClockShape
<1>3. /\ entry \in Entries /\ entry.recent = <<>> /\ entry.pace = NoPace /\ entry.shown = NoRound
  BY <1>1, EmptyEntry, Zenon
<1>4. EntryShape
  <2>1. Len(entry.recent) <= RecentRounds
    <3>1. RecentRounds \in Nat /\ Len(<<>>) = 0
      BY RoundAssumption
    <3> QED
      BY <1>3, <3>1
  <2> QED
    BY <1>3, <2>1, Zenon DEF EntryShape
<1>5. ConnShape
  <2>1. \A c \in RoundConns : rconns[c] = NotYet
    BY <1>1, Zenon
  <2>2. rconns = [c \in RoundConns |-> rconns[c]]
    BY <1>1, Zenon
  <2> QED
    BY <2>1, <2>2, ConnEnded, Zenon DEF ConnShape
<1>6. PollShape
  BY <1>1, Zenon DEF PollShape
<1>7. points \in Seq(Stored) /\ 1..Len(points) = {} /\ DOMAIN points = {}
  BY <1>1
<1>8. PointShape
  BY <1>7, Zenon DEF PointShape
<1>9. RecentInv /\ RoundStoredOnce /\ PaceInv /\ SourcesPaced
  BY <1>7, Zenon DEF RecentInv, RoundStoredOnce, PaceInv, SourcesPaced
<1>10. ShownIsNewest /\ DeletedForgotten
  BY <1>1, <1>3, Zenon DEF ShownIsNewest, DeletedForgotten
<1> QED
  BY <1>2, <1>4, <1>5, <1>6, <1>8, <1>9, <1>10, Zenon DEF RoundInv, RoundShape

\* A bucket in use has its type.
LEMMA GoodTyped ==
  ASSUME NEW b, NEW burst \in Nat, NEW now \in Nat, GoodBucket(b, burst, now)
  PROVE  b \in Buckets(burst)
<1>1. /\ b \in BucketType /\ b.capacity = burst /\ b.tokens \in 0..burst
  BY DEF GoodBucket, BucketType
<1> QED
  BY <1>1 DEF BucketType, Buckets

\* The invariant says what the hub promises.
LEMMA RoundInvSafe ==
  ASSUME RoundInv
  PROVE  RoundsOnce
<1>1. ticks \in Nat /\ PaceBurst \in Nat /\ DecodeBurst \in Nat
  BY ShapeParts, RoundAssumption DEF RoundInv
<1>2. ASSUME NEW c \in RoundConns, rconns[c].open
      PROVE  /\ rconns[c].budget \in Buckets(DecodeBurst) /\ rconns[c].pace \in Buckets(PaceBurst)
             /\ rconns[c].work \in RoundSet \cup {NoRound}
  <2>1. ConnOK(rconns[c], ticks)
    BY ConnOf, Zenon
  <2>2. /\ GoodBucket(rconns[c].budget, DecodeBurst, ticks) /\ GoodPace(rconns[c].pace, ticks)
        /\ rconns[c].work \in RoundSet \cup {NoRound}
    BY <1>2, <2>1, ConnParts, Zenon
  <2> QED
    BY <1>1, <2>2, GoodTyped, Zenon DEF GoodPace
<1>3. entry.pace \in Buckets(PaceBurst) \cup {NoPace}
  <2>1. entry.pace # NoPace => GoodBucket(entry.pace, PaceBurst, ticks)
    BY Zenon DEF RoundInv, RoundShape, EntryShape, GoodPace
  <2> QED
    BY <1>1, <2>1, GoodTyped, Zenon
<1>4. /\ entry.held \in BOOLEAN /\ entry.shown \in RoundSet \cup {NoRound}
      /\ entry.recent \in Seq(RoundSet) /\ Len(entry.recent) <= RecentRounds
  <2>1. entry \in Entries /\ entry.recent \in Seq(RoundSet) /\ Len(entry.recent) <= RecentRounds
    BY ShapeParts, Zenon DEF RoundInv
  <2>2. entry.held \in BOOLEAN /\ entry.shown \in RoundSet \cup {NoRound}
    BY <2>1 DEF Entries
  <2> QED
    BY <2>1, <2>2, Zenon
<1>5. RoundTypeOK
  BY <1>2, <1>3, <1>4, Zenon DEF RoundTypeOK, RoundInv, RoundShape, ClockShape, PollShape
<1> QED
  BY <1>5, Zenon DEF RoundsOnce, RoundInv

\* However pushes and overlapping polls of a system's rounds come, again, late or while the
\* system is deleted, a round is stored once in RECENT_ROUNDS, every source keeps its pace in every
\* stretch of time, the newest round is shown, and a deleted system is forgotten.
THEOREM RoundsAlwaysOnce == RoundSpec => []RoundsOnce
<1>1. RoundInit => RoundInv
  BY RoundStart
<1>2. RoundInv /\ [RoundNext]_roundVars => RoundInv'
  <2> SUFFICES ASSUME RoundInv, [RoundNext]_roundVars
               PROVE  RoundInv'
    OBVIOUS
  <2>1. CASE UNCHANGED roundVars
    <3>1. UNCHANGED <<ticks, registered, points, entry, life, rconns, deleting>> /\ UNCHANGED polling
      BY <2>1, Zenon DEF roundVars
    <3>2. PollShape'
      BY <3>1, Zenon DEF RoundInv, RoundShape, PollShape
    <3> QED
      BY <3>1, <3>2, PollAside, Zenon
  <2>2. CASE IntakeTick
    BY <2>2, IntakeTickStep, Zenon
  <2>3. CASE RemoveSystem
    BY <2>3, RemoveSystemStep, Zenon
  <2>4. CASE RemoveApplications
    BY <2>4, RemoveApplicationsStep, Zenon
  <2>5. CASE \E c \in RoundConns : DropMessage(c)
    BY <2>1, <2>5, Zenon DEF DropMessage
  <2>6. CASE \E c \in RoundConns : OpenConnection(c) \/ Ingest(c) \/ StorePushed(c)
                                     \/ StorePushedFails(c) \/ CloseConnection(c)
    BY <2>6, PushSteps, Zenon
  <2>7. CASE \E p \in PollTasks : \/ StartPoll(p) \/ PollForgets(p) \/ PollRefused(p) \/ PollUnusable(p)
                                  \/ PollAnswers(p) \/ StorePolled(p)
    BY <2>7, PollTaskSteps, Zenon
  <2> QED
    BY <2>1, <2>2, <2>3, <2>4, <2>5, <2>6, <2>7, Zenon DEF RoundNext
<1>3. RoundInv => RoundsOnce
  BY RoundInvSafe
<1> QED
  BY <1>1, <1>2, <1>3, PTL DEF RoundSpec

-----------------------------------------------------------------------------
(* The metrics table.                                                      *)

RowType == [metric : Metrics, at : Nat, id : Nat]
PassType == [at : {"idle", "default", "own", "done"}, now : Nat, todo : SUBSET {m \in Apps : Usable(OwnRetention[m])}]

\* The table's types, and that a row's id is its own.
HistTypes ==
    /\ wall \in Nat /\ rowid \in Nat
    /\ inserted \in SUBSET RowType /\ IsFiniteSet(inserted) /\ rows \in SUBSET inserted
    /\ pass \in PassType /\ pass.now <= wall
    /\ \A r \in inserted : r.id <= rowid /\ r.at <= wall
    /\ \A r, s \in inserted : r.id = s.id => r = s

\* What a pass has done stays done: no row past the retention of a series it is through with,
\* whatever is stored meanwhile.
PassInv ==
    /\ pass.at \in {"own", "done"} =>
         \A r \in rows : r.metric \in Apps /\ r.metric \notin pass.todo
                           => r.at >= Cutoff(pass.now, RetentionOf(OwnRetention[r.metric]))
    /\ pass.at = "done" => pass.todo = {}

HistInv == HistTypes /\ PassInv /\ FreshRowsKept /\ SnapshotHistoryWhole

\* A retention is a length of time, and a cutoff a time that moves on with the clock.
LEMMA RetentionIs ==
  ASSUME NEW row \in Int
  PROVE  RetentionOf(row) \in Nat
  BY HistoryAssumption DEF RetentionOf, Usable
LEMMA CutoffIs ==
  ASSUME NEW now \in Nat, NEW later \in Nat, now <= later, NEW kept \in Nat
  PROVE  /\ Cutoff(now, kept) \in Nat /\ Cutoff(now, kept) <= now
         /\ Cutoff(later, kept) \in Nat /\ Cutoff(now, kept) <= Cutoff(later, kept)
  BY DEF Cutoff

\* The retention of the series a row is of.
KeptFor(r) == RetentionOf(IF r.metric = "cpu" THEN SnapshotRow ELSE OwnRetention[r.metric])
LEMMA KeptIs ==
  ASSUME NEW r \in RowType
  PROVE  KeptFor(r) \in Nat /\ (r.metric \in Apps => r.metric # "cpu" /\ KeptFor(r) = RetentionOf(OwnRetention[r.metric]))
<1>1. r.metric \in Metrics
  BY DEF RowType
<1>2. CASE r.metric = "cpu"
  <2>1. r.metric \notin Apps
    BY <1>2, HistoryAssumption DEF Apps
  <2> QED BY <1>2, <2>1, RetentionIs, HistoryAssumption DEF KeptFor
<1>3. CASE r.metric # "cpu"
  <2>1. OwnRetention[r.metric] \in Int
    BY <1>1, <1>3, HistoryAssumption DEF Metrics, Apps
  <2> QED BY <1>3, <2>1, RetentionIs DEF KeptFor
<1> QED BY <1>2, <1>3

\* What a step may take out of the table: rows of the table past their retention, and of the
\* snapshot's series the oldest.
Takes(gone) ==
    /\ gone \in SUBSET rows
    /\ \A r \in gone : r.at < Cutoff(wall, KeptFor(r))
    /\ \A r \in gone, s \in rows \ gone : r.metric = "cpu" /\ s.metric = "cpu" => r.at <= s.at

\* Taking rows out leaves what was kept fresh and the snapshot's series without a hole.
LEMMA TakenOut ==
  ASSUME HistTypes, FreshRowsKept, SnapshotHistoryWhole, NEW gone, Takes(gone),
         NEW stored, NEW kept, stored = inserted, kept = rows \ gone
  PROVE  /\ \A r \in stored \ kept : r.at < Cutoff(wall, KeptFor(r))
         /\ \A r \in stored \ kept, s \in kept : (r.metric = "cpu" /\ s.metric = "cpu" /\ r.at > s.at) => s.id > r.id
<1>1. \A r \in inserted \ rows : r.at < Cutoff(wall, KeptFor(r))
  BY DEF FreshRowsKept, KeptFor
<1>2. \A r \in stored \ kept : r \in inserted \ rows \/ r \in gone
  OBVIOUS
<1>3. \A r \in stored \ kept : r.at < Cutoff(wall, KeptFor(r))
  BY <1>1, <1>2 DEF Takes
<1>4. ASSUME NEW r \in stored \ kept, NEW s \in kept, r.metric = "cpu", s.metric = "cpu", r.at > s.at
      PROVE  s.id > r.id
  <2>1. CASE r \in gone
    <3>1. r.at <= s.at
      BY <1>4, <2>1 DEF Takes
    <3>2. r.at \in Nat /\ s.at \in Nat
      BY <1>4, <2>1 DEF Takes, HistTypes, RowType
    <3> QED BY <1>4, <3>1, <3>2
  <2>2. CASE r \in inserted \ rows
    BY <1>4, <2>2 DEF SnapshotHistoryWhole
  <2> QED BY <1>2, <2>1, <2>2
<1> QED BY <1>3, <1>4

\* A step that only takes rows out.
LEMMA PruneStep ==
  ASSUME HistInv, NEW gone, Takes(gone), rows' = rows \ gone, UNCHANGED <<wall, rowid, inserted>>,
         pass' \in PassType, pass'.now <= wall, PassInv'
  PROVE  HistInv'
<1>1. HistTypes'
  BY DEF HistInv, HistTypes
<1>2. /\ \A r \in inserted \ rows' : r.at < Cutoff(wall, KeptFor(r))
      /\ \A r \in inserted \ rows', s \in rows' : (r.metric = "cpu" /\ s.metric = "cpu" /\ r.at > s.at) => s.id > r.id
  BY TakenOut DEF HistInv
<1>3. FreshRowsKept' /\ SnapshotHistoryWhole'
  BY <1>2 DEF FreshRowsKept, SnapshotHistoryWhole, KeptFor
<1> QED BY <1>1, <1>3 DEF HistInv

\* A step that inserts a row, and takes some out.
LEMMA InsertStep ==
  ASSUME HistInv, NEW gone, Takes(gone), NEW new, Insert(new), new \in RowType, new.id = rowid + 1, new.at <= wall,
         new.metric \in Apps => new.at = wall,
         rows' = (rows \ gone) \cup {new}, UNCHANGED <<wall, pass>>
  PROVE  HistInv'
<1>1. rowid' = rowid + 1 /\ inserted' = inserted \cup {new}
  BY DEF Insert
<1>2. /\ wall \in Nat /\ rowid \in Nat /\ inserted \in SUBSET RowType /\ rows \in SUBSET inserted
      /\ \A r \in inserted : r.id <= rowid /\ r.at <= wall /\ r.id \in Nat
      /\ IsFiniteSet(inserted)
  BY DEF HistInv, HistTypes, RowType
<1>3. HistTypes'
  <2>1. IsFiniteSet(inserted')
    BY <1>1, <1>2, FS_AddElement
  <2>2. \A r \in inserted' : r.id <= rowid' /\ r.at <= wall'
    BY <1>1, <1>2
  <2>3. \A r, s \in inserted' : r.id = s.id => r = s
    <3>1. \A r \in inserted : r.id # new.id
      BY <1>2
    <3>2. \A r, s \in inserted : r.id = s.id => r = s
      BY DEF HistInv, HistTypes
    <3> QED BY <1>1, <3>1, <3>2
  <2> QED BY <1>1, <1>2, <2>1, <2>2, <2>3 DEF HistInv, HistTypes
<1>4. PassInv'
  <2>1. ASSUME NEW r \in rows', r.metric \in Apps, r.metric \notin pass.todo, pass.at \in {"own", "done"}
        PROVE  r.at >= Cutoff(pass.now, RetentionOf(OwnRetention[r.metric]))
    <3>1. CASE r \in rows
      BY <2>1, <3>1 DEF HistInv, PassInv
    <3>2. CASE r = new
      <4>1. KeptFor(r) \in Nat /\ KeptFor(r) = RetentionOf(OwnRetention[r.metric])
        BY <2>1, <3>2, KeptIs
      <4>2. pass.now \in Nat /\ pass.now <= wall /\ new.at = wall
        BY <2>1, <3>2 DEF HistInv, HistTypes, PassType
      <4>3. Cutoff(pass.now, KeptFor(r)) \in Nat /\ Cutoff(pass.now, KeptFor(r)) <= pass.now
        BY <4>1, <4>2, <1>2, CutoffIs
      <4> QED BY <4>1, <4>2, <4>3, <3>2, <1>2
    <3> QED BY <3>1, <3>2
  <2> QED BY <2>1 DEF HistInv, PassInv
<1>5. PICK kept : kept = rows \ gone
  OBVIOUS
<1>6. /\ \A r \in inserted \ kept : r.at < Cutoff(wall, KeptFor(r))
      /\ \A r \in inserted \ kept, s \in kept : (r.metric = "cpu" /\ s.metric = "cpu" /\ r.at > s.at) => s.id > r.id
  BY <1>5, TakenOut DEF HistInv
<1>7. \A r \in inserted' \ rows' : r \in inserted \ kept
  BY <1>1, <1>5
<1>8. FreshRowsKept'
  BY <1>6, <1>7 DEF FreshRowsKept, KeptFor
<1>9. SnapshotHistoryWhole'
  <2> SUFFICES ASSUME NEW r \in inserted' \ rows', NEW s \in rows', r.metric = "cpu", s.metric = "cpu", r.at > s.at
               PROVE  s.id > r.id
    BY DEF SnapshotHistoryWhole
  <2>1. CASE s \in kept
    BY <2>1, <1>6, <1>7
  <2>2. CASE s = new
    BY <2>2, <1>2, <1>7
  <2> QED BY <2>1, <2>2, <1>5
<1> QED BY <1>3, <1>4, <1>8, <1>9 DEF HistInv

\* A snapshot's point, at a time not after the clock.
LEMMA StorePointStep ==
  ASSUME HistInv, NEW at \in Nat, at <= wall, StorePoint(at)
  PROVE  HistInv'
<1>1. PICK new, cutoff : new = Row("cpu", at) /\ cutoff = Cutoff(at, RetentionOf(SnapshotRow))
  OBVIOUS
<1>2. /\ Insert(new) /\ UNCHANGED <<wall, pass, passes>>
      /\ \E gone \in Oldest(Expired("cpu", cutoff), PrunePerPoint) : rows' = (rows \ gone) \cup {new}
  BY <1>1 DEF StorePoint
<1>3. PICK gone \in Oldest(Expired("cpu", cutoff), PrunePerPoint) : rows' = (rows \ gone) \cup {new}
  BY <1>2
<1>4. gone \in SUBSET Expired("cpu", cutoff) /\ \A t \in gone, s \in Expired("cpu", cutoff) \ gone : t.at <= s.at
  BY <1>3 DEF Oldest, kSubset
<1>5. wall \in Nat /\ rowid \in Nat /\ \A r \in rows : r.at \in Nat /\ r \in RowType
  BY DEF HistInv, HistTypes, RowType
<1>6. /\ RetentionOf(SnapshotRow) \in Nat /\ cutoff \in Nat
      /\ cutoff <= Cutoff(wall, RetentionOf(SnapshotRow)) /\ Cutoff(wall, RetentionOf(SnapshotRow)) \in Nat
  BY <1>1, <1>5, CutoffIs, RetentionIs, HistoryAssumption
<1>7. gone \in SUBSET rows /\ \A r \in gone : r.metric = "cpu" /\ r.at < cutoff
  BY <1>4 DEF Expired
<1>8. Takes(gone)
  <2>1. \A r \in gone : r.at < Cutoff(wall, KeptFor(r))
    BY <1>5, <1>6, <1>7 DEF KeptFor
  <2>2. ASSUME NEW r \in gone, NEW s \in rows \ gone, r.metric = "cpu", s.metric = "cpu" PROVE r.at <= s.at
    <3>1. CASE s.at < cutoff
      BY <2>2, <3>1, <1>4 DEF Expired
    <3>2. CASE ~(s.at < cutoff)
      BY <2>2, <3>2, <1>5, <1>6, <1>7
    <3> QED BY <3>1, <3>2
  <2> QED BY <2>1, <2>2, <1>7 DEF Takes
<1>9. new \in RowType /\ new.id = rowid + 1 /\ new.at = at /\ new.metric = "cpu"
  BY <1>1, <1>5 DEF Row, RowType, Metrics
<1>10. new.metric \notin Apps
  BY <1>9, HistoryAssumption DEF Apps
<1> QED BY <1>2, <1>3, <1>8, <1>9, <1>10, InsertStep

\* A round's point, at the clock.
LEMMA RoundPointStep ==
  ASSUME HistInv, NEW metric \in Apps, StoreRoundPoint(metric)
  PROVE  HistInv'
<1>1. PICK new : new = Row(metric, wall)
  OBVIOUS
<1>2. Insert(new) /\ rows' = rows \cup {new} /\ UNCHANGED <<wall, pass, passes>>
  BY <1>1 DEF StoreRoundPoint
<1>3. wall \in Nat /\ rowid \in Nat
  BY DEF HistInv, HistTypes
<1>4. new \in RowType /\ new.id = rowid + 1 /\ new.at = wall
  BY <1>1, <1>3 DEF Row, RowType, Metrics
<1>5. Takes({}) /\ rows' = (rows \ {}) \cup {new}
  BY <1>2 DEF Takes
<1> QED BY <1>2, <1>3, <1>4, <1>5, InsertStep

\* A batch takes some of S, and moves on only when none is left.
LEMMA BatchIs ==
  ASSUME HistTypes, NEW S, S \in SUBSET rows, NEW then, Batch(S, then)
  PROVE  \E gone \in SUBSET S : /\ rows' = rows \ gone /\ UNCHANGED <<wall, rowid, passes, inserted>>
                                /\ pass' = pass \/ (pass' = then /\ gone = S)
<1>1. PICK n : n = IF Cardinality(S) < PruneBatch THEN Cardinality(S) ELSE PruneBatch
  OBVIOUS
<1>2. PICK gone \in kSubset(n, S) : rows' = rows \ gone
  BY <1>1 DEF Batch
<1>3. /\ pass' = (IF n < PruneBatch THEN then ELSE pass) /\ UNCHANGED <<wall, rowid, passes, inserted>>
  BY <1>1 DEF Batch
<1>4. gone \in SUBSET S /\ Cardinality(gone) = n
  BY <1>2 DEF kSubset
<1>5. IsFiniteSet(S)
  BY FS_Subset DEF HistTypes
<1>6. Cardinality(S) \in Nat /\ PruneBatch \in Nat
  BY <1>5, FS_CardinalityType, HistoryAssumption
<1>7. n < PruneBatch => gone = S
  <2> SUFFICES ASSUME n < PruneBatch PROVE gone = S
    OBVIOUS
  <2>1. n = Cardinality(S)
    BY <1>1, <1>6
  <2> QED BY <2>1, <1>4, <1>5, FS_Subset
<1> QED BY <1>2, <1>3, <1>4, <1>7

\* The pass's statements take rows of applications, past their retention.
LEMMA PassTakes ==
  ASSUME HistInv, NEW gone, gone \in SUBSET rows,
         \A r \in gone : r.metric \in Apps /\ r.at < Cutoff(pass.now, RetentionOf(OwnRetention[r.metric]))
  PROVE  Takes(gone)
<1>1. \A r \in gone : r.at < Cutoff(wall, KeptFor(r))
  <2> SUFFICES ASSUME NEW r \in gone PROVE r.at < Cutoff(wall, KeptFor(r))
    OBVIOUS
  <2>1. wall \in Nat /\ pass.now \in Nat /\ pass.now <= wall /\ r \in RowType /\ r.at \in Nat
    BY DEF HistInv, HistTypes, PassType, RowType
  <2>2. KeptFor(r) \in Nat /\ KeptFor(r) = RetentionOf(OwnRetention[r.metric])
    BY <2>1, KeptIs
  <2>3. PICK now, later, kept : now = pass.now /\ later = wall /\ kept = KeptFor(r)
    OBVIOUS
  <2>4. now \in Nat /\ later \in Nat /\ now <= later /\ kept \in Nat
    BY <2>1, <2>2, <2>3
  <2>5. Cutoff(now, kept) \in Nat /\ Cutoff(later, kept) \in Nat /\ Cutoff(now, kept) <= Cutoff(later, kept)
    BY <2>4, CutoffIs
  <2>6. r.at < Cutoff(now, kept)
    BY <2>2, <2>3
  <2>7. r.at < Cutoff(later, kept)
    BY <2>1, <2>5, <2>6
  <2> QED BY <2>3, <2>7
<1>2. \A r \in gone : r.metric # "cpu"
  BY HistoryAssumption DEF Apps
<1> QED BY <1>1, <1>2 DEF Takes

\* The pass by the default retention.
LEMMA DefaultStep ==
  ASSUME HistInv, PruneByDefault
  PROVE  HistInv'
<1> DEFINE usable == {m \in Apps : Usable(OwnRetention[m])}
<1>1. PICK then : then = [pass EXCEPT !.at = "own", !.todo = usable]
  OBVIOUS
<1>2. pass.at = "default" /\ Batch(ByDefault, then)
  BY <1>1 DEF PruneByDefault
<1>3. /\ ByDefault \in SUBSET rows
      /\ \A r \in ByDefault : r.metric \in Apps /\ r.at < Cutoff(pass.now, RetentionOf(OwnRetention[r.metric]))
  BY DEF ByDefault, RetentionOf
<1>4. PICK gone \in SUBSET ByDefault : /\ rows' = rows \ gone /\ UNCHANGED <<wall, rowid, passes, inserted>>
                                       /\ pass' = pass \/ (pass' = then /\ gone = ByDefault)
  BY <1>2, <1>3, BatchIs DEF HistInv
<1>5. Takes(gone)
  BY <1>3, <1>4, PassTakes
<1>6. pass \in PassType /\ pass.now \in Nat /\ pass.now <= wall
  BY DEF HistInv, HistTypes, PassType
<1>7. CASE pass' = pass
  <2>1. PassInv'
    BY <1>2, <1>7 DEF PassInv
  <2> QED BY <2>1, <1>4, <1>5, <1>6, <1>7, PruneStep
<1>8. CASE pass' = then /\ gone = ByDefault
  <2>1. then \in PassType /\ then.now = pass.now /\ then.at = "own" /\ then.todo = usable
    BY <1>1, <1>6 DEF PassType
  <2>2. ASSUME NEW r \in rows', r.metric \in Apps, r.metric \notin usable
        PROVE  r.at >= Cutoff(pass.now, RetentionOf(OwnRetention[r.metric]))
    <3>1. ~Usable(OwnRetention[r.metric]) /\ r \in rows /\ r \notin ByDefault
      BY <2>2, <1>4, <1>8
    <3>2. ~(r.at < Cutoff(pass.now, DefaultRetention)) /\ RetentionOf(OwnRetention[r.metric]) = DefaultRetention
      BY <2>2, <3>1 DEF ByDefault, RetentionOf
    <3>3. r.at \in Nat
      BY <3>1 DEF HistInv, HistTypes, RowType
    <3>4. Cutoff(pass.now, DefaultRetention) \in Nat
      BY <1>6, CutoffIs, HistoryAssumption
    <3> QED BY <3>2, <3>3, <3>4
  <2>3. PassInv'
    BY <2>1, <2>2, <1>8 DEF PassInv
  <2> QED BY <2>1, <2>3, <1>4, <1>5, <1>6, <1>8, PruneStep
<1> QED BY <1>4, <1>7, <1>8

\* The pass by a metric's own row.
LEMMA OwnStep ==
  ASSUME HistInv, NEW metric \in Apps, PruneOwn(metric)
  PROVE  HistInv'
<1>1. PICK then : then = [pass EXCEPT !.todo = @ \ {metric}]
  OBVIOUS
<1>2. pass.at = "own" /\ metric \in pass.todo /\ Batch(ByOwnRow(metric), then)
  BY <1>1 DEF PruneOwn
<1>3. pass \in PassType /\ pass.now \in Nat /\ pass.now <= wall /\ pass.todo \in SUBSET {m \in Apps : Usable(OwnRetention[m])}
  BY DEF HistInv, HistTypes, PassType
<1>4. RetentionOf(OwnRetention[metric]) = OwnRetention[metric]
  BY <1>2, <1>3 DEF RetentionOf
<1>5. /\ ByOwnRow(metric) = {r \in rows : r.metric = metric /\ r.at < Cutoff(pass.now, RetentionOf(OwnRetention[metric]))}
  BY <1>4 DEF ByOwnRow, Expired
<1>6. PICK gone \in SUBSET ByOwnRow(metric) : /\ rows' = rows \ gone /\ UNCHANGED <<wall, rowid, passes, inserted>>
                                              /\ pass' = pass \/ (pass' = then /\ gone = ByOwnRow(metric))
  BY <1>2, <1>5, BatchIs DEF HistInv
<1>7. Takes(gone)
  BY <1>5, <1>6, PassTakes
<1>8. CASE pass' = pass
  <2>1. PassInv'
    BY <1>6, <1>8 DEF HistInv, PassInv
  <2> QED BY <2>1, <1>3, <1>6, <1>7, <1>8, PruneStep
<1>9. CASE pass' = then /\ gone = ByOwnRow(metric)
  <2>1. then \in PassType /\ then.now = pass.now /\ then.at = "own" /\ then.todo = pass.todo \ {metric}
    BY <1>1, <1>2, <1>3 DEF PassType
  <2>2. ASSUME NEW r \in rows', r.metric \in Apps, r.metric \notin then.todo
        PROVE  r.at >= Cutoff(pass.now, RetentionOf(OwnRetention[r.metric]))
    <3>1. r \in rows /\ r \notin ByOwnRow(metric)
      BY <2>2, <1>6, <1>9
    <3>2. CASE r.metric # metric
      BY <2>1, <2>2, <3>1, <3>2, <1>2 DEF HistInv, PassInv
    <3>3. CASE r.metric = metric
      <4>1. ~(r.at < Cutoff(pass.now, RetentionOf(OwnRetention[metric])))
        BY <3>1, <3>3, <1>5
      <4>2. r.at \in Nat /\ r \in RowType
        BY <3>1 DEF HistInv, HistTypes, RowType
      <4>3. PICK kept \in Nat : kept = RetentionOf(OwnRetention[metric])
        BY <4>2, <3>3, KeptIs
      <4>4. Cutoff(pass.now, kept) \in Nat
        BY <1>3, CutoffIs
      <4> QED BY <4>1, <4>2, <4>3, <4>4, <3>3
    <3> QED BY <3>2, <3>3
  <2>3. PassInv'
    BY <2>1, <2>2, <1>9 DEF PassInv
  <2> QED BY <2>1, <2>3, <1>3, <1>6, <1>7, <1>9, PruneStep
<1> QED BY <1>6, <1>8, <1>9

\* The steps of the pass and of the clock that leave the rows.
LEMMA PlainHistSteps ==
  ASSUME HistInv, HistoryTick \/ BeginPruning \/ PassOver \/ PassFails \/ PassForgotten
  PROVE  HistInv'
<1>1. Takes({}) /\ rows = rows \ {}
  BY DEF Takes
<1>2. pass \in PassType /\ pass.now \in Nat /\ pass.now <= wall /\ wall \in Nat
  BY DEF HistInv, HistTypes, PassType
<1>3. CASE HistoryTick
  <2>1. wall' = wall + 1 /\ UNCHANGED <<rows, rowid, pass, passes, inserted>>
    BY <1>3 DEF HistoryTick
  <2>2. HistTypes'
    <3>1. \A r \in inserted : r.at \in Nat /\ r.at <= wall
      BY DEF HistInv, HistTypes, RowType
    <3>2. \A r \in inserted' : r.id <= rowid' /\ r.at <= wall'
      BY <3>1, <2>1, <1>2 DEF HistInv, HistTypes
    <3>3. pass' \in PassType /\ pass'.now <= wall' /\ wall' \in Nat
      BY <2>1, <1>2
    <3> QED BY <3>2, <3>3, <2>1 DEF HistInv, HistTypes
  <2>3. PassInv' /\ SnapshotHistoryWhole'
    BY <2>1 DEF HistInv, PassInv, SnapshotHistoryWhole
  <2>4. FreshRowsKept'
    <3> SUFFICES ASSUME NEW r \in inserted \ rows PROVE r.at < Cutoff(wall', KeptFor(r))
      BY <2>1 DEF FreshRowsKept, KeptFor
    <3>1. r.at < Cutoff(wall, KeptFor(r)) /\ r \in RowType /\ r.at \in Nat
      BY DEF HistInv, FreshRowsKept, KeptFor, HistTypes, RowType
    <3>2. KeptFor(r) \in Nat
      BY <3>1, KeptIs
    <3>3. PICK kept \in Nat, later \in Nat : kept = KeptFor(r) /\ later = wall' /\ wall <= later
      BY <3>2, <2>1, <1>2
    <3>4. Cutoff(wall, kept) \in Nat /\ Cutoff(later, kept) \in Nat /\ Cutoff(wall, kept) <= Cutoff(later, kept)
      BY <3>3, <1>2, CutoffIs
    <3> QED BY <3>1, <3>3, <3>4
  <2> QED BY <2>2, <2>3, <2>4 DEF HistInv
<1>4. CASE BeginPruning
  <2>1. pass' = [at |-> "default", now |-> wall, todo |-> {}] /\ UNCHANGED <<wall, rows, rowid, inserted>>
    BY <1>4 DEF BeginPruning
  <2>2. pass' \in PassType /\ pass'.now <= wall /\ PassInv'
    BY <2>1, <1>2 DEF PassType, PassInv
  <2> QED BY <2>1, <2>2, <1>1, PruneStep
<1>5. CASE PassOver
  <2>1. pass.at = "own" /\ pass.todo = {} /\ pass' = [pass EXCEPT !.at = "done"] /\ UNCHANGED <<wall, rows, rowid, inserted>>
    BY <1>5 DEF PassOver
  <2>2. pass' \in PassType /\ pass'.now = pass.now /\ pass'.todo = {} /\ pass'.at = "done"
    BY <2>1, <1>2 DEF PassType
  <2>3. PassInv'
    BY <2>1, <2>2 DEF HistInv, PassInv
  <2> QED BY <2>1, <2>2, <2>3, <1>1, <1>2, PruneStep
<1>6. CASE PassFails \/ PassForgotten
  <2>1. pass' = NoPass /\ UNCHANGED <<wall, rows, rowid, inserted>>
    BY <1>6 DEF PassFails, PassForgotten
  <2>2. pass' \in PassType /\ pass'.now <= wall /\ PassInv'
    BY <2>1, <1>2 DEF PassType, PassInv, NoPass
  <2> QED BY <2>1, <2>2, <1>1, PruneStep
<1> QED BY <1>3, <1>4, <1>5, <1>6

\* Every step keeps the invariant.
LEMMA HistKeeps ==
  ASSUME HistInv, [HistoryNext]_histVars
  PROVE  HistInv'
<1>1. wall \in Nat
  BY DEF HistInv, HistTypes
<1>2. ASSUME NEW at \in 0..MaxHistoryTime, StoreLate(at) PROVE HistInv'
  <2>1. at \in Nat /\ at <= wall
    BY <1>1, <1>2, HistoryAssumption DEF StoreLate
  <2>2. CASE StorePoint(at)
    BY <2>1, <2>2, StorePointStep
  <2>3. CASE UNCHANGED histVars
    BY <2>3 DEF HistInv, HistTypes, PassInv, FreshRowsKept, SnapshotHistoryWhole, histVars
  <2> QED BY <1>2, <2>2, <2>3 DEF StoreLate
<1>3. CASE UNCHANGED histVars
  BY <1>3 DEF HistInv, HistTypes, PassInv, FreshRowsKept, SnapshotHistoryWhole, histVars
<1>4. CASE StorePoint(wall)
  BY <1>1, <1>4, StorePointStep
<1> QED BY <1>2, <1>3, <1>4, RoundPointStep, DefaultStep, OwnStep, PlainHistSteps DEF HistoryNext

\* The empty table has it.
LEMMA HistStarts ==
  ASSUME HistoryInit
  PROVE  HistInv
  BY FS_EmptySet DEF HistoryInit, HistInv, HistTypes, PassInv, PassType, FreshRowsKept, SnapshotHistoryWhole, NoPass

-----------------------------------------------------------------------------
\* A row comes before another, or it is that one, or the other comes before it; and so on.
LEMMA BeforeIs ==
  ASSUME NEW r \in RowType, NEW s \in RowType, NEW t \in RowType
  PROVE  /\ ~Before(r, r)
         /\ Before(r, s) /\ Before(s, t) => Before(r, t)
         /\ Before(r, s) => r.at <= s.at
         /\ r.id # s.id => Before(r, s) \/ Before(s, r)
<1>1. r.at \in Nat /\ s.at \in Nat /\ t.at \in Nat /\ r.id \in Nat /\ s.id \in Nat /\ t.id \in Nat
  BY DEF RowType
<1> QED BY <1>1 DEF Before

\* A table in time order.
Ordered(S, f) == /\ f \in [1..Cardinality(S) -> S]
                 /\ \A i, j \in DOMAIN f : i < j => Before(f[i], f[j])

\* Some rows, each with an id of its own.
Distinct(S) == S \in SUBSET RowType /\ IsFiniteSet(S) /\ \A r, s \in S : r.id = s.id => r = s

\* A row's place in time order is the number of rows up to it.
UpTo(S, r) == {s \in S : s = r \/ Before(s, r)}
LEMMA PlacesAscend ==
  ASSUME NEW S, Distinct(S), NEW r \in S, NEW s \in S
  PROVE  /\ Cardinality(UpTo(S, r)) \in 1..Cardinality(S)
         /\ Before(r, s) => Cardinality(UpTo(S, r)) < Cardinality(UpTo(S, s))
<1>1. \A q \in S : /\ UpTo(S, q) \in SUBSET S /\ IsFiniteSet(UpTo(S, q)) /\ q \in UpTo(S, q)
                   /\ Cardinality(UpTo(S, q)) \in Nat /\ Cardinality(UpTo(S, q)) <= Cardinality(S)
  <2> SUFFICES ASSUME NEW q \in S
               PROVE  /\ UpTo(S, q) \in SUBSET S /\ IsFiniteSet(UpTo(S, q)) /\ q \in UpTo(S, q)
                      /\ Cardinality(UpTo(S, q)) \in Nat /\ Cardinality(UpTo(S, q)) <= Cardinality(S)
    OBVIOUS
  <2>1. UpTo(S, q) \in SUBSET S /\ q \in UpTo(S, q)
    BY DEF UpTo
  <2>2. IsFiniteSet(UpTo(S, q)) /\ Cardinality(UpTo(S, q)) <= Cardinality(S)
    BY <2>1, FS_Subset DEF Distinct
  <2> QED BY <2>1, <2>2, FS_CardinalityType
<1>2. Cardinality(S) \in Nat
  BY FS_CardinalityType DEF Distinct
<1>3. Cardinality(UpTo(S, r)) # 0
  BY <1>1, FS_EmptySet
<1>4. Cardinality(UpTo(S, r)) \in 1..Cardinality(S)
  BY <1>1, <1>2, <1>3
<1>5. ASSUME Before(r, s) PROVE Cardinality(UpTo(S, r)) < Cardinality(UpTo(S, s))
  <2>1. r \in RowType /\ s \in RowType /\ \A q \in S : q \in RowType
    BY DEF Distinct
  <2>2. \A q \in UpTo(S, r) : q \in UpTo(S, s)
    <3> SUFFICES ASSUME NEW q \in UpTo(S, r) PROVE q \in UpTo(S, s)
      OBVIOUS
    <3>1. q \in S /\ (q = r \/ Before(q, r))
      BY DEF UpTo
    <3>2. Before(q, s)
      BY <3>1, <2>1, <1>5, BeforeIs
    <3> QED BY <3>1, <3>2 DEF UpTo
  <2>3. s \notin UpTo(S, r)
    <3> SUFFICES ASSUME s \in UpTo(S, r) PROVE FALSE
      OBVIOUS
    <3>1. s = r \/ Before(s, r)
      BY DEF UpTo
    <3>2. Before(r, r)
      BY <3>1, <2>1, <1>5, BeforeIs
    <3> QED BY <3>2, <2>1, BeforeIs
  <2>4. UpTo(S, r) \in SUBSET UpTo(S, s) /\ UpTo(S, r) # UpTo(S, s)
    BY <2>2, <2>3, <1>1
  <2>5. Cardinality(UpTo(S, r)) <= Cardinality(UpTo(S, s)) /\ Cardinality(UpTo(S, r)) # Cardinality(UpTo(S, s))
    BY <2>4, <1>1, FS_Subset
  <2> QED BY <2>5, <1>1
<1> QED BY <1>4, <1>5

\* So rows can be put in time order.
LEMMA OrderedExists ==
  ASSUME NEW S, Distinct(S)
  PROVE  \E f : Ordered(S, f)
<1>1. PICK n \in Nat : n = Cardinality(S)
  BY FS_CardinalityType DEF Distinct
<1>2. PICK place : place = [r \in S |-> Cardinality(UpTo(S, r))]
  OBVIOUS
<1>3. /\ place \in [S -> 1..n]
      /\ \A r, s \in S : Before(r, s) => place[r] < place[s]
  BY <1>1, <1>2, PlacesAscend
<1>4. \A r, s \in S : r # s => Before(r, s) \/ Before(s, r)
  BY BeforeIs DEF Distinct
<1>5. \A r, s \in S : place[r] = place[s] => r = s
  BY <1>3, <1>4
<1>6. place \in Injection(S, 1..n)
  BY <1>3, <1>5 DEF Injection, IsInjective
<1>7. IsFiniteSet(1..n) /\ Cardinality(1..n) = n
  BY FS_Interval
<1>8. place \in Surjection(S, 1..n)
  BY <1>1, <1>6, <1>7, FS_Injection
<1>9. \A i \in 1..n : \E r \in S : place[r] = i
  BY <1>8 DEF Surjection
<1>10. PICK f : f = [i \in 1..n |-> CHOOSE r \in S : place[r] = i]
  OBVIOUS
<1>11. f \in [1..n -> S] /\ \A i \in 1..n : place[f[i]] = i
  BY <1>9, <1>10
<1>12. ASSUME NEW i \in 1..n, NEW j \in 1..n, i < j PROVE Before(f[i], f[j])
  <2>1. f[i] \in S /\ f[j] \in S /\ place[f[i]] = i /\ place[f[j]] = j
    BY <1>11
  <2>2. f[i] # f[j] /\ ~Before(f[j], f[i])
    BY <2>1, <1>3, <1>12
  <2> QED BY <2>1, <2>2, <1>4
<1>13. Ordered(S, f)
  BY <1>1, <1>11, <1>12 DEF Ordered
<1> QED BY <1>13

\* The table's index scan gives all its rows, in time order.
LEMMA AscendingIs ==
  ASSUME NEW S, Distinct(S), NEW n, n = Cardinality(S), NEW f, f = Ascending(S)
  PROVE  /\ n \in Nat /\ f \in [1..n -> S]
         /\ \A r \in S : \E i \in 1..n : f[i] = r
         /\ \A i, j \in 1..n : i <= j => f[i].at <= f[j].at
<1>1. n \in Nat
  BY FS_CardinalityType DEF Distinct
<1>2. Ordered(S, f)
  BY OrderedExists DEF Ordered, Ascending
<1>3. f \in [1..n -> S] /\ \A i, j \in 1..n : i < j => Before(f[i], f[j])
  BY <1>2 DEF Ordered
<1>4. \A i \in 1..n : f[i] \in RowType /\ f[i].at \in Nat
  BY <1>3 DEF Distinct, RowType
<1>5. \A i, j \in 1..n : i < j => f[i] # f[j] /\ f[i].at <= f[j].at
  BY <1>3, <1>4, BeforeIs
<1>6. f \in Injection(1..n, S)
  <2>1. \A i, j \in 1..n : f[i] = f[j] => i = j
    <3> SUFFICES ASSUME NEW i \in 1..n, NEW j \in 1..n, i # j PROVE f[i] # f[j]
      OBVIOUS
    <3>1. i < j \/ j < i
      OBVIOUS
    <3> QED BY <3>1, <1>5
  <2> QED BY <2>1, <1>3 DEF Injection, IsInjective
<1>7. IsFiniteSet(1..n) /\ Cardinality(1..n) = n
  BY <1>1, FS_Interval
<1>8. f \in Surjection(1..n, S)
  BY <1>6, <1>7, FS_Injection DEF Distinct
<1>9. \A r \in S : \E i \in 1..n : f[i] = r
  BY <1>8 DEF Surjection
<1>10. ASSUME NEW i \in 1..n, NEW j \in 1..n, i <= j PROVE f[i].at <= f[j].at
  <2>1. i = j \/ i < j
    BY <1>10
  <2> QED BY <2>1, <1>4, <1>5
<1> QED BY <1>1, <1>3, <1>9, <1>10

\* A table in order is a sequence.
LEMMA TableIsSeq ==
  ASSUME NEW S, NEW n \in Nat, NEW f \in [1..n -> S]
  PROVE  f \in Seq(S) /\ Len(f) = n
<1>1. f \in Seq(S)
  BY SeqDef
<1>2. PICK m \in Nat : m = Len(f) /\ 1..n = 1..m
  BY <1>1, LenProperties
<1>3. ~(n < m) /\ ~(m < n)
  BY <1>2
<1> QED BY <1>1, <1>2, <1>3

\* f is n of S's members in a row.
InARow(S, n, f) == n \in Nat /\ f \in [1..n -> S]

\* h is f's first k, all there are or `limit` of them.
IsTaken(S, n, f, limit, k, h) ==
    /\ k \in Nat /\ k <= n /\ k = (IF n < limit THEN n ELSE limit)
    /\ InARow(S, k, h) /\ \A i \in 1..k : h[i] = f[i]

\* g is f from its end.
IsReversed(S, n, f, g) == InARow(S, n, g) /\ \A i \in 1..n : g[i] = f[n - i + 1]

\* The first `limit` of a table in order.
LEMMA TakenFirstIs ==
  ASSUME NEW S, NEW n, NEW f, InARow(S, n, f), NEW limit, limit \in Nat
  PROVE  \E k : IsTaken(S, n, f, limit, k, TakenFirst(f, limit))
<1>0. n \in Nat /\ f \in [1..n -> S]
  BY DEF InARow
<1>1. f \in Seq(S) /\ Len(f) = n
  BY <1>0, TableIsSeq
<1>2. CASE n < limit
  <2>1. TakenFirst(f, limit) = f
    BY <1>1, <1>2 DEF TakenFirst
  <2>2. IsTaken(S, n, f, limit, n, f)
    BY <1>0, <1>2 DEF IsTaken, InARow
  <2> QED BY <2>1, <2>2, Zenon
<1>3. CASE ~(n < limit)
  <2>1. PICK g : g = SubSeq(f, 1, limit)
    OBVIOUS
  <2>2. TakenFirst(f, limit) = g
    BY <1>1, <1>3, <2>1 DEF TakenFirst
  <2>3. \A i \in 1..limit : f[i] \in S
    BY <1>0, <1>3
  <2>4. g \in Seq(S) /\ Len(g) = limit /\ \A i \in 1..limit : g[i] = f[i]
    BY <2>1, <2>3, SubSeqProperties
  <2>5. g \in [1..limit -> S]
    BY <2>4, LenProperties
  <2>6. IsTaken(S, n, f, limit, limit, g)
    BY <1>0, <1>3, <2>4, <2>5 DEF IsTaken, InARow
  <2> QED BY <2>2, <2>6, Zenon
<1> QED BY <1>2, <1>3

\* A sequence, from its end.
LEMMA ReverseIs ==
  ASSUME NEW S, NEW n, NEW f, InARow(S, n, f)
  PROVE  IsReversed(S, n, f, Reverse(f))
<1>0. n \in Nat /\ f \in [1..n -> S]
  BY DEF InARow
<1>1. f \in Seq(S) /\ Len(f) = n
  BY <1>0, TableIsSeq
<1>2. PICK g : g = Reverse(f)
  OBVIOUS
<1>3. g = [i \in 1..n |-> f[(n - i) + 1]]
  BY <1>1, <1>2 DEF Reverse
<1>4. \A i \in 1..n : (n - i) + 1 \in 1..n
  BY <1>0
<1>5. g \in [1..n -> S] /\ \A i \in 1..n : g[i] = f[n - i + 1]
  BY <1>0, <1>3, <1>4
<1>6. IsReversed(S, n, f, g)
  BY <1>0, <1>5 DEF IsReversed, InARow
<1> QED BY <1>2, <1>6, Zenon

\* got is a stretch of S in order f, d from its start: the last rows with no `since`, else the first.
Stretch(S, got, limit, since, n, f, k, d) ==
    /\ n \in Nat /\ f \in [1..n -> S] /\ k \in Nat /\ d \in Nat
    /\ n = Cardinality(S) /\ k = (IF n < limit THEN n ELSE limit) /\ k + d <= n /\ (since = -1 => k + d = n)
    /\ got \in [1..k -> S]
    /\ \A i \in 1..k : got[i] = f[i + d]
    /\ \A r \in S : \E i \in 1..n : f[i] = r
    /\ \A i, j \in 1..n : i <= j => f[i].at <= f[j].at

\* got is f's rows d + 1 to d + k, as many as there are and at most `limit`.
Part(S, n, f, limit, k, d, got) ==
    /\ k \in Nat /\ d \in Nat
    /\ k = (IF n < limit THEN n ELSE limit) /\ k + d <= n
    /\ got \in [1..k -> S]
    /\ \A i \in 1..k : got[i] = f[i + d]

\* Reversed, cut and reversed again: the last rows.
LEMMA LastRows ==
  ASSUME NEW S, NEW n, NEW f, InARow(S, n, f), NEW limit, limit \in Nat
  PROVE  \E k, d : k + d = n /\ Part(S, n, f, limit, k, d, Reverse(TakenFirst(Reverse(f), limit)))
<1>1. PICK g : g = Reverse(f) /\ IsReversed(S, n, f, g)
  BY ReverseIs, Zenon
<1>2. InARow(S, n, g)
  BY <1>1 DEF IsReversed
<1>3. PICK k : IsTaken(S, n, g, limit, k, TakenFirst(g, limit))
  BY <1>2, TakenFirstIs, Zenon
<1>4. PICK h : h = TakenFirst(g, limit) /\ IsTaken(S, n, g, limit, k, h)
  BY <1>3
<1>5. InARow(S, k, h)
  BY <1>4 DEF IsTaken
<1>6. PICK got : got = Reverse(h) /\ IsReversed(S, k, h, got)
  BY <1>5, ReverseIs, Zenon
<1>7. n \in Nat /\ k \in Nat /\ k <= n /\ k = (IF n < limit THEN n ELSE limit)
  BY <1>4 DEF InARow, IsTaken
<1>8. PICK d \in Nat : k + d = n
  <2>1. n - k \in Nat /\ k + (n - k) = n
    BY <1>7
  <2> QED BY <2>1
<1>9. ASSUME NEW i \in 1..k PROVE got[i] = f[i + d]
  <2>1. PICK j \in 1..k : j = k - i + 1
    BY <1>7
  <2>2. j \in 1..n /\ n - j + 1 = i + d
    BY <2>1, <1>7, <1>8
  <2>3. got[i] = h[k - i + 1]
    BY <1>6 DEF IsReversed
  <2>4. h[j] = g[j]
    BY <1>4 DEF IsTaken
  <2>5. g[j] = f[n - j + 1]
    BY <2>2, <1>1 DEF IsReversed
  <2> QED BY <2>1, <2>2, <2>3, <2>4, <2>5
<1>10. got \in [1..k -> S]
  BY <1>6 DEF IsReversed, InARow
<1>11. Part(S, n, f, limit, k, d, got)
  BY <1>7, <1>8, <1>9, <1>10 DEF Part
<1>12. got = Reverse(TakenFirst(Reverse(f), limit))
  BY <1>1, <1>4, <1>6, Zenon
<1> QED BY <1>8, <1>11, <1>12, Zenon

\* Cut: the first rows.
LEMMA FirstRows ==
  ASSUME NEW S, NEW n, NEW f, InARow(S, n, f), NEW limit, limit \in Nat
  PROVE  \E k : Part(S, n, f, limit, k, 0, TakenFirst(f, limit))
<1>1. PICK k : IsTaken(S, n, f, limit, k, TakenFirst(f, limit))
  BY TakenFirstIs, Zenon
<1>2. PICK h : h = TakenFirst(f, limit) /\ IsTaken(S, n, f, limit, k, h)
  BY <1>1
<1>3. k \in Nat /\ k <= n /\ k = (IF n < limit THEN n ELSE limit)
  BY <1>2 DEF IsTaken
<1>4. h \in [1..k -> S] /\ \A i \in 1..k : h[i] = f[i]
  BY <1>2 DEF IsTaken, InARow
<1>5. \A i \in 1..k : h[i] = f[i + 0]
  BY <1>4
<1>6. Part(S, n, f, limit, k, 0, h)
  BY <1>3, <1>4, <1>5 DEF Part
<1> QED BY <1>2, <1>6, Zenon

\* A query's answer is a stretch of its rows.
LEMMA AnswerIs ==
  ASSUME NEW metric, NEW limit \in Nat, NEW since \in Int, NEW S, S = Found(metric, since), Distinct(S)
  PROVE  \E n, f, k, d : Stretch(S, GetMetrics(metric, limit, since), limit, since, n, f, k, d)
<1>1. PICK n, f : n = Cardinality(S) /\ f = Ascending(S)
  OBVIOUS
<1>2. n \in Nat /\ f \in [1..n -> S]
  BY <1>1, AscendingIs
<1>21. InARow(S, n, f)
  BY <1>2 DEF InARow
<1>3. \A r \in S : \E i \in 1..n : f[i] = r
  BY <1>1, AscendingIs
<1>4. \A i, j \in 1..n : i <= j => f[i].at <= f[j].at
  BY <1>1, AscendingIs
<1>5. CASE since = -1
  <2>1. PICK k, d : k + d = n /\ Part(S, n, f, limit, k, d, Reverse(TakenFirst(Reverse(f), limit)))
    BY <1>21, LastRows, Zenon
  <2>2. GetMetrics(metric, limit, since) = Reverse(TakenFirst(Reverse(f), limit))
    BY <1>1, <1>5 DEF GetMetrics
  <2>3. Part(S, n, f, limit, k, d, GetMetrics(metric, limit, since))
    BY <2>1, <2>2, Zenon
  <2>4. Stretch(S, GetMetrics(metric, limit, since), limit, since, n, f, k, d)
    BY <2>1, <2>3, <1>1, <1>2, <1>3, <1>4 DEF Stretch, Part
  <2> QED BY <2>4
<1>6. CASE since # -1
  <2>1. PICK k : Part(S, n, f, limit, k, 0, TakenFirst(f, limit))
    BY <1>21, FirstRows, Zenon
  <2>2. GetMetrics(metric, limit, since) = TakenFirst(f, limit)
    BY <1>1, <1>6 DEF GetMetrics
  <2>3. Part(S, n, f, limit, k, 0, GetMetrics(metric, limit, since))
    BY <2>1, <2>2, Zenon
  <2>4. Stretch(S, GetMetrics(metric, limit, since), limit, since, n, f, k, 0)
    BY <2>3, <1>1, <1>2, <1>3, <1>4, <1>6 DEF Stretch, Part
  <2> QED BY <2>4
<1> QED BY <1>5, <1>6

\* What is asked of an answer `got` from the rows S.
Whole(S, got, limit, since) ==
    /\ Range(got) \subseteq S
    /\ Len(got) = IF Cardinality(S) < limit THEN Cardinality(S) ELSE limit
    /\ \A i \in 1..(Len(got) - 1) :
          /\ got[i].at <= got[i + 1].at
          /\ ~\E r \in S : got[i].at < r.at /\ r.at < got[i + 1].at
    /\ since = -1 /\ got # <<>> => \A r \in S : r.at <= got[Len(got)].at

\* A query's answer is whole.
LEMMA QueriesAreWhole ==
  ASSUME HistInv
  PROVE  QueriesWhole
<1> SUFFICES ASSUME NEW metric \in Metrics, NEW limit \in QueryLimits, NEW since \in QuerySinces
             PROVE  Whole(Found(metric, since), GetMetrics(metric, limit, since), limit, since)
  BY DEF QueriesWhole, Whole, Found
<1>1. limit \in Nat /\ since \in Int
  BY HistoryAssumption
<1>2. PICK S, got : S = Found(metric, since) /\ S \in SUBSET inserted /\ got = GetMetrics(metric, limit, since)
  BY DEF Found, HistInv, HistTypes
<1>3. Distinct(S)
  <2>1. IsFiniteSet(S)
    BY <1>2, FS_Subset DEF HistInv, HistTypes
  <2> QED BY <2>1, <1>2 DEF Distinct, HistInv, HistTypes
<1>4. PICK n, f, k, d : Stretch(S, got, limit, since, n, f, k, d)
  BY <1>1, <1>2, <1>3, AnswerIs
<1>5. n \in Nat /\ k \in Nat /\ d \in Nat /\ f \in [1..n -> S]
  BY <1>4 DEF Stretch
<1>6. /\ n = Cardinality(S) /\ k = (IF n < limit THEN n ELSE limit) /\ k + d <= n /\ (since = -1 => k + d = n)
      /\ got \in [1..k -> S]
      /\ \A i \in 1..k : got[i] = f[i + d]
      /\ \A r \in S : \E i \in 1..n : f[i] = r
      /\ \A i, j \in 1..n : i <= j => f[i].at <= f[j].at
  BY <1>4 DEF Stretch
<1>7. Len(got) = k
  BY <1>5, <1>6, TableIsSeq
<1>8. Range(got) \subseteq S
  <2>1. got \in [1..k -> S]
    BY <1>6
  <2> QED BY <2>1 DEF Range
<1>9. \A r \in S : r.at \in Nat
  BY <1>3 DEF Distinct, RowType
<1>10. ASSUME NEW i \in 1..(k - 1)
      PROVE  /\ got[i].at <= got[i + 1].at
             /\ ~\E r \in S : got[i].at < r.at /\ r.at < got[i + 1].at
  <2>1. PICK a \in 1..n : a = i + d /\ a + 1 \in 1..n
    <3>1. k + d <= n
      BY <1>6
    <3> QED BY <3>1, <1>5
  <2>2. got[i] = f[a] /\ got[i + 1] = f[a + 1]
    <3>1. i \in 1..k /\ i + 1 \in 1..k /\ (i + 1) + d = a + 1
      BY <2>1, <1>5
    <3>2. got[i] = f[i + d] /\ got[i + 1] = f[(i + 1) + d]
      BY <3>1, <1>5, <1>6
    <3> QED BY <3>1, <3>2, <2>1
  <2>3. f[a].at <= f[a + 1].at
    BY <2>1, <1>5, <1>6
  <2>4. ASSUME NEW r \in S, f[a].at < r.at, r.at < f[a + 1].at PROVE FALSE
    <3>1. PICK j \in 1..n : f[j] = r
      BY <1>5, <1>6
    <3>2. f[a].at \in Nat /\ f[a + 1].at \in Nat /\ r.at \in Nat
      BY <2>1, <1>5, <1>6, <1>9
    <3>3. j <= a \/ a + 1 <= j
      BY <2>1
    <3>4. CASE j <= a
      <4>1. r.at <= f[a].at
        BY <3>1, <3>4, <2>1, <1>5, <1>6
      <4> QED BY <4>1, <3>2, <2>4
    <3>5. CASE a + 1 <= j
      <4>1. f[a + 1].at <= r.at
        BY <3>1, <3>5, <2>1, <1>5, <1>6
      <4> QED BY <4>1, <3>2, <2>4
    <3> QED BY <3>3, <3>4, <3>5
  <2> QED BY <2>2, <2>3, <2>4
<1>11. ASSUME since = -1, got # <<>>, NEW r \in S PROVE r.at <= got[k].at
  <2>1. k # 0
    BY <1>5, <1>6, <1>7, <1>11, TableIsSeq, EmptySeq
  <2>2. got[k] = f[n] /\ n \in 1..n
    <3>1. k + d = n
      BY <1>6, <1>11
    <3>2. k \in 1..k /\ n \in 1..n
      BY <3>1, <2>1, <1>5
    <3>3. got[k] = f[k + d]
      BY <3>2, <1>6
    <3> QED BY <3>1, <3>2, <3>3
  <2>3. PICK j \in 1..n : f[j] = r
    BY <1>5, <1>6
  <2>4. j <= n
    OBVIOUS
  <2> QED BY <2>2, <2>3, <2>4, <1>5, <1>6
<1>12. Whole(S, got, limit, since)
  BY <1>5, <1>6, <1>7, <1>8, <1>10, <1>11 DEF Whole
<1> QED BY <1>2, <1>12

\* For any metrics, retentions, batch, rows and passes, with rounds, late points and a failing
\* pass between any two batches: a finished pass leaves nothing expired, nothing fresh is lost,
\* the snapshot's history has no hole, and a query returns a whole stretch.
THEOREM HistoryAlwaysKept == HistorySpec => []HistoryKept
<1>1. HistInv => HistoryKept
  <2> SUFFICES ASSUME HistInv PROVE HistoryKept
    OBVIOUS
  <2>1. PassLeavesNothingExpired
    BY DEF HistInv, PassInv, PassLeavesNothingExpired
  <2> QED BY <2>1, QueriesAreWhole DEF HistInv, HistoryKept
<1> QED BY <1>1, HistStarts, HistKeeps, PTL DEF HistorySpec

=============================================================================
