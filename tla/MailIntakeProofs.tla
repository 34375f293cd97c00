-------------------------- MODULE MailIntakeProofs --------------------------
(***************************************************************************)
(* IntakeInv is an invariant of the hub's mail intake, for every set of     *)
(* reports, every window and every bound: a report is stored once, and      *)
(* last_seen is the newest report's.                                       *)
(***************************************************************************)
EXTENDS MailIntake, TLAPS

-----------------------------------------------------------------------------
(* Rows, receipts and their newest one.                                    *)

\* No row and no sample time is the missing one.
LEMMA NoneApart ==
    /\ \A v : [at |-> v] # None
    /\ \A x \in RowType : x # None
    /\ MailRow \in RowType /\ MailRow # None
  BY DEF None, RowType, MailRow

\* A receipt's fields are its report's.
LEMMA ReceiptFields ==
  ASSUME NEW r \in Reports, NEW b \in BOOLEAN
  PROVE  /\ ReceiptOf(r, b).run = r.run /\ ReceiptOf(r, b).seq = r.seq
         /\ ReceiptOf(r, b).at = r.at /\ ReceiptOf(r, b).at \in Nat
         /\ ReceiptOf(r, b).interval = r.interval /\ ReceiptOf(r, b).interval \in Nat
         /\ ReceiptOf(r, b).retired = b
         /\ Receipt(r) = ReceiptOf(r, FALSE)
  BY MailIntakeAssumption DEF ReceiptOf, Receipt

\* The maximum of a set that has one.
LEMMA MaxIs ==
  ASSUME NEW T, NEW m \in T, \A t \in T : t \in Nat /\ t <= m
  PROVE  Max(T) = m
<1>1. Max(T) \in T /\ \A t \in T : Max(T) >= t
  <2>1. \A t \in T : m >= t
    OBVIOUS
  <2> QED
    BY <2>1 DEF Max
<1>2. Max(T) >= m /\ Max(T) <= m /\ Max(T) \in Nat /\ m \in Nat
  BY <1>1
<1> QED
  BY <1>2

\* MAX(created_at) is the creation time of any newest receipt.
LEMMA NewestIs ==
  ASSUME NEW C, NEW x, IsNewest(x, C), \A y \in C : y.at \in Nat
  PROVE  NewestOf(C) = [at |-> x.at]
<1>1. C # {} /\ x.at \in {y.at : y \in C}
  BY DEF IsNewest
<1>2. \A t \in {y.at : y \in C} : t \in Nat /\ t <= x.at
  BY DEF IsNewest
<1>3. Max({y.at : y \in C}) = x.at
  BY <1>1, <1>2, MaxIs
<1> QED
  BY <1>1, <1>3 DEF NewestOf

\* Without current receipts there is none.
LEMMA NoNewest == NewestOf({}) = None
  BY DEF NewestOf

\* The receipts' times are naturals, and the newest time is that of a current receipt.
LEMMA CurrentTimes ==
  ASSUME IntakeTypes, NewestInv
  PROVE  /\ \A x \in receipts : x.at \in Nat /\ x.interval \in Nat /\ x.retired \in BOOLEAN
         /\ Current = {} => NewestOf(Current) = None
         /\ Current # {} => \E x \in Current : /\ IsNewest(x, Current)
                                               /\ NewestOf(Current) = [at |-> x.at]
                                               /\ NewestOf(Current).at = x.at
<1>1. \A x \in receipts : x.at \in Nat /\ x.interval \in Nat /\ x.retired \in BOOLEAN
  <2> SUFFICES ASSUME NEW x \in receipts
               PROVE  x.at \in Nat /\ x.interval \in Nat /\ x.retired \in BOOLEAN
    OBVIOUS
  <2>1. PICK r \in Reports, b \in BOOLEAN : x = ReceiptOf(r, b)
    BY DEF IntakeTypes
  <2> QED
    BY <2>1, ReceiptFields
<1>2. ASSUME Current # {}
      PROVE  \E x \in Current : /\ IsNewest(x, Current)
                                /\ NewestOf(Current) = [at |-> x.at]
                                /\ NewestOf(Current).at = x.at
  <2>1. PICK x \in Current : IsNewest(x, Current)
    BY <1>2 DEF NewestInv
  <2>2. \A y \in Current : y.at \in Nat
    BY <1>1 DEF Current
  <2>3. NewestOf(Current) = [at |-> x.at]
    BY <2>1, <2>2, NewestIs
  <2> QED
    BY <2>1, <2>3
<1> QED
  BY <1>1, <1>2, NoNewest

-----------------------------------------------------------------------------
(* The steps that leave the database alone.                                *)

\* A step of the scan's own: its clock reading stays, is the hub's, or the scan is over.
ScanMoves ==
    /\ scan' = [step |-> scan'.step, now |-> scan'.now, todo |-> scan'.todo]
    /\ scan'.step \in {"idle", "handle", "after_newest", "delete"}
    /\ \/ scan'.step = "idle" /\ scan'.now = 0
       \/ scan'.now = hubNow
       \/ scan.step # "idle" /\ scan'.now = scan.now
    /\ UNCHANGED <<hubNow, row, receipts, alerts, live, sweep, deleting, ledger>>

\* Moving on to the next message keeps the scan's clock reading.
LEMMA ScanShape ==
  ASSUME IntakeTypes
  PROVE  /\ \A s \in {"handle", "after_newest", "delete"} :
               [scan EXCEPT !.step = s] = [step |-> s, now |-> scan.now, todo |-> scan.todo]
         /\ NextMessage = [step |-> "handle", now |-> scan.now, todo |-> Tail(scan.todo)]
<1>1. PICK s, n, t : scan = [step |-> s, now |-> n, todo |-> t]
  BY DEF IntakeTypes
<1>2. \A v : [scan EXCEPT !.step = v] = [step |-> v, now |-> n, todo |-> t]
  BY <1>1
<1>3. \A v : [scan EXCEPT !.step = "handle", !.todo = v] = [step |-> "handle", now |-> n, todo |-> v]
  <2>1. \A v : [[step |-> "handle", now |-> n, todo |-> t] EXCEPT !.todo = v]
                = [step |-> "handle", now |-> n, todo |-> v]
    OBVIOUS
  <2> QED
    BY <1>2, <2>1, Zenon
<1>4. scan.now = n /\ scan.todo = t
  BY <1>1
<1>5. NextMessage = [step |-> "handle", now |-> n, todo |-> Tail(t)]
  BY <1>3, <1>4, Zenon DEF NextMessage
<1> QED
  BY <1>2, <1>4, <1>5, Zenon

\* The scan's steps that store nothing are moves of its own.
LEMMA ScanSteps ==
  ASSUME IntakeTypes, ScanBegin \/ Refuse \/ StoreFails \/ DeleteMessage \/ Stuck \/ ScanEnd
  PROVE  ScanMoves
<1>1. CASE ScanBegin
  BY <1>1 DEF ScanBegin, ScanMoves
<1>2. CASE Refuse \/ StoreFails
  BY <1>2, ScanShape DEF Refuse, StoreFails, NothingStored, Handling, ScanMoves
<1>3. CASE DeleteMessage \/ Stuck
  BY <1>3, ScanShape DEF DeleteMessage, Stuck, Handling, ScanMoves
<1>4. CASE ScanEnd
  BY <1>4 DEF ScanEnd, IdleScan, ScanMoves
<1> QED
  BY <1>1, <1>2, <1>3, <1>4

\* The newest receipt and what is said of it read the receipts only.
LEMMA SameReceipts ==
  ASSUME UNCHANGED receipts
  PROVE  /\ Current' = Current
         /\ NewestInv' = NewestInv
         /\ NewestOf(Current)' = NewestOf(Current)
         /\ \A r : Receipted(r)' = Receipted(r)
  BY DEF Current, NewestInv, NewestOf, Receipted, IsNewest

\* A move of the scan's own keeps the invariant: what was pruned is behind the window of a clock
\* reading taken now as well.
LEMMA ScanKeeps ==
  ASSUME IntakeInv, ScanMoves
  PROVE  IntakeInv'
<1>1. IntakeTypes'
  BY DEF IntakeInv, IntakeTypes, ScanMoves
<1>2. AcceptedInv'
  BY SameReceipts, MailIntakeAssumption DEF IntakeInv, IntakeTypes, AcceptedInv, ScanMoves
<1>3. NewestInv' /\ RegisteredInv' /\ LastSeenIsNewest'
  BY SameReceipts DEF IntakeInv, RegisteredInv, LastSeenIsNewest, ScanMoves
<1>4. LiveInv' /\ MarkInv' /\ StoredOnce' /\ LiveHasRow'
  BY DEF IntakeInv, LiveInv, MarkInv, StoredOnce, LiveHasRow, ScanMoves
<1>5. IncidentsRecorded'
  BY SameReceipts DEF IntakeInv, IncidentsRecorded, ScanMoves
<1> QED
  BY <1>1, <1>2, <1>3, <1>4, <1>5 DEF IntakeInv

-----------------------------------------------------------------------------
(* The steps of the clock, the sweep and the rest of the hub.              *)

\* A row's own fields change, its transport and its last seen do not.
RowTouched ==
    /\ row # None /\ row' \in RowType /\ row'.url = row.url /\ row'.lastSeen = row.lastSeen
    /\ UNCHANGED <<hubNow, receipts, alerts, live, deleting>>

\* What the database holds is as it was, but for fields of the row no invariant relates.
LEMMA RowTouchedKeeps ==
  ASSUME IntakeInv, RowTouched
  PROVE  /\ NewestInv' /\ RegisteredInv' /\ LastSeenIsNewest' /\ LiveInv' /\ LiveHasRow'
         /\ IncidentsRecorded'
<1>1. row' # None /\ row # None
  BY NoneApart DEF RowTouched
<1>2. NewestInv' /\ RegisteredInv' /\ LastSeenIsNewest'
  BY <1>1, SameReceipts DEF IntakeInv, RegisteredInv, LastSeenIsNewest, RowTouched
<1>3. LiveInv' /\ LiveHasRow'
  BY <1>1 DEF IntakeInv, LiveInv, LiveHasRow, RowTouched
<1>4. IncidentsRecorded'
  BY <1>1, SameReceipts DEF IntakeInv, IncidentsRecorded, RowTouched
<1> QED
  BY <1>2, <1>3, <1>4

\* Time only takes reports further out of the window.
LEMMA ClockStep ==
  ASSUME IntakeInv, HubClock
  PROVE  IntakeInv'
<1>1. IntakeTypes'
  BY MailIntakeAssumption DEF IntakeInv, IntakeTypes, HubClock
<1>2. AcceptedInv'
  BY SameReceipts, MailIntakeAssumption DEF IntakeInv, IntakeTypes, AcceptedInv, HubClock
<1>3. NewestInv' /\ RegisteredInv' /\ LastSeenIsNewest'
  BY SameReceipts DEF IntakeInv, RegisteredInv, LastSeenIsNewest, HubClock
<1>4. LiveInv' /\ MarkInv' /\ StoredOnce' /\ LiveHasRow'
  BY DEF IntakeInv, LiveInv, MarkInv, StoredOnce, LiveHasRow, HubClock
<1>5. IncidentsRecorded'
  BY SameReceipts DEF IntakeInv, IncidentsRecorded, HubClock
<1> QED
  BY <1>1, <1>2, <1>3, <1>4, <1>5 DEF IntakeInv

\* The registry fill touches the name only.
LEMMA AfterNewestStep ==
  ASSUME IntakeInv, AfterNewest
  PROVE  IntakeInv'
<1>0. scan' = [step |-> "delete", now |-> scan.now, todo |-> scan.todo]
  BY ScanShape DEF IntakeInv, AfterNewest
<1>1. CASE row' = row
  <2>1. ScanMoves
    BY <1>0, <1>1 DEF AfterNewest, ScanMoves
  <2> QED
    BY <2>1, ScanKeeps
<1>2. CASE row' # row
  <2>1. row \in RowType /\ row # None /\ row' = [row EXCEPT !.name = "hostname"]
    BY <1>2 DEF AfterNewest, FillRegistry, IntakeInv, IntakeTypes
  <2>2. RowTouched
    <3>1. row' \in RowType /\ row'.url = row.url /\ row'.lastSeen = row.lastSeen
      BY <2>1 DEF RowType
    <3> QED
      BY <2>1, <3>1 DEF RowTouched, AfterNewest
  <2>3. IntakeTypes'
    BY <1>0, <2>2 DEF IntakeInv, IntakeTypes, AfterNewest, RowTouched
  <2>4. AcceptedInv'
    BY <1>0, SameReceipts DEF IntakeInv, AcceptedInv, AfterNewest
  <2>5. MarkInv' /\ StoredOnce'
    BY DEF IntakeInv, MarkInv, StoredOnce, AfterNewest
  <2> QED
    BY <2>2, <2>3, <2>4, <2>5, RowTouchedKeeps DEF IntakeInv
<1> QED
  BY <1>1, <1>2

\* The sweep's reading is overdue at its own clock reading; its mark touches the status only.
LEMMA SweepStep ==
  ASSUME IntakeInv, SweepRead \/ MarkOverdue \/ Evict
  PROVE  IntakeInv'
<1>1. CASE SweepRead
  <2>1. IntakeTypes'
    BY <1>1 DEF IntakeInv, IntakeTypes, SweepRead
  <2>2. MarkInv'
    <3>1. sweep' = [step |-> "mark", now |-> hubNow, newest |-> NewestOf(Current)]
      BY <1>1 DEF SweepRead
    <3>2. CASE Current = {}
      BY <3>1, <3>2, NoNewest DEF MarkInv
    <3>3. CASE Current # {}
      <4>1. PICK x \in Current : x.at = NewestOf(Current).at /\ hubNow - x.at > 3 * x.interval + Margin
        BY <1>1, <3>3 DEF SweepRead, Overdue
      <4>2. NewestOf(Current) = [at |-> x.at]
        BY <3>3, <4>1, CurrentTimes DEF IntakeInv
      <4>3. PICK r \in Reports, b \in BOOLEAN : x = ReceiptOf(r, b)
        BY DEF IntakeInv, IntakeTypes, Current
      <4>4. x.at = r.at /\ x.interval = r.interval
        BY <4>3, ReceiptFields
      <4> QED
        BY <3>1, <4>1, <4>2, <4>4 DEF MarkInv
    <3> QED
      BY <3>2, <3>3
  <2>3. NewestInv' /\ RegisteredInv' /\ LastSeenIsNewest' /\ AcceptedInv'
    BY <1>1, SameReceipts DEF IntakeInv, RegisteredInv, LastSeenIsNewest, AcceptedInv, SweepRead
  <2>4. LiveInv' /\ StoredOnce' /\ LiveHasRow'
    BY <1>1 DEF IntakeInv, LiveInv, StoredOnce, LiveHasRow, SweepRead
  <2>5. IncidentsRecorded'
    BY <1>1, SameReceipts DEF IntakeInv, IncidentsRecorded, SweepRead
  <2> QED
    BY <2>1, <2>2, <2>3, <2>4, <2>5 DEF IntakeInv
<1>2. CASE MarkOverdue /\ row' # row
  <2>1. row \in RowType /\ row # None /\ row' = [row EXCEPT !.status = "offline"]
    BY <1>2 DEF MarkOverdue, IntakeInv, IntakeTypes
  <2>2. RowTouched
    <3>1. row' \in RowType /\ row'.url = row.url /\ row'.lastSeen = row.lastSeen
      BY <2>1 DEF RowType
    <3> QED
      BY <1>2, <2>1, <3>1 DEF RowTouched, MarkOverdue
  <2>3. sweep' = [sweep EXCEPT !.step = "evict"]
    BY <1>2 DEF MarkOverdue
  <2>4. sweep' = [step |-> "evict", now |-> sweep.now, newest |-> sweep.newest]
    <3>1. PICK a, n, w : sweep = [step |-> a, now |-> n, newest |-> w]
      BY DEF IntakeInv, IntakeTypes
    <3> QED
      BY <2>3, <3>1
  <2>5. IntakeTypes'
    BY <1>2, <2>2, <2>4 DEF IntakeInv, IntakeTypes, MarkOverdue, RowTouched
  <2>6. AcceptedInv'
    BY <1>2, SameReceipts DEF IntakeInv, AcceptedInv, MarkOverdue
  <2>7. MarkInv' /\ StoredOnce'
    BY <1>2, <2>4 DEF IntakeInv, MarkInv, StoredOnce, MarkOverdue
  <2> QED
    BY <2>2, <2>5, <2>6, <2>7, RowTouchedKeeps DEF IntakeInv
<1>3. CASE (MarkOverdue \/ Evict) /\ row' = row
  <2>1. /\ UNCHANGED <<hubNow, scan, row, receipts, alerts, deleting, ledger>>
        /\ live' = live \/ live' = None
        /\ sweep'.step # "mark"
        /\ sweep' = [step |-> sweep'.step, now |-> sweep'.now, newest |-> sweep'.newest]
        /\ sweep'.step \in {"idle", "mark", "evict"} /\ sweep'.now \in Nat
    <3>1. PICK a, n, w : sweep = [step |-> a, now |-> n, newest |-> w]
      BY DEF IntakeInv, IntakeTypes
    <3>2. sweep' = IdleSweep \/ sweep' = [sweep EXCEPT !.step = "evict"]
      BY <1>3 DEF MarkOverdue, Evict
    <3>3. sweep' = IdleSweep \/ sweep' = [step |-> "evict", now |-> n, newest |-> w]
      BY <3>1, <3>2
    <3>4. n \in Nat
      BY <3>1 DEF IntakeInv, IntakeTypes
    <3> QED
      BY <1>3, <3>3, <3>4 DEF MarkOverdue, Evict, IdleSweep
  <2>2. IntakeTypes'
    BY <2>1 DEF IntakeInv, IntakeTypes
  <2>3. NewestInv' /\ RegisteredInv' /\ LastSeenIsNewest' /\ AcceptedInv'
    BY <2>1, SameReceipts DEF IntakeInv, RegisteredInv, LastSeenIsNewest, AcceptedInv
  <2>4. LiveInv' /\ MarkInv' /\ StoredOnce' /\ LiveHasRow'
    BY <2>1 DEF IntakeInv, LiveInv, MarkInv, StoredOnce, LiveHasRow
  <2>5. IncidentsRecorded'
    BY <2>1, SameReceipts DEF IntakeInv, IncidentsRecorded
  <2> QED
    BY <2>2, <2>3, <2>4, <2>5 DEF IntakeInv
<1> QED
  BY <1>1, <1>2, <1>3 DEF Evict

\* DELETE retires every receipt with the row; a retired receipt still answers for its report.
LEMMA DeleteStep ==
  ASSUME IntakeInv, DeleteSystem
  PROVE  IntakeInv'
<1>0. /\ row' = None /\ receipts' = {[x EXCEPT !.retired = TRUE] : x \in receipts}
      /\ alerts' = <<>> /\ deleting' = TRUE
      /\ ledger' = [ledger EXCEPT !.requests = @ + 1]
      /\ UNCHANGED <<hubNow, scan, live, sweep>>
  BY DEF DeleteSystem, Requested
<1>1. \A r \in Reports, b \in BOOLEAN : [ReceiptOf(r, b) EXCEPT !.retired = TRUE] = ReceiptOf(r, TRUE)
  <2>1. \A r, b, v : [ReceiptOf(r, b) EXCEPT !.retired = v] = ReceiptOf(r, v)
    BY DEF ReceiptOf
  <2> QED
    BY <2>1, Zenon
<1>2. \A x \in receipts' : \E r \in Reports : x = ReceiptOf(r, TRUE)
  <2> SUFFICES ASSUME NEW x \in receipts
               PROVE  \E r \in Reports : [x EXCEPT !.retired = TRUE] = ReceiptOf(r, TRUE)
    BY <1>0
  <2>1. PICK r \in Reports, b \in BOOLEAN : x = ReceiptOf(r, b)
    BY DEF IntakeInv, IntakeTypes
  <2> QED
    BY <1>1, <2>1
<1>3. Current' = {}
  BY <1>2, ReceiptFields DEF Current
<1>4. \A r \in Reports : Receipted(r) => Receipted(r)'
  <2> SUFFICES ASSUME NEW r \in Reports, NEW b \in BOOLEAN, ReceiptOf(r, b) \in receipts
               PROVE  ReceiptOf(r, TRUE) \in receipts'
    BY DEF Receipted
  <2> QED
    BY <1>0, <1>1
<1>5. ledger'.stored = ledger.stored /\ ledger' \in [stored : [Reports -> Nat], requests : Nat]
  BY <1>0 DEF IntakeInv, IntakeTypes
<1>6. DOMAIN alerts' = {} /\ alerts' = [i \in DOMAIN alerts' |-> alerts'[i]]
  BY <1>0
<1>7. IntakeTypes'
  <2>1. \A x \in receipts' : \E r \in Reports, b \in BOOLEAN : x = ReceiptOf(r, b)
    BY <1>2
  <2> QED
    BY <1>0, <1>5, <1>6, <2>1 DEF IntakeInv, IntakeTypes
<1>8. AcceptedInv' /\ StoredOnce'
  BY <1>0, <1>4, <1>5 DEF IntakeInv, AcceptedInv, StoredOnce
<1>9. NewestInv' /\ RegisteredInv' /\ LastSeenIsNewest' /\ LiveInv' /\ LiveHasRow' /\ IncidentsRecorded'
  BY <1>0, <1>3, <1>6 DEF NewestInv, RegisteredInv, LastSeenIsNewest, LiveInv, LiveHasRow,
                          IncidentsRecorded
<1>10. MarkInv'
  BY <1>0 DEF IntakeInv, MarkInv
<1> QED
  BY <1>7, <1>8, <1>9, <1>10 DEF IntakeInv

\* Enabling, acknowledging and a pushed registration.
LEMMA RequestStep ==
  ASSUME IntakeInv, SetEnabled \/ Acknowledge \/ RegisterPushed
  PROVE  IntakeInv'
<1>0. /\ ledger' = [ledger EXCEPT !.requests = @ + 1]
      /\ UNCHANGED <<hubNow, scan, receipts, live, sweep, deleting>>
  BY DEF SetEnabled, Acknowledge, RegisterPushed, Requested
<1>1. ledger'.stored = ledger.stored /\ ledger' \in [stored : [Reports -> Nat], requests : Nat]
  BY <1>0 DEF IntakeInv, IntakeTypes
<1>2. AcceptedInv' /\ StoredOnce' /\ MarkInv'
  BY <1>0, <1>1, SameReceipts DEF IntakeInv, AcceptedInv, StoredOnce, MarkInv
<1>3. CASE SetEnabled
  <2>1. row \in RowType /\ row # None /\ row' = [row EXCEPT !.enabled = ~@]
    BY <1>3 DEF SetEnabled, IntakeInv, IntakeTypes
  <2>2. row' \in RowType /\ row'.url = row.url /\ row'.lastSeen = row.lastSeen
    BY <2>1 DEF RowType
  <2>3. RowTouched
    BY <1>3, <2>1, <2>2 DEF RowTouched, SetEnabled
  <2>4. IntakeTypes'
    BY <1>0, <1>1, <1>3, <2>2 DEF IntakeInv, IntakeTypes, SetEnabled
  <2> QED
    BY <1>2, <2>3, <2>4, RowTouchedKeeps DEF IntakeInv
<1>4. CASE Acknowledge
  <2>1. UNCHANGED row /\ DOMAIN alerts' = DOMAIN alerts /\ alerts' = [i \in DOMAIN alerts' |-> alerts'[i]]
    BY <1>4 DEF Acknowledge, IntakeInv, IntakeTypes
  <2>2. IntakeTypes'
    BY <1>0, <1>1, <2>1 DEF IntakeInv, IntakeTypes
  <2>3. NewestInv' /\ RegisteredInv' /\ LastSeenIsNewest'
    BY <1>0, <2>1, SameReceipts DEF IntakeInv, RegisteredInv, LastSeenIsNewest
  <2>4. LiveInv' /\ LiveHasRow'
    BY <1>0, <2>1 DEF IntakeInv, LiveInv, LiveHasRow
  <2>5. IncidentsRecorded'
    BY <1>0, <2>1, SameReceipts DEF IntakeInv, IncidentsRecorded
  <2> QED
    BY <1>2, <2>2, <2>3, <2>4, <2>5 DEF IntakeInv
<1>5. CASE RegisterPushed
  <2>1. row = None /\ UNCHANGED alerts /\ row' \in RowType /\ row'.url = "push"
    <3>1. row = None /\ UNCHANGED alerts /\ row' = [MailRow EXCEPT !.url = "push"]
      BY <1>5 DEF RegisterPushed
    <3> QED
      BY <3>1, NoneApart DEF RowType
  <2>2. row' # None
    BY <2>1, NoneApart
  <2>3. IntakeTypes'
    BY <1>0, <1>1, <2>1 DEF IntakeInv, IntakeTypes
  <2>4. NewestInv' /\ RegisteredInv' /\ LastSeenIsNewest'
    BY <1>0, <2>1, <2>2, SameReceipts DEF IntakeInv, RegisteredInv, LastSeenIsNewest
  <2>5. LiveInv' /\ LiveHasRow'
    BY <1>0, <2>1, <2>2 DEF IntakeInv, LiveInv, LiveHasRow
  <2>6. IncidentsRecorded'
    BY <1>0, <2>1, <2>2, SameReceipts DEF IntakeInv, IncidentsRecorded
  <2> QED
    BY <1>2, <2>3, <2>4, <2>5, <2>6 DEF IntakeInv
<1> QED
  BY <1>3, <1>4, <1>5

\* A DELETE's eviction and a crash forget the live metrics.
LEMMA ForgetStep ==
  ASSUME IntakeInv, DeleteEvicts \/ HubCrash
  PROVE  IntakeInv'
<1>0. /\ live' = None /\ deleting' = FALSE
      /\ UNCHANGED <<hubNow, row, receipts, alerts, ledger>>
      /\ scan' = scan \/ scan' = IdleScan
      /\ sweep' = sweep \/ sweep' = IdleSweep
  BY DEF DeleteEvicts, HubCrash
<1>1. IntakeTypes'
  <2>1. /\ scan' = [step |-> scan'.step, now |-> scan'.now, todo |-> scan'.todo]
        /\ scan'.step \in {"idle", "handle", "after_newest", "delete"} /\ scan'.now \in 0..hubNow
    BY <1>0 DEF IntakeInv, IntakeTypes, IdleScan
  <2>2. /\ sweep' = [step |-> sweep'.step, now |-> sweep'.now, newest |-> sweep'.newest]
        /\ sweep'.step \in {"idle", "mark", "evict"} /\ sweep'.now \in Nat
    BY <1>0 DEF IntakeInv, IntakeTypes, IdleSweep
  <2> QED
    BY <1>0, <2>1, <2>2 DEF IntakeInv, IntakeTypes
<1>2. AcceptedInv'
  BY <1>0, SameReceipts DEF IntakeInv, AcceptedInv, IdleScan
<1>3. NewestInv' /\ RegisteredInv' /\ LastSeenIsNewest'
  BY <1>0, SameReceipts DEF IntakeInv, RegisteredInv, LastSeenIsNewest
<1>4. LiveInv' /\ MarkInv' /\ StoredOnce' /\ LiveHasRow'
  BY <1>0 DEF IntakeInv, LiveInv, MarkInv, StoredOnce, LiveHasRow, IdleSweep
<1>5. IncidentsRecorded'
  BY <1>0, SameReceipts DEF IntakeInv, IncidentsRecorded
<1> QED
  BY <1>1, <1>2, <1>3, <1>4, <1>5 DEF IntakeInv

-----------------------------------------------------------------------------
(* Storing a report.                                                       *)

\* The prune keeps the newest of the current receipts and what is inside the window.
LEMMA PruneKeeps ==
  ASSUME NEW all, NEW before \in Int, NEW z, \A x \in all : x.at \in Nat /\ x.retired \in BOOLEAN,
         IsNewest(z, {x \in all : ~x.retired})
  PROVE  /\ Pruned(all, before) \subseteq all
         /\ \A x \in all : x \notin Pruned(all, before) => x.at < before
         /\ IsNewest(z, {x \in Pruned(all, before) : ~x.retired})
<1> DEFINE C == {x \in all : ~x.retired}
<1>1. NewestOf(C).at = z.at
  <2>1. \A y \in C : y.at \in Nat
    OBVIOUS
  <2>2. NewestOf(C) = [at |-> z.at]
    BY <2>1, NewestIs
  <2> QED
    BY <2>2
<1>2. Pruned(all, before) = {x \in all : ~(x.at < before /\ (x.retired \/ x.at < z.at))}
  BY <1>1 DEF Pruned
<1>3. z \in all /\ ~z.retired /\ z.at \in Nat
  BY DEF IsNewest
<1>4. z \in {x \in Pruned(all, before) : ~x.retired}
  BY <1>2, <1>3
<1>5. \A y \in Pruned(all, before) : ~y.retired => y.at <= z.at
  BY <1>2 DEF IsNewest
<1> QED
  BY <1>2, <1>4, <1>5 DEF IsNewest

\* One more receipt is the newest, or the newest stays.
LEMMA NewestWith ==
  ASSUME NEW C, NEW f, f.at \in Nat, \A y \in C : y.at \in Nat
  PROVE  /\ C = {} => IsNewest(f, C \cup {f})
         /\ \A x \in C : IsNewest(x, C) /\ f.at < x.at => IsNewest(x, C \cup {f})
         /\ \A x \in C : IsNewest(x, C) /\ ~(f.at < x.at) => IsNewest(f, C \cup {f}) /\ x.at <= f.at
<1>1. C = {} => IsNewest(f, C \cup {f})
  BY DEF IsNewest
<1>2. ASSUME NEW x \in C, IsNewest(x, C), f.at < x.at
      PROVE  IsNewest(x, C \cup {f})
  BY <1>2 DEF IsNewest
<1>3. ASSUME NEW x \in C, IsNewest(x, C), ~(f.at < x.at)
      PROVE  IsNewest(f, C \cup {f}) /\ x.at <= f.at
  <2>1. x.at <= f.at /\ \A y \in C : y.at <= f.at
    BY <1>3 DEF IsNewest
  <2> QED
    BY <2>1 DEF IsNewest
<1> QED
  BY <1>1, <1>2, <1>3

\* What storing report r does to the receipts: r is the newest, or the newest stays.
StoredReceipts(r) ==
    /\ receipts' \subseteq receipts \cup {ReceiptOf(r, FALSE)}
    /\ \A x \in receipts \cup {ReceiptOf(r, FALSE)} : x \notin receipts' => x.at + Window < scan.now
    /\ \E z \in Current' :
          /\ IsNewest(z, Current') /\ NewestOf(Current)' = [at |-> z.at]
          /\ IF Recency(r.at, NewestOf(Current)) = "newest"
             THEN z.at = r.at /\ (Current # {} => NewestOf(Current).at <= r.at)
             ELSE Current # {} /\ z.at = NewestOf(Current).at

\* The union and the prune of StoreMailReport do that.
LEMMA StoreReceipts ==
  ASSUME IntakeInv, NEW r \in Reports, StoreMailReport(r, scan.now)
  PROVE  StoredReceipts(r)
<1> DEFINE all == receipts \cup {ReceiptOf(r, FALSE)}
           N == {x \in all : ~x.retired}
           before == scan.now - Window
<1>0. scan.now \in Nat /\ Window \in Nat /\ before \in Int /\ r.at \in Nat
  BY MailIntakeAssumption DEF IntakeInv, IntakeTypes
<1>1. receipts' = Pruned(all, before)
  BY ReceiptFields DEF StoreMailReport, MailWrite
<1>2. \A x \in all : x.at \in Nat /\ x.retired \in BOOLEAN
  BY ReceiptFields, CurrentTimes DEF IntakeInv
<1>3. N = Current \cup {ReceiptOf(r, FALSE)}
  BY ReceiptFields DEF Current
<1>4. ReceiptOf(r, FALSE).at = r.at
  BY ReceiptFields
<1>5. \E z \in N : /\ IsNewest(z, N)
                   /\ IF Recency(r.at, NewestOf(Current)) = "newest"
                      THEN z.at = r.at /\ (Current # {} => NewestOf(Current).at <= r.at)
                      ELSE Current # {} /\ z.at = NewestOf(Current).at
  <2> HIDE DEF N
  <2>0. ReceiptOf(r, FALSE).at \in Nat /\ \A y \in Current : y.at \in Nat
    BY <1>0, <1>4, CurrentTimes DEF IntakeInv, Current
  <2>1. CASE Current = {}
    <3>1. Recency(r.at, NewestOf(Current)) = "newest"
      BY <2>1, NoNewest DEF Recency
    <3>2. IsNewest(ReceiptOf(r, FALSE), N)
      BY <1>0, <1>3, <1>4, <2>1, <2>0, NewestWith
    <3> QED
      BY <1>4, <2>1, <3>1, <3>2 DEF IsNewest
  <2>2. CASE Current # {}
    <3>1. PICK x \in Current : /\ IsNewest(x, Current) /\ NewestOf(Current) = [at |-> x.at]
                               /\ NewestOf(Current).at = x.at
      BY <2>2, CurrentTimes DEF IntakeInv
    <3>2. x.at \in Nat /\ NewestOf(Current) # None /\ \A y \in Current : y.at \in Nat
      BY <3>1, NoneApart, CurrentTimes DEF IntakeInv, Current
    <3>3. CASE r.at < x.at
      <4>1. Recency(r.at, NewestOf(Current)) = "backfill"
        BY <3>1, <3>2, <3>3 DEF Recency
      <4>2. IsNewest(x, N)
        BY <1>3, <1>4, <2>0, <3>1, <3>3, NewestWith
      <4> QED
        BY <2>2, <3>1, <4>1, <4>2 DEF IsNewest
    <3>4. CASE ~(r.at < x.at)
      <4>1. Recency(r.at, NewestOf(Current)) = "newest"
        BY <3>1, <3>2, <3>4 DEF Recency
      <4>2. IsNewest(ReceiptOf(r, FALSE), N) /\ x.at <= r.at
        BY <1>3, <1>4, <2>0, <3>1, <3>4, NewestWith
      <4> QED
        BY <1>4, <3>1, <4>1, <4>2 DEF IsNewest
    <3> QED
      BY <3>3, <3>4
  <2> QED
    BY <2>1, <2>2
<1>6. PICK z \in N : /\ IsNewest(z, N)
                     /\ IF Recency(r.at, NewestOf(Current)) = "newest"
                        THEN z.at = r.at /\ (Current # {} => NewestOf(Current).at <= r.at)
                        ELSE Current # {} /\ z.at = NewestOf(Current).at
  BY <1>5
<1>7. /\ receipts' \subseteq all
      /\ \A x \in all : x \notin receipts' => x.at < before
      /\ IsNewest(z, {x \in receipts' : ~x.retired})
  <2> HIDE DEF all, before
  <2>1. IsNewest(z, {x \in all : ~x.retired})
    BY <1>6
  <2> QED
    BY <1>0, <1>1, <1>2, <2>1, PruneKeeps
<1>8. Current' = {x \in receipts' : ~x.retired} /\ NewestOf(Current)' = NewestOf(Current')
  BY DEF Current, NewestOf
<1>9. IsNewest(z, Current') /\ z \in Current'
  BY <1>7, <1>8 DEF IsNewest
<1>10. NewestOf(Current') = [at |-> z.at]
  <2>1. \A y \in Current' : y.at \in Nat
    BY <1>2, <1>7, <1>8
  <2> QED
    BY <1>9, <2>1, NewestIs
<1>11. \A x \in all : x \notin receipts' => x.at + Window < scan.now
  <2> HIDE DEF all
  <2> TAKE x \in all
  <2>1. x.at \in Nat /\ (x \notin receipts' => x.at < scan.now - Window)
    BY <1>2, <1>7
  <2> QED
    BY <1>0, <2>1
<1> QED
  BY <1>6, <1>7, <1>8, <1>9, <1>10, <1>11 DEF StoredReceipts

\* What storing report r does to the row, the live metrics and the scan.
StoredRow(r) ==
    /\ row' \in RowType /\ row' # None /\ row'.url = "mail"
    /\ row # None => row.url = "mail"
    /\ scan' = [step |-> scan'.step, now |-> scan.now, todo |-> scan.todo]
    /\ scan'.step \in {"after_newest", "delete"}
    /\ IF Recency(r.at, NewestOf(Current)) = "newest"
       THEN row'.lastSeen = r.at /\ row'.status = "online" /\ live' = [at |-> r.at]
       ELSE (row # None => row' = row) /\ live' = live

\* So do the row's update, the live metrics' and the step the scan goes to.
LEMMA StoreRow ==
  ASSUME IntakeInv, NEW r \in Reports, TransportMatches, StoreMailReport(r, scan.now)
  PROVE  StoredRow(r)
<1>1. Known \in RowType /\ Known.url = "mail" /\ (row # None => Known = row /\ row.url = "mail")
  <2>1. CASE row = None
    BY <2>1, NoneApart DEF Known, MailRow
  <2>2. CASE row # None
    BY <2>2 DEF Known, TransportMatches, IntakeInv, IntakeTypes
  <2> QED
    BY <2>1, <2>2
<1>2. r.at \in Int
  BY MailIntakeAssumption
<1>3. [Known EXCEPT !.status = "online", !.lastSeen = r.at] \in RowType
  BY <1>1, <1>2 DEF RowType
<1>4. \E s \in {"after_newest", "delete"} : scan' = [step |-> s, now |-> scan.now, todo |-> scan.todo]
  <2>1. \E s \in {"after_newest", "delete"} : scan' = [scan EXCEPT !.step = s]
    BY DEF StoreMailReport
  <2> QED
    BY <2>1, ScanShape DEF IntakeInv
<1>5. /\ scan' = [step |-> scan'.step, now |-> scan.now, todo |-> scan.todo]
      /\ scan'.step \in {"after_newest", "delete"}
  BY <1>4
<1>6. CASE Recency(r.at, NewestOf(Current)) = "newest"
  <2>1. row' = [Known EXCEPT !.status = "online", !.lastSeen = r.at] /\ live' = [at |-> r.at]
    BY <1>6 DEF StoreMailReport, MailWrite
  <2>2. row' \in RowType /\ row'.url = "mail" /\ row'.lastSeen = r.at /\ row'.status = "online"
    BY <1>1, <1>2, <1>3, <2>1 DEF RowType
  <2> QED
    BY <1>1, <1>5, <1>6, <2>1, <2>2, NoneApart DEF StoredRow
<1>7. CASE Recency(r.at, NewestOf(Current)) # "newest"
  <2>1. row' = Known /\ live' = live
    BY <1>7 DEF StoreMailReport
  <2> QED
    BY <1>1, <1>5, <1>7, <2>1, NoneApart DEF StoredRow
<1> QED
  BY <1>6, <1>7

\* A report that is fresh and has no receipt was never stored: storing it keeps the invariant.
LEMMA StoreStep ==
  ASSUME IntakeInv, Store
  PROVE  IntakeInv'
<1>1. PICK r \in Reports :
        /\ Fresh(r.at, scan.now) /\ ~AlreadyAccepted(r) /\ StoreMailReport(r, scan.now)
  BY DEF Store, Ingestible
<1>2. TransportMatches /\ scan.step = "handle" /\ UNCHANGED <<hubNow, sweep, deleting>>
  BY DEF Store, Handling
<1>3. StoredReceipts(r) /\ StoredRow(r)
  BY <1>1, <1>2, StoreReceipts, StoreRow
<1>4. /\ hubNow \in Nat /\ scan.now \in Nat /\ scan.now <= hubNow /\ Window \in Nat
      /\ \A q \in Reports : q.at \in Nat
  BY MailIntakeAssumption DEF IntakeInv, IntakeTypes
<1>5. ~(r.at + Window < scan.now)
  BY <1>1, <1>4 DEF Fresh
<1>6. ~Receipted(r)
  BY <1>1, ReceiptFields DEF Receipted, AlreadyAccepted
<1>7. ledger.stored[r] = 0
  BY <1>2, <1>5, <1>6 DEF IntakeInv, AcceptedInv
<1>8. /\ ledger' \in [stored : [Reports -> Nat], requests : Nat]
      /\ ledger'.stored[r] = 1
      /\ \A q \in Reports \ {r} : ledger'.stored[q] = ledger.stored[q]
  BY <1>1, <1>7 DEF StoreMailReport, StoreSamples, IntakeInv, IntakeTypes
<1>9. /\ DOMAIN alerts' = DOMAIN alerts \cup r.incidents
      /\ alerts' = [i \in DOMAIN alerts' |-> alerts'[i]]
  <2>1. alerts' = [i \in DOMAIN alerts \cup r.incidents |-> IF i \in DOMAIN alerts THEN alerts[i] ELSE FALSE]
    BY <1>1 DEF StoreMailReport, MailWrite, AlertRecords
  <2> QED
    BY <2>1
<1>10. IntakeTypes'
  <2>1. \A x \in receipts' : \E q \in Reports, b \in BOOLEAN : x = ReceiptOf(q, b)
    BY <1>3 DEF StoredReceipts, IntakeInv, IntakeTypes
  <2>2. live' = None \/ live' \in [at : Nat]
    BY <1>3, <1>4 DEF StoredRow, IntakeInv, IntakeTypes
  <2>3. /\ scan' = [step |-> scan'.step, now |-> scan'.now, todo |-> scan'.todo]
        /\ scan'.step \in {"idle", "handle", "after_newest", "delete"} /\ scan'.now \in 0..hubNow
    BY <1>3, <1>4 DEF StoredRow
  <2> QED
    BY <1>2, <1>3, <1>8, <1>9, <2>1, <2>2, <2>3 DEF StoredRow, IntakeInv, IntakeTypes
<1>11. AcceptedInv'
  <2> SUFFICES ASSUME NEW q \in Reports, ledger'.stored[q] # 0, ~Receipted(q)'
               PROVE  q.at + Window < hubNow /\ q.at + Window < scan.now
    BY <1>2, <1>3 DEF AcceptedInv, StoredRow
  <2>1. \A b \in BOOLEAN : ReceiptOf(q, b) \in receipts \cup {ReceiptOf(r, FALSE)} => q.at + Window < scan.now
    BY <1>3, ReceiptFields DEF StoredReceipts, Receipted
  <2>2. q # r
    BY <1>5, <2>1
  <2>3. q.at + Window < scan.now
    <3>1. CASE Receipted(q)
      BY <2>1, <3>1 DEF Receipted
    <3>2. CASE ~Receipted(q)
      BY <1>2, <1>8, <2>2, <3>2 DEF IntakeInv, AcceptedInv
    <3> QED
      BY <3>1, <3>2
  <2> QED
    BY <1>4, <2>3
<1>12. StoredOnce'
  BY <1>8 DEF IntakeInv, StoredOnce
<1>13. NewestInv' /\ RegisteredInv'
  BY <1>3 DEF NewestInv, RegisteredInv, StoredReceipts, StoredRow
<1>14. LastSeenIsNewest' /\ LiveInv'
  <2>1. PICK z \in Current' :
          /\ IsNewest(z, Current') /\ NewestOf(Current)' = [at |-> z.at]
          /\ IF Recency(r.at, NewestOf(Current)) = "newest"
             THEN z.at = r.at /\ (Current # {} => NewestOf(Current).at <= r.at)
             ELSE Current # {} /\ z.at = NewestOf(Current).at
    BY <1>3 DEF StoredReceipts
  <2>2. NewestOf(Current)' # None /\ NewestOf(Current)'.at = z.at
    BY <2>1, NoneApart
  <2>3. CASE Recency(r.at, NewestOf(Current)) = "newest"
    BY <1>3, <1>4, <2>1, <2>2, <2>3 DEF StoredRow, LastSeenIsNewest, LiveInv
  <2>4. CASE Recency(r.at, NewestOf(Current)) # "newest"
    <3>1. row # None /\ row.url = "mail" /\ row' = row /\ live' = live
      BY <1>3, <2>1, <2>4 DEF StoredRow, IntakeInv, RegisteredInv
    <3>2. row'.lastSeen = z.at
      BY <2>1, <2>4, <3>1 DEF IntakeInv, LastSeenIsNewest
    <3> QED
      BY <2>2, <3>1, <3>2 DEF IntakeInv, LastSeenIsNewest, LiveInv
  <2> QED
    BY <2>3, <2>4
<1>15. LiveHasRow' /\ MarkInv'
  BY <1>2, <1>3 DEF StoredRow, LiveHasRow, MarkInv, IntakeInv
<1>16. IncidentsRecorded'
  <2> SUFFICES ASSUME NEW q \in Reports, Receipt(q) \in Current'
               PROVE  q.incidents \subseteq DOMAIN alerts'
    BY <1>3 DEF IncidentsRecorded, StoredRow
  <2>1. Receipt(q) \in Current \/ Receipt(q) = ReceiptOf(r, FALSE)
    BY <1>3 DEF StoredReceipts, Current
  <2>2. CASE Receipt(q) \in Current
    BY <1>9, <2>2 DEF IntakeInv, IncidentsRecorded
  <2>3. CASE Receipt(q) = ReceiptOf(r, FALSE)
    <3>1. q.run = r.run /\ q.seq = r.seq
      BY <2>3 DEF Receipt, ReceiptOf
    <3>2. q = r
      BY <3>1, MailIntakeAssumption
    <3> QED
      BY <1>9, <3>2
  <2> QED
    BY <2>1, <2>2, <2>3
<1> QED
  BY <1>10, <1>11, <1>12, <1>13, <1>14, <1>15, <1>16 DEF IntakeInv

-----------------------------------------------------------------------------
(* The invariant.                                                          *)

\* Nothing has been delivered and nothing is stored.
LEMMA IntakeInitially == IntakeInit => IntakeInv
<1> SUFFICES ASSUME IntakeInit
             PROVE  IntakeInv
  OBVIOUS
<1>1. receipts = {} /\ row = None /\ live = None /\ Current = {} /\ DOMAIN alerts = {}
  BY DEF IntakeInit, Current
<1>2. IntakeTypes
  <2>1. ledger \in [stored : [Reports -> Nat], requests : Nat]
    BY DEF IntakeInit
  <2>2. alerts = [i \in DOMAIN alerts |-> alerts[i]]
    BY DEF IntakeInit
  <2>3. hubNow = 0 /\ hubNow \in 0..MaxHubTime /\ deleting \in BOOLEAN
    <3>1. hubNow = 0 /\ deleting = FALSE
      BY DEF IntakeInit
    <3>2. MaxHubTime \in Nat
      BY MailIntakeAssumption
    <3>3. deleting \in BOOLEAN
      BY <3>1, Zenon
    <3>4. hubNow = 0
      BY <3>1, Zenon
    <3>5. hubNow \in 0..MaxHubTime
      BY <3>2, <3>4
    <3> QED
      BY <3>3, <3>4, <3>5
  <2>4. /\ scan = [step |-> scan.step, now |-> scan.now, todo |-> scan.todo]
        /\ scan.step = "idle" /\ scan.now = 0
    BY DEF IntakeInit, IdleScan
  <2>5. /\ sweep = [step |-> sweep.step, now |-> sweep.now, newest |-> sweep.newest]
        /\ sweep.step = "idle" /\ sweep.now = 0
    BY DEF IntakeInit, IdleSweep
  <2> QED
    BY <1>1, <2>1, <2>2, <2>3, <2>4, <2>5 DEF IntakeTypes
<1>3. NewestInv /\ RegisteredInv /\ LiveInv /\ LastSeenIsNewest /\ LiveHasRow /\ IncidentsRecorded
  BY <1>1 DEF NewestInv, RegisteredInv, LiveInv, LastSeenIsNewest, LiveHasRow, IncidentsRecorded
<1>4. AcceptedInv /\ StoredOnce /\ MarkInv
  BY DEF IntakeInit, AcceptedInv, StoredOnce, MarkInv, IdleSweep
<1> QED
  BY <1>2, <1>3, <1>4 DEF IntakeInv

\* A delivery writes what no invariant reads.
LEMMA NothingRead ==
  ASSUME IntakeInv, UNCHANGED <<hubNow, scan, row, receipts, alerts, live, sweep, deleting, ledger>>
  PROVE  IntakeInv'
<1>1. IntakeTypes'
  BY DEF IntakeInv, IntakeTypes
<1>2. AcceptedInv' /\ NewestInv' /\ RegisteredInv' /\ LastSeenIsNewest'
  BY SameReceipts DEF IntakeInv, AcceptedInv, RegisteredInv, LastSeenIsNewest
<1>3. LiveInv' /\ MarkInv' /\ StoredOnce' /\ LiveHasRow'
  BY DEF IntakeInv, LiveInv, MarkInv, StoredOnce, LiveHasRow
<1>4. IncidentsRecorded'
  BY SameReceipts DEF IntakeInv, IncidentsRecorded
<1> QED
  BY <1>1, <1>2, <1>3, <1>4 DEF IntakeInv

\* Every step of the mail intake keeps the invariant.
LEMMA IntakeStep ==
  ASSUME IntakeInv, [IntakeNext]_intakeVars
  PROVE  IntakeInv'
<1>1. CASE Delivery \/ GarbageDelivery \/ UNCHANGED intakeVars
  BY <1>1, NothingRead DEF Delivery, GarbageDelivery, intakeVars
<1>2. CASE HubClock
  BY <1>2, ClockStep
<1>3. CASE ScanBegin \/ Refuse \/ StoreFails \/ DeleteMessage \/ Stuck \/ ScanEnd
  BY <1>3, ScanSteps, ScanKeeps DEF IntakeInv
<1>4. CASE Store
  BY <1>4, StoreStep
<1>5. CASE AfterNewest
  BY <1>5, AfterNewestStep
<1>6. CASE SweepRead \/ MarkOverdue \/ Evict
  BY <1>6, SweepStep
<1>7. CASE DeleteSystem
  BY <1>7, DeleteStep
<1>8. CASE SetEnabled \/ Acknowledge \/ RegisterPushed
  BY <1>8, RequestStep
<1>9. CASE DeleteEvicts \/ HubCrash
  BY <1>9, ForgetStep
<1> QED
  BY <1>1, <1>2, <1>3, <1>4, <1>5, <1>6, <1>7, <1>8, <1>9 DEF IntakeNext

\* IntakeInv holds in every state of the mail intake.
THEOREM IntakeInvariant == IntakeSpec => []IntakeInv
<1>1. IntakeInv /\ [IntakeNext]_intakeVars => IntakeInv'
  BY IntakeStep
<1> QED
  BY <1>1, IntakeInitially, PTL DEF IntakeSpec

\* The type invariant the run checks is part of it.
LEMMA TypesGive ==
  ASSUME IntakeInv
  PROVE  IntakeTypeOK
<1>1. row # None => /\ row.url \in {"mail", "push"} /\ row.enabled \in BOOLEAN
                    /\ row.status \in {"unknown", "online", "offline"}
  BY DEF IntakeInv, IntakeTypes, RowType
<1>2. \A x \in receipts : x.retired \in BOOLEAN
  BY CurrentTimes DEF IntakeInv
<1> QED
  BY <1>1, <1>2 DEF IntakeInv, IntakeTypes, IntakeTypeOK

\* However often mail is duplicated, wherever the hub stops between the commit and the deletion of
\* the message, whatever DELETE retires and the prune forgets: a report's points are committed at
\* most once, a mail system's last seen is its newest current receipt's, live metrics have a row or
\* a DELETE's eviction to come, and no incident of a current report is missing.
THEOREM MailStoredOnceHolds == IntakeSpec => []MailStoredOnce
<1>1. IntakeInv => MailStoredOnce
  BY TypesGive DEF IntakeInv, MailStoredOnce
<1> QED
  BY <1>1, IntakeInvariant, PTL

-----------------------------------------------------------------------------
(* What no step takes back.                                                *)

\* A step that stores nothing: the times stay, no record goes or is opened again.
Calm ==
    /\ live' = live \/ live' = None
    /\ (row # None /\ row' # None) =>
          /\ row'.lastSeen = row.lastSeen
          /\ ~(row.status = "offline" /\ row'.status = "online")
          /\ \A i \in DOMAIN alerts : i \in DOMAIN alerts' /\ (alerts[i] => alerts'[i])

\* A calm step rewinds nothing.
LEMMA CalmKeeps ==
  ASSUME IntakeInv, Calm
  PROVE  NeverRewinds
<1>1. (row # None => row.lastSeen \in Int) /\ (live # None => live.at \in Nat)
  BY DEF IntakeInv, IntakeTypes, RowType
<1> QED
  BY <1>1 DEF Calm, NeverRewinds

\* A report stored as the newest moves the times forward; one stored late moves none.
LEMMA StoreNeverRewinds ==
  ASSUME IntakeInv, Store
  PROVE  NeverRewinds /\ (row # None /\ row' # None /\ row'.status = "offline" => row' = row)
<1>1. PICK r \in Reports : Fresh(r.at, scan.now) /\ ~AlreadyAccepted(r) /\ StoreMailReport(r, scan.now)
  BY DEF Store, Ingestible
<1>2. TransportMatches
  BY DEF Store
<1>3. StoredReceipts(r) /\ StoredRow(r)
  BY <1>1, <1>2, StoreReceipts, StoreRow
<1>4. PICK z \in Current' :
        /\ IsNewest(z, Current') /\ NewestOf(Current)' = [at |-> z.at]
        /\ IF Recency(r.at, NewestOf(Current)) = "newest"
           THEN z.at = r.at /\ (Current # {} => NewestOf(Current).at <= r.at)
           ELSE Current # {} /\ z.at = NewestOf(Current).at
  BY <1>3 DEF StoredReceipts
<1>5. NewestOf(Current') = [at |-> z.at] /\ NewestOf(Current').at = z.at
  <2>1. NewestOf(Current') = NewestOf(Current)'
    BY DEF NewestOf
  <2> QED
    BY <1>4, <2>1
<1>6. \A i \in DOMAIN alerts : i \in DOMAIN alerts' /\ (alerts[i] => alerts'[i])
  <2>1. alerts' = [i \in DOMAIN alerts \cup r.incidents |-> IF i \in DOMAIN alerts THEN alerts[i] ELSE FALSE]
    BY <1>1 DEF StoreMailReport, MailWrite, AlertRecords
  <2> QED
    BY <2>1
<1>7. CASE Recency(r.at, NewestOf(Current)) = "newest"
  <2>1. row'.lastSeen = r.at /\ row'.status = "online" /\ live' = [at |-> r.at] /\ z.at = r.at
    BY <1>3, <1>4, <1>7 DEF StoredRow
  <2>2. r.at \in Nat
    BY MailIntakeAssumption
  <2>3. ASSUME row # None
        PROVE  /\ row.lastSeen \in Int /\ row.lastSeen <= r.at
               /\ live # None => live.at \in Nat /\ live.at <= r.at
    <3>1. row.url = "mail" /\ row.lastSeen \in Int /\ (live # None => live.at \in Nat)
      BY <1>3, <2>3 DEF StoredRow, IntakeInv, IntakeTypes, RowType
    <3>2. NewestOf(Current) # None /\ row.lastSeen = NewestOf(Current).at
      BY <2>3, <3>1 DEF IntakeInv, LastSeenIsNewest
    <3>3. Current # {}
      BY <3>2, NoNewest
    <3>4. row.lastSeen <= r.at
      BY <1>4, <1>7, <3>2, <3>3
    <3>5. live # None => live.at <= row.lastSeen
      BY <2>3, <3>1 DEF IntakeInv, LiveInv
    <3> QED
      BY <2>2, <3>1, <3>4, <3>5
  <2> QED
    BY <1>5, <1>6, <2>1, <2>2, <2>3 DEF NeverRewinds
<1>8. CASE Recency(r.at, NewestOf(Current)) # "newest"
  <2>1. live' = live /\ (row # None => row' = row)
    BY <1>3, <1>8 DEF StoredRow
  <2>2. Calm
    BY <1>6, <2>1 DEF Calm
  <2> QED
    BY <2>1, <2>2, CalmKeeps
<1> QED
  BY <1>7, <1>8

\* Every other step is calm, and only the sweep's mark takes a system offline.
LEMMA OthersCalm ==
  ASSUME IntakeInv, IntakeNext, ~Store
  PROVE  /\ Calm
         /\ (row # None /\ row' # None /\ row.status # "offline" /\ row'.status = "offline")
               => MarkOverdue
<1>1. CASE \/ Delivery \/ GarbageDelivery \/ HubClock \/ ScanBegin \/ Refuse \/ StoreFails
           \/ DeleteMessage \/ Stuck \/ ScanEnd \/ SweepRead \/ Evict \/ DeleteEvicts \/ HubCrash
  <2>1. UNCHANGED <<row, alerts>> /\ (live' = live \/ live' = None)
    BY <1>1 DEF Delivery, GarbageDelivery, HubClock, ScanBegin, Refuse, StoreFails, NothingStored,
                DeleteMessage, Stuck, ScanEnd, SweepRead, Evict, DeleteEvicts, HubCrash
  <2> QED
    BY <2>1 DEF Calm
<1>2. CASE AfterNewest
  <2>1. UNCHANGED <<alerts, live>>
    BY <1>2 DEF AfterNewest
  <2>2. CASE row' = row
    BY <2>1, <2>2 DEF Calm
  <2>3. CASE row' # row
    <3>1. row \in RowType /\ row' = [row EXCEPT !.name = "hostname"]
      BY <1>2, <2>3 DEF AfterNewest, FillRegistry, IntakeInv, IntakeTypes
    <3>2. row'.status = row.status /\ row'.lastSeen = row.lastSeen
      BY <3>1 DEF RowType
    <3> QED
      BY <2>1, <3>2 DEF Calm
  <2> QED
    BY <2>2, <2>3
<1>3. CASE MarkOverdue
  <2>1. UNCHANGED <<alerts, live>>
    BY <1>3 DEF MarkOverdue
  <2>2. CASE row' = row
    BY <2>1, <2>2 DEF Calm
  <2>3. CASE row' # row
    <3>1. row \in RowType /\ row' = [row EXCEPT !.status = "offline"]
      BY <1>3, <2>3 DEF MarkOverdue, IntakeInv, IntakeTypes
    <3>2. row'.status = "offline" /\ row'.lastSeen = row.lastSeen
      BY <3>1 DEF RowType
    <3> QED
      BY <1>3, <2>1, <3>2 DEF Calm
  <2> QED
    BY <1>3, <2>2, <2>3
<1>4. CASE SetEnabled
  <2>1. row \in RowType /\ row' = [row EXCEPT !.enabled = ~@] /\ UNCHANGED <<alerts, live>>
    BY <1>4 DEF SetEnabled, IntakeInv, IntakeTypes
  <2>2. row'.status = row.status /\ row'.lastSeen = row.lastSeen
    BY <2>1 DEF RowType
  <2> QED
    BY <2>1, <2>2 DEF Calm
<1>5. CASE Acknowledge
  <2>1. UNCHANGED <<row, live>>
    BY <1>5 DEF Acknowledge
  <2>2. \A i \in DOMAIN alerts : i \in DOMAIN alerts' /\ (alerts[i] => alerts'[i])
    BY <1>5 DEF Acknowledge, IntakeInv, IntakeTypes
  <2> QED
    BY <2>1, <2>2 DEF Calm
<1>6. CASE DeleteSystem \/ RegisterPushed
  BY <1>6 DEF DeleteSystem, RegisterPushed, Calm
<1> QED
  BY <1>1, <1>2, <1>3, <1>4, <1>5, <1>6 DEF IntakeNext

\* The mark is of a system that is overdue still: its newest receipt is the one the sweep read.
LEMMA MarkSound ==
  ASSUME IntakeInv, SteadyIntervals, MarkOverdue, row' # row
  PROVE  Overdue(Current, sweep.now)
<1>1. sweep.step = "mark" /\ NewestOf(Current) = sweep.newest
  BY DEF MarkOverdue, StillNewest
<1> SUFFICES ASSUME Current # {}
             PROVE  Overdue(Current, sweep.now)
  BY DEF Overdue
<1>2. PICK x \in Current : NewestOf(Current) = [at |-> x.at] /\ NewestOf(Current).at = x.at
  BY CurrentTimes DEF IntakeInv
<1>3. PICK r \in Reports : sweep.newest = [at |-> r.at] /\ sweep.now - r.at > 3 * r.interval + Margin
  BY <1>1, <1>2, NoneApart DEF IntakeInv, MarkInv
<1>4. x.at = r.at
  <2>1. NewestOf(Current).at = r.at
    BY <1>1, <1>3
  <2> QED
    BY <1>2, <2>1
<1>5. PICK q \in Reports, b \in BOOLEAN : x = ReceiptOf(q, b)
  BY DEF IntakeInv, IntakeTypes, Current
<1>6. x.interval = r.interval
  <2>1. x.at = q.at /\ x.interval = q.interval
    BY <1>5, ReceiptFields
  <2>2. q.at = r.at
    BY <1>4, <2>1
  <2> QED
    BY <2>1, <2>2 DEF SteadyIntervals
<1> QED
  BY <1>2, <1>3, <1>4, <1>6 DEF Overdue

\* No report delivered late rewinds a system's last seen, its live metrics or its status, nor opens
\* again an incident an operator acknowledged, whatever crash, sweep or request comes between.
THEOREM NeverRewindsHolds == IntakeSpec => [][NeverRewinds]_intakeVars
<1>1. IntakeInv /\ [IntakeNext]_intakeVars => [NeverRewinds]_intakeVars
  BY StoreNeverRewinds, OthersCalm, CalmKeeps
<1> QED
  BY <1>1, IntakeInvariant, PTL DEF IntakeSpec

\* Where reports of one creation time have one interval, also no sweep marks a system that a report
\* stored since the sweep looked shows to be alive.  (Without it a DELETE and a registration by a
\* report of the same second and a longer interval, between the sweep's reading and its mark, pass
\* for the receipt it read.)
THEOREM MailNeverRewindsHolds == SteadyIntervals => (IntakeSpec => MailNeverRewinds)
<1> SUFFICES ASSUME SteadyIntervals
             PROVE  IntakeSpec => MailNeverRewinds
  OBVIOUS
<1>1. IntakeInv /\ [IntakeNext]_intakeVars => [NeverRewinds /\ SweepNeverOverrides]_intakeVars
  <2> SUFFICES ASSUME IntakeInv, IntakeNext
               PROVE  NeverRewinds /\ SweepNeverOverrides
    OBVIOUS
  <2>1. CASE Store
    BY <2>1, StoreNeverRewinds DEF SweepNeverOverrides
  <2>2. CASE ~Store
    BY <2>2, OthersCalm, CalmKeeps, MarkSound DEF SweepNeverOverrides
  <2> QED
    BY <2>1, <2>2
<1> QED
  BY <1>1, IntakeInvariant, PTL DEF IntakeSpec, MailNeverRewinds
=============================================================================
