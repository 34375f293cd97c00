------------------------------ MODULE MailIntake ------------------------------
(***************************************************************************)
(* The hub's mail intake (RFC 0017): the scan of the Maildir, the ingestion *)
(* of a message in one database transaction, the newest report's follow-ups, *)
(* and the overdue sweep, with DELETE, a pushed registration of the same id, *)
(* duplicated and reordered mail, failing files and database, and a crash.  *)
(*                                                                         *)
(* One system id.  A message is the sealed report it carries: what the     *)
(* agent's client closes (MailClient!ReportsFit) opens and decodes.         *)
(***************************************************************************)
EXTENDS Integers, FiniteSets, Sequences, FiniteSetsExt, Functions

CONSTANTS
    Reports,          \* the reports the agent mails: [run, seq, at, interval, incidents, info]
    Garbage,          \* a message no report can be opened from
    Window,           \* RECEIPT_WINDOW_SECS
    FutureSlack,      \* FUTURE_SLACK_SECS
    Margin,           \* OVERDUE_MARGIN_SECS
    MaxPerScan,       \* MAX_MESSAGES_PER_SCAN
    MaxHubTime,       \* bound on the hub's clock
    MaxDeliveries,    \* bound on how often the mail system delivers, copies included
    MaxFaults,        \* bound on the failures and crashes
    MaxRequests       \* bound on the operator's requests and registrations by push

ASSUME MailIntakeAssumption ==
    /\ {Window, FutureSlack, Margin} \subseteq Nat /\ MaxPerScan \in Nat \ {0}
    /\ {MaxHubTime, MaxDeliveries, MaxFaults, MaxRequests} \subseteq Nat
    /\ \A r \in Reports : r.at \in Nat /\ r.interval \in Nat
    \* An agent's run numbers its reports.
    /\ \A q, r \in Reports : q.run = r.run /\ q.seq = r.seq => q = r
    /\ Garbage \notin Reports

None == [none |-> TRUE]

VARIABLES
    hubNow,       \* the hub's clock
    maildir,      \* maildir/new, by file name: the order of delivery
    delivered,    \* how often each report was delivered
    scan,         \* the scan's step, its clock reading and the messages it listed
    row,          \* the system's registry row, or None
    receipts,     \* mail_receipts
    alerts,       \* the system's alert records: whether each incident's is acknowledged
    live,         \* the live metrics' sample time, or None
    sweep,        \* the overdue sweep's step, its clock reading and the receipt it read
    deleting,     \* a DELETE between its transaction and its eviction
    faults,
    ledger        \* for the properties and bounds only: how often each report's points were
                  \* committed, and the requests so far

intakeVars == <<hubNow, maildir, delivered, scan, row, receipts, alerts, live, sweep, deleting,
                faults, ledger>>

-----------------------------------------------------------------------------
(* The receipt rules.                                                      *)

Fresh(at, now) == now - at >= -FutureSlack /\ now - at <= Window

Current == {x \in receipts : ~x.retired}

\* MAX(created_at) of the current receipts.
NewestOf(current) == IF current = {} THEN None ELSE [at |-> Max({x.at : x \in current})]

RecencyOfArrival(at, previous) == "newest"  \* mutant

Recency(at, previous) ==
    IF previous # None /\ at < previous.at THEN "backfill" ELSE "newest"

\* More than three intervals and the margin since the newest current receipt, or none.
Overdue(current, now) ==
    current # {} =>
        \E x \in current : /\ x.at = NewestOf(current).at
                           /\ now - x.at > 3 * x.interval + Margin

Receipt(r) == [run |-> r.run, seq |-> r.seq, at |-> r.at, interval |-> r.interval,
               retired |-> FALSE]

AlreadyAccepted(r) == \E x \in receipts : x.run = r.run /\ x.seq = r.seq

\* mutant: the window's last second is pruned too.
PrunedEarly(all, before) ==
    LET current == {x \in all : ~x.retired}
    IN {x \in all : ~(x.at <= before /\ (x.retired \/ x.at < NewestOf(current).at))}

\* Receipts behind the window go: the retired ones all, the current ones but the newest.
Pruned(all, before) ==
    LET current == {x \in all : ~x.retired}
    IN {x \in all : ~(x.at < before /\ (x.retired \/ x.at < NewestOf(current).at))}

-----------------------------------------------------------------------------
(* Storing one report: one transaction under the connection mutex, and the  *)
(* live metrics before the mutex is released.                              *)

\* mutant: a row of mail is born with a status of its own.
MailRowNew == [url |-> "mail", status |-> "new", lastSeen |-> -1, enabled |-> TRUE,
               name |-> "default"]

MailRow == [url |-> "mail", status |-> "unknown", lastSeen |-> -1, enabled |-> TRUE,
            name |-> "default"]

Known == IF row = None THEN MailRow ELSE row

\* mutant: an incident of an older report is not recorded.
AlertRecordsNewest(r) ==
    [i \in IF Recency(r.at, NewestOf(Current)) = "newest" THEN r.incidents ELSE {} |-> FALSE]

\* One record per incident, as the poll keys them, not acknowledged.
AlertRecords(r) == [i \in r.incidents |-> FALSE]

\* What a report writes; its samples go through the snapshot rule.
MailWrite(r, now) ==
    [receipt |-> Receipt(r), status |-> "online", lastSeen |-> r.at, alerts |-> AlertRecords(r),
     pruneBefore |-> now - Window]

\* Each sample's points; how long a point is kept is FleetHistory's.
StoreSamples(r) == [ledger EXCEPT !.stored[r] = @ + 1]

\* A record that is there already stays as it is.
StoreMailReport(r, now) ==
    LET recency == Recency(r.at, NewestOf(Current))
        write == MailWrite(r, now)
    IN /\ receipts' = Pruned(receipts \cup {write.receipt}, write.pruneBefore)
       /\ row' = IF recency = "newest"
                 THEN [Known EXCEPT !.status = write.status, !.lastSeen = write.lastSeen]
                 ELSE Known
       /\ alerts' = [i \in DOMAIN alerts \cup DOMAIN write.alerts |->
                       IF i \in DOMAIN alerts THEN alerts[i] ELSE write.alerts[i]]
       /\ live' = IF recency = "newest" THEN [at |-> r.at] ELSE live
       /\ ledger' = StoreSamples(r)
       /\ scan' = [scan EXCEPT !.step = IF recency = "newest" THEN "after_newest" ELSE "delete"]

NothingStored == UNCHANGED <<row, receipts, alerts, live, ledger>>

IdleScan == [step |-> "idle", now |-> 0, todo |-> <<>>]
IdleSweep == [step |-> "idle", now |-> 0, newest |-> None]

IntakeInit ==
    /\ hubNow = 0 /\ maildir = <<>>
    /\ delivered = [r \in Reports |-> 0]
    /\ scan = IdleScan /\ sweep = IdleSweep
    /\ row = None /\ receipts = {} /\ alerts = <<>> /\ live = None /\ deleting = FALSE
    /\ faults = 0
    /\ ledger = [stored |-> [r \in Reports |-> 0], requests |-> 0]

-----------------------------------------------------------------------------
(* The mail system: late, reordered, more than once; or anything at all.   *)

Delivery ==
    \E r \in Reports :
        /\ Cardinality({p \in Reports \X (1..MaxDeliveries) : p[2] <= delivered[p[1]]}) < MaxDeliveries
        /\ hubNow + FutureSlack >= r.at
        /\ delivered' = [delivered EXCEPT ![r] = @ + 1]
        /\ maildir' = Append(maildir, <<r, delivered[r] + 1>>)
        /\ UNCHANGED <<hubNow, scan, row, receipts, alerts, live, sweep, deleting, faults, ledger>>

GarbageDelivery ==
    /\ faults < MaxFaults /\ faults' = faults + 1
    /\ maildir' = Append(maildir, <<Garbage, faults>>)
    /\ UNCHANGED <<hubNow, delivered, scan, row, receipts, alerts, live, sweep, deleting, ledger>>

HubClock ==
    /\ hubNow < MaxHubTime
    /\ hubNow' = hubNow + 1
    /\ UNCHANGED <<maildir, delivered, scan, row, receipts, alerts, live, sweep, deleting,
                   faults, ledger>>

-----------------------------------------------------------------------------
(* The scan: the clock and the oldest messages are read once.              *)

ScanBegin ==
    /\ scan.step = "idle" /\ maildir # <<>>
    /\ scan' = [step |-> "handle", now |-> hubNow,
                todo |-> SubSeq(maildir, 1, Min({MaxPerScan, Len(maildir)}))]
    /\ UNCHANGED <<hubNow, maildir, delivered, row, receipts, alerts, live, sweep, deleting,
                   faults, ledger>>

Handling == scan.step = "handle" /\ scan.todo # <<>>
Message == Head(scan.todo)[1]

Ingestible == Message \in Reports /\ Fresh(Message.at, scan.now)
TransportMatches == row # None => row.url = "mail"

\* The whole of handle and ingest_message up to the commit.
Store ==
    /\ Handling /\ Ingestible /\ TransportMatches /\ ~AlreadyAccepted(Message)
    /\ StoreMailReport(Message, scan.now)
    /\ UNCHANGED <<hubNow, maildir, delivered, sweep, deleting, faults>>

\* Accepted already (nothing is written, not even the row of a deleted system), stale, of a
\* pushed system, or not a report.
Refuse ==
    /\ Handling
    /\ ~(Ingestible /\ TransportMatches /\ ~AlreadyAccepted(Message))
    /\ scan' = [scan EXCEPT !.step = "delete"]
    /\ NothingStored
    /\ UNCHANGED <<hubNow, maildir, delivered, sweep, deleting, faults>>

\* The database fails: nothing is stored, and the message is refused and deleted.
StoreFails ==
    /\ Handling /\ Ingestible /\ faults < MaxFaults
    /\ faults' = faults + 1
    /\ scan' = [scan EXCEPT !.step = "delete"]
    /\ NothingStored
    /\ UNCHANGED <<hubNow, maildir, delivered, sweep, deleting>>

\* The row as the newest sample's info fills it: it may be gone or another's by now.
FillRegistry == IF row # None /\ row.name = "default" THEN [row EXCEPT !.name = "hostname"] ELSE row

\* The newest report's follow-ups: the registry fill, when its newest sample carries the info.
\* Its round is RoundIntake's.
AfterNewest ==
    /\ scan.step = "after_newest"
    /\ row' = IF Message.info THEN FillRegistry ELSE row
    /\ scan' = [scan EXCEPT !.step = "delete"]
    /\ UNCHANGED <<hubNow, maildir, delivered, receipts, alerts, live, sweep, deleting, faults,
                   ledger>>

NextMessage == [scan EXCEPT !.step = "handle", !.todo = Tail(@)]

\* mutant: the message stays.
KeepMessage ==
    /\ scan.step = "delete"
    /\ scan' = NextMessage
    /\ UNCHANGED <<hubNow, maildir, delivered, row, receipts, alerts, live, sweep, deleting, faults,
                   ledger>>

DeleteMessage ==
    /\ scan.step = "delete"
    /\ maildir' = SelectSeq(maildir, LAMBDA f : f # Head(scan.todo))
    /\ scan' = NextMessage
    /\ UNCHANGED <<hubNow, delivered, row, receipts, alerts, live, sweep, deleting, faults, ledger>>

\* The file could not be read, or not be deleted: it stays for the next scan.
Stuck ==
    /\ Handling \/ scan.step = "delete"
    /\ faults < MaxFaults /\ faults' = faults + 1
    /\ scan' = NextMessage
    /\ UNCHANGED <<hubNow, maildir, delivered, row, receipts, alerts, live, sweep, deleting,
                   ledger>>

ScanEnd ==
    /\ scan.step = "handle" /\ scan.todo = <<>>
    /\ scan' = IdleScan
    /\ UNCHANGED <<hubNow, maildir, delivered, row, receipts, alerts, live, sweep, deleting,
                   faults, ledger>>

-----------------------------------------------------------------------------
(* The overdue sweep: three steps, each taking the database or the live     *)
(* metrics on its own.                                                     *)

Sweepable == row # None /\ row.url = "mail" /\ row.enabled /\ row.status # "offline"

SweepRead ==
    /\ sweep.step = "idle"
    /\ Sweepable /\ Overdue(Current, hubNow)
    /\ sweep' = [step |-> "mark", now |-> hubNow, newest |-> NewestOf(Current)]
    /\ UNCHANGED <<hubNow, maildir, delivered, scan, row, receipts, alerts, live, deleting,
                   faults, ledger>>

StillNewestUnchecked == TRUE  \* mutant
StillNewestReversed == NewestOf(Current) # sweep.newest  \* mutant

StillNewest == NewestOf(Current) = sweep.newest

MarkOverdue ==
    /\ sweep.step = "mark"
    /\ IF row # None /\ row.status # "offline" /\ StillNewest
       THEN /\ row' = [row EXCEPT !.status = "offline"]
            /\ sweep' = [sweep EXCEPT !.step = "evict"]
       ELSE /\ UNCHANGED row
            /\ sweep' = IdleSweep
    /\ UNCHANGED <<hubNow, maildir, delivered, scan, receipts, alerts, live, deleting, faults,
                   ledger>>

Evict ==
    /\ sweep.step = "evict"
    /\ live' = None
    /\ sweep' = IdleSweep
    /\ UNCHANGED <<hubNow, maildir, delivered, scan, row, receipts, alerts, deleting, faults,
                   ledger>>

-----------------------------------------------------------------------------
(* The rest of the hub.                                                    *)

Requested == /\ ledger.requests < MaxRequests
             /\ ledger' = [ledger EXCEPT !.requests = @ + 1]

\* DELETE: the row goes and its receipts are retired in one transaction; then the live metrics.
DeleteSystem ==
    /\ row # None /\ ~deleting /\ Requested
    /\ row' = None
    /\ receipts' = {[x EXCEPT !.retired = TRUE] : x \in receipts}
    /\ alerts' = <<>>
    /\ deleting' = TRUE
    /\ UNCHANGED <<hubNow, maildir, delivered, scan, live, sweep, faults>>

\* mutant: the live metrics stay.
DeleteKeepsLive ==
    /\ deleting /\ deleting' = FALSE
    /\ UNCHANGED <<hubNow, maildir, delivered, scan, row, receipts, alerts, live, sweep, faults, ledger>>

DeleteEvicts ==
    /\ deleting /\ deleting' = FALSE
    /\ live' = None
    /\ UNCHANGED <<hubNow, maildir, delivered, scan, row, receipts, alerts, sweep, faults, ledger>>

SetEnabled ==
    /\ row # None /\ Requested
    /\ row' = [row EXCEPT !.enabled = ~@]
    /\ UNCHANGED <<hubNow, maildir, delivered, scan, receipts, alerts, live, sweep, deleting,
                   faults>>

Acknowledge ==
    /\ Requested
    /\ \E i \in DOMAIN alerts : ~alerts[i] /\ alerts' = [alerts EXCEPT ![i] = TRUE]
    /\ UNCHANGED <<hubNow, maildir, delivered, scan, row, receipts, live, sweep, deleting, faults>>

\* An agent pushes under the same id.
RegisterPushed ==
    /\ row = None /\ Requested
    /\ row' = [MailRow EXCEPT !.url = "push"]
    /\ UNCHANGED <<hubNow, maildir, delivered, scan, receipts, alerts, live, sweep, deleting,
                   faults>>

HubCrash ==
    /\ faults < MaxFaults /\ faults' = faults + 1
    /\ scan' = IdleScan /\ sweep' = IdleSweep /\ live' = None /\ deleting' = FALSE
    /\ UNCHANGED <<hubNow, maildir, delivered, row, receipts, alerts, ledger>>

IntakeNext ==
    \/ Delivery \/ GarbageDelivery \/ HubClock
    \/ ScanBegin \/ Store \/ Refuse \/ StoreFails \/ AfterNewest \/ DeleteMessage \/ Stuck
    \/ ScanEnd
    \/ SweepRead \/ MarkOverdue \/ Evict
    \/ DeleteSystem \/ DeleteEvicts \/ SetEnabled \/ Acknowledge \/ RegisterPushed \/ HubCrash

\* The scan and the sweep are tasks on timers: each step that can run eventually does.
IntakeFairness ==
    /\ WF_intakeVars(ScanBegin \/ Store \/ Refuse \/ AfterNewest \/ DeleteMessage \/ ScanEnd)
    /\ WF_intakeVars(SweepRead \/ MarkOverdue \/ Evict)

IntakeSpec == IntakeInit /\ [][IntakeNext]_intakeVars /\ IntakeFairness

-----------------------------------------------------------------------------
IntakeTypeOK ==
    /\ hubNow \in 0..MaxHubTime /\ scan.step \in {"idle", "handle", "after_newest", "delete"}
    /\ sweep.step \in {"idle", "mark", "evict"} /\ deleting \in BOOLEAN
    /\ row # None => /\ row.url \in {"mail", "push"} /\ row.enabled \in BOOLEAN
                     /\ row.status \in {"unknown", "online", "offline"}
    /\ \A x \in receipts : x.retired \in BOOLEAN

\* A report's points are committed at most once, whatever the mail system duplicates, a crash
\* between the commit and the deletion of its message repeats, DELETE retires and the prune
\* forgets: so no replay of an accepted report registers a deleted system again.
StoredOnce == \A r \in Reports : ledger.stored[r] <= 1

\* A mail system's last seen is the creation time of its newest current receipt: the prune never
\* takes it, a late report never replaces it.
LastSeenIsNewest ==
    row # None /\ row.url = "mail" =>
        NewestOf(Current) # None /\ row.lastSeen = NewestOf(Current).at

\* Live metrics belong to a registered system; only a DELETE's eviction still to come is between.
LiveHasRow == live # None => row # None \/ deleting

\* A system's incidents are recorded with its receipts and go with its row: whatever comes late, the
\* records are never of another registration, and none of an accepted report is missing.
IncidentsRecorded ==
    /\ row = None => DOMAIN alerts = {}
    /\ \A r \in Reports : Receipt(r) \in Current => r.incidents \subseteq DOMAIN alerts

\* A report delivered late never rewinds a system's last seen, its status or its live metrics, nor
\* opens again an incident an operator acknowledged.
NeverRewinds ==
    /\ (row # None /\ row' # None) => row'.lastSeen >= row.lastSeen
    /\ (row # None /\ live # None /\ live' # None) => live'.at >= live.at
    /\ (row # None /\ row' # None /\ row.status = "offline" /\ row'.status = "online")
          => row'.lastSeen = NewestOf(Current').at
    /\ (row # None /\ row' # None) =>
          \A i \in DOMAIN alerts : i \in DOMAIN alerts' /\ (alerts[i] => alerts'[i])

\* The sweep marks only a system that was silent too long when it looked, and still is the one
\* it looked at: a report stored in between wins.
SweepNeverOverrides ==
    (row # None /\ row' # None /\ row.status # "offline" /\ row'.status = "offline")
      => Overdue(Current, sweep.now)

\* Every message the mail system delivers is read and deleted, however often the hub restarts.
MessagesHandled ==
    \A r \in Reports :
        (\E f \in Range(maildir) : f[1] = r) ~> (\A f \in Range(maildir) : f[1] # r)

\* A system whose reports stopped coming does not stay online.
SilentGoesOffline ==
    (Sweepable /\ Overdue(Current, hubNow)) ~> ~(Sweepable /\ Overdue(Current, hubNow))

\* What the intake recorded is right whatever mail was duplicated, late or unreadable and
\* wherever the hub stopped: a report is stored once, last_seen is the newest report's, live
\* metrics have a row, and the incidents of every stored report are recorded.
MailStoredOnce ==
    /\ IntakeTypeOK
    /\ StoredOnce
    /\ LastSeenIsNewest
    /\ LiveHasRow
    /\ IncidentsRecorded

\* No late report and no sweep takes back what a newer report said.
MailNeverRewinds ==
    [][/\ NeverRewinds
       /\ SweepNeverOverrides]_intakeVars

\* The intake gets there: every message is handled and a silent system goes offline.
MailSettles == MessagesHandled /\ SilentGoesOffline

-----------------------------------------------------------------------------
(* The inductive invariant MailIntakeProofs proves.                        *)

RowType == [url : {"mail", "push"}, status : {"unknown", "online", "offline"}, lastSeen : Int,
            enabled : BOOLEAN, name : {"default", "hostname"}]

ReceiptOf(r, b) == [run |-> r.run, seq |-> r.seq, at |-> r.at, interval |-> r.interval,
                    retired |-> b]

\* Type correctness: every receipt is one of a report's, every time is a natural number.
IntakeTypes ==
    /\ hubNow \in 0..MaxHubTime /\ deleting \in BOOLEAN
    /\ scan = [step |-> scan.step, now |-> scan.now, todo |-> scan.todo]
    /\ scan.step \in {"idle", "handle", "after_newest", "delete"} /\ scan.now \in 0..hubNow
    /\ sweep = [step |-> sweep.step, now |-> sweep.now, newest |-> sweep.newest]
    /\ sweep.step \in {"idle", "mark", "evict"} /\ sweep.now \in Nat
    /\ row = None \/ row \in RowType
    /\ \A x \in receipts : \E r \in Reports, b \in BOOLEAN : x = ReceiptOf(r, b)
    /\ live = None \/ live \in [at : Nat]
    /\ alerts = [i \in DOMAIN alerts |-> alerts[i]]
    /\ ledger \in [stored : [Reports -> Nat], requests : Nat]

IsNewest(x, current) == x \in current /\ \A y \in current : y.at <= x.at

\* A system's current receipts have a newest one.
NewestInv == Current # {} => \E x \in Current : IsNewest(x, Current)

\* Only a registered system of mail has current receipts: DELETE retires them with the row.
RegisteredInv == (row = None \/ row.url = "push") => Current = {}

Receipted(r) == \E b \in BOOLEAN : ReceiptOf(r, b) \in receipts

\* A stored report's receipt is kept while the report could pass for fresh again: once pruned, it
\* is behind the window of the running scan's clock reading, and of every later one.
AcceptedInv ==
    \A r \in Reports :
        ledger.stored[r] # 0 =>
            \/ Receipted(r)
            \/ /\ r.at + Window < hubNow
               /\ scan.step # "idle" => r.at + Window < scan.now

\* Live metrics are of no newer report than the row's last seen.
LiveInv == (row # None /\ row.url = "mail" /\ live # None) => live.at <= row.lastSeen

\* What the sweep carries to its mark was overdue when it read it.
MarkInv ==
    sweep.step = "mark" =>
        \/ sweep.newest = None
        \/ \E r \in Reports : /\ sweep.newest = [at |-> r.at]
                              /\ sweep.now - r.at > 3 * r.interval + Margin

IntakeInv ==
    /\ IntakeTypes
    /\ NewestInv
    /\ RegisteredInv
    /\ AcceptedInv
    /\ LiveInv
    /\ MarkInv
    /\ StoredOnce
    /\ LastSeenIsNewest
    /\ LiveHasRow
    /\ IncidentsRecorded

\* Two reports of one creation time were mailed under one interval.
SteadyIntervals == \A q, r \in Reports : q.at = r.at => q.interval = r.interval
=============================================================================
