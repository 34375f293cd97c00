------------------------------ MODULE MailClient ------------------------------
(***************************************************************************)
(* The agent's mail client (RFC 0017): the gathering task, whose tick       *)
(* offers the published snapshot to the batch, notes the active incidents   *)
(* and closes a report when one is due; and the delivery task, which queues  *)
(* what it receives in the outbox and sends the outbox's front through the  *)
(* relay with a backoff.  They share an unbounded channel.                  *)
(*                                                                         *)
(* One unit of time is the gathering task's tick (2 s).                     *)
(***************************************************************************)
EXTENDS Integers, FiniteSets, Sequences, SequencesExt

CONSTANTS
    MailInterval,   \* MAIL_INTERVAL
    SampleInterval, \* MAIL_SAMPLE_INTERVAL
    Spacing,        \* INCIDENT_SPACING
    FirstRetry,     \* FIRST_RETRY
    SmtpTimeout,    \* SMTP_TIMEOUT
    Staleness,      \* STALENESS_BOUND: the oldest snapshot gather still offers
    MaxSamples, MaxAlerts, MaxQueued,  \* what a report and the outbox hold at most
    WindowSlack,    \* the hub's slack behind a report's interval for its oldest sample
    Incidents,      \* the incident ids the alert manager mints: 1..n
    MaxMailTime     \* bound on the run's length

ASSUME MailClientAssumption ==
    /\ {MailInterval, SampleInterval, Spacing, FirstRetry, SmtpTimeout} \subseteq Nat \ {0}
    /\ {MaxSamples, MaxAlerts, MaxQueued} \subseteq Nat \ {0}
    /\ FirstRetry <= MailInterval /\ Spacing <= MailInterval
    \* SampleInterval::new
    /\ SampleInterval <= MailInterval
    /\ (MailInterval + SampleInterval - 1) \div SampleInterval <= MaxSamples
    \* the hub's window is wider than what a batch adds to its interval
    /\ Staleness + 1 <= WindowSlack
    /\ {Staleness, WindowSlack, MaxMailTime} \subseteq Nat
    /\ IsFiniteSet(Incidents) /\ Incidents = 1..Cardinality(Incidents)

Never == -1

VARIABLES
    mailNow,      \* the clock, monotonic and system alike
    snapshotAt,   \* when the published snapshot was read
    activeNow,    \* the alert manager's active incidents
    batch,        \* what the gathering task holds between two reports (MailBatch)
    nextReport,   \* when a scheduled report is due
    paceLast,     \* the last incident report (IncidentPace)
    channel,      \* closed reports the delivery task has not received yet
    outbox,       \* the queue, the backoff and the count of dropped reports (Outbox)
    wait, wakeAt, \* the delivery task's delay, and when its current sleep ends
    sending,      \* when the send of the outbox's front began, or Never
    relay,        \* the reports the relay took, in order
    fate          \* for the properties only

client == <<snapshotAt, activeNow, batch, nextReport, paceLast>>
delivery == <<outbox, wait, wakeAt, sending, relay>>
mailVars == <<mailNow, client, channel, delivery, fate>>

-----------------------------------------------------------------------------
(* The batch and the pace.                                                 *)

EmptyBatch == [nextSeq |-> 1, lastKept |-> Never, samples |-> <<>>, alerts |-> <<>>,
               active |-> {}]

\* The newest n of a sequence to which one more is appended.
Bounded(s, x, n) == IF Len(s) = n THEN Append(Tail(s), x) ELSE Append(s, x)

\* mutant: every offer is kept.
OfferAll(b, readAt) ==
    [b EXCEPT !.samples = Bounded(@, readAt, MaxSamples), !.lastKept = readAt]

Offer(b, readAt) ==
    IF b.lastKept # Never /\ readAt - b.lastKept < SampleInterval
    THEN b
    ELSE [b EXCEPT !.samples = Bounded(@, readAt, MaxSamples), !.lastKept = readAt]

\* One incident of the walk over the active ones.
NoteOne(noted, i, alerts) ==
    IF i \notin alerts \/ i \in ToSet(noted) THEN noted ELSE Bounded(noted, i, MaxAlerts)

\* What is noted after the walk over the manager's list, which the ids stand in the order of.
Noted(noted, alerts) ==
    LET walk[i \in 0..Cardinality(Incidents)] ==
            IF i = 0 THEN noted ELSE NoteOne(walk[i - 1], i, alerts)
    IN  walk[Cardinality(Incidents)]

\* mutant: only the incidents that are new are noted.
NoteNewAlerts(b, alerts) ==
    [b EXCEPT !.active = alerts, !.alerts = Noted(@, alerts \ b.active)]

\* Each active incident once per report.
NoteAlerts(b, alerts) == [b EXCEPT !.active = alerts, !.alerts = Noted(@, alerts)]

AnyNew(b, alerts) == alerts \ b.active # {}

PaceAllows == paceLast = Never \/ mailNow - paceLast >= Spacing

\* The report the batch closes into, created now.
Report(b, reason) ==
    [seq |-> b.nextSeq, createdAt |-> mailNow, reason |-> reason,
     samples |-> b.samples, alerts |-> b.alerts]

Closed(b) == [b EXCEPT !.nextSeq = @ + 1, !.samples = <<>>, !.alerts = <<>>]

\* A batch with no sample closes into nothing, and keeps what it noted.  A report that fails
\* to encode, to seal or to build is skipped.
CloseBatch(b, reason) ==
    IF b.samples = <<>>
    THEN /\ batch' = b
         /\ UNCHANGED channel
         /\ fate' = [fate EXCEPT !.noted = @ \cup activeNow', !.pending = @ \cup activeNow']
    ELSE /\ batch' = Closed(b)
         /\ \E sealed \in BOOLEAN :
               /\ channel' = IF sealed THEN Append(channel, Report(b, reason)) ELSE channel
               /\ fate' = [fate EXCEPT
                     !.noted = @ \cup activeNow', !.pending = {},
                     !.missed = @ \cup ((fate.pending \cup activeNow') \ ToSet(b.alerts)),
                     !.skipped = IF sealed THEN @ ELSE @ \cup {b.nextSeq}]

Gathered ==
    LET offered == IF mailNow - snapshotAt' <= Staleness THEN Offer(batch, snapshotAt') ELSE batch
    IN NoteAlerts(offered, activeNow')

-----------------------------------------------------------------------------
(* The outbox.                                                             *)

EmptyOutbox == [queue |-> <<>>, dropped |-> 0, backoff |-> 0]

\* mutant: what a full queue pushes out is not counted.
OutboxPushUncounted(o, r) ==
    [o EXCEPT !.queue = IF Len(@) = MaxQueued THEN Append(Tail(@), r) ELSE Append(@, r)]

OutboxPush(o, r) ==
    IF Len(o.queue) = MaxQueued
    THEN [o EXCEPT !.queue = Append(Tail(@), r), !.dropped = @ + 1]
    ELSE [o EXCEPT !.queue = Append(@, r)]

Smaller(a, b) == IF a < b THEN a ELSE b
Larger(a, b) == IF a < b THEN b ELSE a

NextBackoffUncapped(o) == IF o.backoff = 0 THEN FirstRetry ELSE 2 * o.backoff  \* mutant

NextBackoff(o) == Smaller(IF o.backoff = 0 THEN FirstRetry ELSE 2 * o.backoff, MailInterval)

OutboxAfter(o, result) ==
    CASE result = "sent" -> [o EXCEPT !.queue = Tail(@), !.backoff = 0]
      [] result = "permanent" ->
            [o EXCEPT !.queue = Tail(@), !.backoff = 0, !.dropped = @ + 1]
      [] OTHER -> [o EXCEPT !.backoff = NextBackoff(o)]

WaitAfter(o, result) == IF result = "temporary" THEN NextBackoff(o) ELSE 0

-----------------------------------------------------------------------------
NothingFated == [noted |-> {}, pending |-> {}, missed |-> {}, skipped |-> {},
                 lost |-> {}, logged |-> 0, readyAt |-> 0]

MailClientInit ==
    /\ mailNow = 0 /\ snapshotAt = 0 /\ activeNow = {}
    /\ batch = EmptyBatch
    /\ nextReport = MailInterval /\ paceLast = Never
    /\ channel = <<>>
    /\ outbox = EmptyOutbox /\ wait = 0 /\ wakeAt = 0 /\ sending = Never
    /\ relay = <<>>
    /\ fate = NothingFated

HasFront == outbox.queue # <<>>
DeliveryRunnable ==
    sending = Never /\ (channel # <<>> \/ (HasFront /\ mailNow >= wakeAt))

\* One tick of the gathering task, synchronous from gather to the channel.  What it reads was
\* published since: a snapshot, and the incidents of the alert manager, whose ids never return.
Gather ==
    /\ mailNow < MaxMailTime
    /\ ~DeliveryRunnable
    /\ sending # Never => mailNow - sending < SmtpTimeout
    /\ mailNow' = mailNow + 1
    /\ snapshotAt' \in snapshotAt..mailNow
    /\ activeNow' \in SUBSET Incidents
    /\ \A i \in activeNow' \ activeNow : \A j \in fate.noted : i > j
    /\ LET b == Gathered
           new == AnyNew(batch, activeNow')
       IN IF mailNow >= nextReport
          THEN /\ nextReport' = mailNow + MailInterval
               /\ UNCHANGED paceLast
               /\ CloseBatch(b, "scheduled")
          ELSE /\ UNCHANGED nextReport
               /\ IF new /\ PaceAllows
                  THEN paceLast' = mailNow /\ CloseBatch(b, "incident")
                  ELSE /\ batch' = b
                       /\ UNCHANGED <<paceLast, channel>>
                       /\ fate' = [fate EXCEPT !.noted = @ \cup activeNow',
                                               !.pending = @ \cup activeNow']
    /\ UNCHANGED delivery

\* The report the outbox gave up in this step, if any: always its oldest.
Dropped == IF outbox'.dropped > outbox.dropped THEN {Head(outbox.queue).seq} ELSE {}

\* The delivery task's select is biased to the channel; its sleep starts again on every turn.
Receive ==
    /\ sending = Never /\ channel # <<>>
    /\ outbox' = OutboxPush(outbox, Head(channel))
    /\ channel' = Tail(channel)
    /\ wakeAt' = mailNow + wait
    /\ fate' = [fate EXCEPT !.lost = @ \cup Dropped,
                            !.readyAt = IF HasFront THEN @ ELSE Larger(@, mailNow)]
    /\ UNCHANGED <<mailNow, client, wait, sending, relay>>

SendBegin ==
    /\ sending = Never /\ channel = <<>>
    /\ HasFront /\ mailNow >= wakeAt
    /\ sending' = mailNow
    /\ UNCHANGED <<mailNow, client, channel, outbox, wait, wakeAt, relay, fate>>

\* The relay takes the message and answers, refuses it for good, or fails: a connection lost
\* after the relay took the message is a temporary failure too.
SendEnd ==
    /\ sending # Never
    /\ \E result \in {"sent", "temporary", "permanent"}, took \in BOOLEAN :
          /\ result = "sent" => took
          /\ result = "permanent" => ~took
          /\ relay' = IF took THEN Append(relay, Head(outbox.queue).seq) ELSE relay
          /\ outbox' = OutboxAfter(outbox, result)
          /\ wait' = WaitAfter(outbox, result)
          /\ wakeAt' = mailNow + wait'
          /\ fate' = [fate EXCEPT !.lost = @ \cup Dropped, !.readyAt = wakeAt']
    /\ sending' = Never
    /\ UNCHANGED <<mailNow, client, channel>>

\* The hourly warning takes the count of dropped reports.
LogDropped ==
    /\ sending = Never
    /\ outbox.dropped > 0
    /\ outbox' = [outbox EXCEPT !.dropped = 0]
    /\ fate' = [fate EXCEPT !.logged = @ + outbox.dropped]
    /\ UNCHANGED <<mailNow, client, channel, wait, wakeAt, sending, relay>>

MailClientNext ==
    \/ Gather
    \/ Receive
    \/ SendBegin
    \/ SendEnd
    \/ LogDropped

MailClientSpec == MailClientInit /\ [][MailClientNext]_mailVars

-----------------------------------------------------------------------------
MailClientTypeOK ==
    /\ mailNow \in 0..MaxMailTime /\ snapshotAt \in 0..mailNow
    /\ batch.nextSeq \in Nat \ {0}
    /\ Len(batch.samples) <= MaxSamples /\ Len(batch.alerts) <= MaxAlerts
    /\ Len(outbox.queue) <= MaxQueued
    /\ wait \in 0..MailInterval /\ outbox.backoff \in 0..MailInterval

Waiting == outbox.queue \o channel

\* Every report the client closes is one the hub takes: at least one sample and no more than
\* the cap, in order, none older than the interval plus the hub's slack, none after created_at.
ReportsFit ==
    \A i \in DOMAIN Waiting :
        LET r == Waiting[i]
        IN /\ Len(r.samples) \in 1..MaxSamples
           /\ \A k \in DOMAIN r.samples :
                 /\ r.samples[k] \in (r.createdAt - MailInterval - WindowSlack)..r.createdAt
                 /\ k > 1 => r.samples[k - 1] < r.samples[k]

\* Every incident active on a tick since the previous report is in the batch, or was in the next
\* report, unless more than MaxAlerts were: an incident whose report the pace held back, or that
\* was noted while no sample had been kept, is not forgotten.
NoIncidentForgotten ==
    Cardinality(Incidents) <= MaxAlerts =>
        /\ fate.missed = {}
        /\ fate.pending \subseteq ToSet(batch.alerts)

\* Every closed report waits, was taken by the relay, or was counted as dropped, and the relay
\* sees the reports in order: a retry is the only way it sees one twice.
NoReportVanishes ==
    /\ 1..(batch.nextSeq - 1)
          = {r.seq : r \in ToSet(Waiting)} \cup ToSet(relay) \cup fate.lost \cup fate.skipped
    /\ Cardinality(fate.lost) = outbox.dropped + fate.logged
    /\ \A i \in 2..Len(relay) : relay[i - 1] <= relay[i]
    /\ \A i \in 2..Len(Waiting) : Waiting[i - 1].seq < Waiting[i].seq

\* RFC 0017 and the delivery task's comment: the front of the outbox is sent as soon as the
\* backoff after the last attempt allows, at most a mail interval later.
SentWhenBackoffAllows ==
    HasFront /\ sending = Never /\ channel = <<>> => mailNow <= fate.readyAt

\* The mail client loses nothing it does not count and outgrows nothing: each report fits, every
\* incident is in a report or in the batch, and a dropped report is counted.
ReportsSound ==
    /\ MailClientTypeOK
    /\ ReportsFit
    /\ NoIncidentForgotten
    /\ NoReportVanishes
=============================================================================
