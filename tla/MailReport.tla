----------------------------- MODULE MailReport -----------------------------
(***************************************************************************)
(* One mail report from end to end: the agent closes its samples and alerts  *)
(* into a report, encodes, seals and armours it; the mail carries the text,  *)
(* with what mail systems and people do to one; the hub finds the armour,    *)
(* opens the seal and parses the report.                                     *)
(*                                                                         *)
(* Sealed bytes are the fields of their header, the nonce and a ciphertext   *)
(* that opens only under the key, nonce and associated data it was made with *)
(* (XChaCha20-Poly1305, external).  A text is its lines: the armour's marks, *)
(* parts of a sealed report, and others.  A character is its width in bytes. *)
(***************************************************************************)
EXTENDS Integers, Sequences, FiniteSetsExt, SequencesExt

CONSTANTS
    AgentIds,         \* the agents' ids, as the characters they are
    MasterKeys,       \* the hub's mail key, and another's
    ReportIntervals,  \* MAIL_INTERVAL: one an agent takes, and what a report may state
    SampleEvery,      \* MAIL_SAMPLE_INTERVAL
    IntervalRange,    \* 60 s to a day
    SlackBefore,      \* SAMPLE_SLACK_BEFORE
    SlackAfter,       \* SAMPLE_SLACK_AFTER
    MailedSamples,    \* MAX_SAMPLES and MAX_MAILED_SNAPSHOTS
    MailedAlerts,     \* MAX_ALERTS and MAX_MAILED_ALERTS
    MessageBytes,     \* MAX_ALERT_MESSAGE_BYTES and MAX_MESSAGE_BYTES
    AlertLists,       \* the messages of the alerts a batch may have noted
    MaxIdBytes,       \* MAX_SYSTEM_ID_BYTES
    DotIds,           \* `.` and `..`
    WallStart,        \* the wall clock at the agent's start
    MaxReportTime,    \* bound on the run's length
    MaxClockSteps     \* bound on the steps of its clock

ASSUME MailReportAssumption ==
    /\ SampleEvery \in Nat \ {0} /\ {SlackBefore, SlackAfter} \subseteq Nat
    /\ \A l \in AlertLists : Len(l) <= MailedAlerts
    \* A sample taken after a step back the hub allows for is still later than the one before.
    /\ SlackAfter <= SampleEvery
    /\ AgentIds \cap DotIds = {}
    /\ IntervalRange \subseteq Nat /\ ReportIntervals \subseteq Nat
    /\ {MailedSamples, MailedAlerts, MessageBytes, MaxIdBytes} \subseteq Nat \ {0}

VARIABLES
    elapsed,    \* the agent's monotonic clock
    wallClock,  \* its wall clock
    kept,       \* the samples kept: their wall times, and the monotonic time of each
    mailText,   \* the message's lines, once there is one
    composed,   \* the report the agent composed, and what it set out with
    received    \* what the hub made of the message

reportVars == <<elapsed, wallClock, kept, mailText, composed, received>>

-----------------------------------------------------------------------------
(* The agent's report.                                                     *)

Width(text) == FoldSeq(LAMBDA w, sum : w + sum, 0, text)

\* mutant: a message is cut after the character that passes the bound.
CutToLong(text, max) ==
    SubSeq(text, 1, Min({n \in 0..Len(text) : n = Len(text) \/ Width(SubSeq(text, 1, n)) >= max}))

\* The longest prefix that fits and ends on a character boundary.
CutTo(text, max) ==
    SubSeq(text, 1, Max({n \in 0..Len(text) : Width(SubSeq(text, 1, n)) <= max}))

\* A sample on the wire: only the newest carries the system's info.
Of(sample, newest, first) == [at |-> sample, info |-> newest]

MailedAlert(alert) == [id |-> alert.id, message |-> CutTo(alert.message, MessageBytes)]

\* The report's wire form, a map by name; the round is ScrapeWire's.
EncodeReport(report) ==
    [kind |-> "mail-report.v1", run |-> "uuid", seq |-> report.seq, createdAt |-> report.createdAt,
     interval |-> report.interval,
     snapshots |-> [i \in DOMAIN report.samples |->
                       Of(report.samples[i], i = Len(report.samples), i = 1)],
     alerts |-> [i \in DOMAIN report.alerts |-> MailedAlert(report.alerts[i])]]

-----------------------------------------------------------------------------
(* The seal.                                                               *)

Header(id) == [magic |-> TRUE, version |-> 1, idLen |-> Len(id), id |-> id]

\* A system's key, by HKDF (external): no two ids share one.
Derive(master, id) == [master |-> master, id |-> id]

Seal(id, key, plain) ==
    [header |-> Header(id), whole |-> TRUE,
     cipher |-> [key |-> key, nonce |-> "n", aad |-> Header(id), plain |-> plain], nonce |-> "n"]

Begin == [mark |-> "begin"]
End == [mark |-> "end"]
Part(sealed, n) == [mark |-> "part", of |-> sealed, n |-> n]
Noise == [mark |-> "noise"]

\* The armour: its lines between two marks.
Armour(sealed) == <<Begin, Part(sealed, 1), Part(sealed, 2), End>>

\* A report's message: encoded, sealed under the system's key and armoured.
SealedMessage(id, key, report) == Armour(Seal(id, key, EncodeReport(report)))

RefusedMail(why) == [refusal |-> why]

FirstAfter(text, i, line) == {j \in (i + 1)..Len(text) : text[j] = line}

\* The first block's lines, whatever is around it; they must be base64.
Dearmour(text) ==
    LET begins == FirstAfter(text, 0, Begin)
        b == Min(begins)
        ends == FirstAfter(text, b, End)
        body == SubSeq(text, b + 1, Min(ends) - 1)
    IN CASE begins = {} -> RefusedMail("BadArmor")
         [] begins # {} /\ ends = {} -> RefusedMail("BadArmor")
         [] OTHER -> IF \E j \in DOMAIN body : body[j].mark # "part" THEN RefusedMail("BadArmor")
                     ELSE [sealed |-> body]

\* The bytes the lines decode to: a sealed report whole, or one cut short.
SealedBytes(body) ==
    [body[1].of EXCEPT !.whole = Len(body) = 2 /\ body[2] = Part(body[1].of, 2)]

\* A system id is one URL path segment: not empty, too long, `.` or `..`.
ValidSystemId(id) == Len(id) \in 1..MaxIdBytes /\ id \notin DotIds

\* The header is split, and the id parsed, before a key is derived.
ParseSealed(body) ==
    LET sealed == SealedBytes(body)
        h == sealed.header
        id == SubSeq(h.id, 1, h.idLen)
    IN CASE body = <<>> -> RefusedMail("BadHeader")
         [] body # <<>> /\ ~h.magic -> RefusedMail("BadHeader")
         [] body # <<>> /\ h.magic /\ h.version # 1 -> RefusedMail("UnknownVersion")
         [] OTHER -> IF h.idLen > Len(h.id) THEN RefusedMail("BadHeader")
                     ELSE IF ~ValidSystemId(id) THEN RefusedMail("InvalidSystemId")
                     ELSE [id |-> id, header |-> h, nonce |-> sealed.nonce,
                           cipher |-> sealed.cipher, whole |-> sealed.whole]

\* mutant: the header is not authenticated.
OpensUnbound(p, key) == p.whole /\ p.cipher.key = key /\ p.cipher.nonce = p.nonce

\* The tag verifies: the bytes, the key, the nonce and the associated data are the seal's.
Opens(p, key) ==
    /\ p.whole
    /\ p.cipher.key = key /\ p.cipher.nonce = p.nonce /\ p.cipher.aad = p.header

Open(text, master) ==
    LET body == Dearmour(text)
        p == ParseSealed(body.sealed)
    IN CASE "refusal" \in DOMAIN body -> body
         [] "refusal" \notin DOMAIN body /\ "refusal" \in DOMAIN p -> p
         [] OTHER -> IF Opens(p, Derive(master, p.id)) THEN [id |-> p.id, plain |-> p.cipher.plain]
                     ELSE RefusedMail("NotAuthentic")

-----------------------------------------------------------------------------
(* The hub's parse.                                                        *)

\* Mail batches are not exact, and a clock may be stepped back before the close.
InBounds(dto) ==
    \A i \in DOMAIN dto.snapshots :
        dto.snapshots[i].at \in Max({0, dto.createdAt - dto.interval - SlackBefore})
                                ..(dto.createdAt + SlackAfter)

SamplesOrdered(dto) ==
    \A i \in DOMAIN dto.snapshots : i > 1 => dto.snapshots[i - 1].at <= dto.snapshots[i].at

SampleRefusal(dto) ==
    IF dto.snapshots = <<>> THEN "NoSnapshots"
    ELSE IF Len(dto.snapshots) > MailedSamples THEN "TooManySnapshots"
    ELSE IF InBounds(dto) /\ SamplesOrdered(dto) THEN "none" ELSE "SampleOutOfBounds"

AlertFits(alert) == Width(alert.message) <= MessageBytes

\* A parsed report, under the id of its run and sequence.
Parsed(dto) == [id |-> [run |-> dto.run, seq |-> dto.seq], createdAt |-> dto.createdAt,
                interval |-> dto.interval, snapshots |-> dto.snapshots, alerts |-> dto.alerts]

\* The report's bounds, in the order they are checked.
DecodeReport(dto) ==
    CASE dto.kind # "mail-report.v1" -> RefusedMail("UnknownKind")
      [] dto.kind = "mail-report.v1" /\ dto.run # "uuid" -> RefusedMail("BadRun")
      [] OTHER ->
         IF dto.interval \notin IntervalRange THEN RefusedMail("IntervalOutOfRange")
         ELSE IF SampleRefusal(dto) # "none" THEN RefusedMail(SampleRefusal(dto))
         ELSE IF Len(dto.alerts) > MailedAlerts THEN RefusedMail("TooManyAlerts")
         ELSE IF \E i \in DOMAIN dto.alerts : ~AlertFits(dto.alerts[i])
         THEN RefusedMail("FieldTooLong")
         ELSE [report |-> Parsed(dto)]

-----------------------------------------------------------------------------
NoReport == [id |-> <<>>]
Nobody == [outcome |-> "none"]

ReportInit ==
    /\ elapsed = 0 /\ wallClock = WallStart
    /\ kept = <<>> /\ mailText = <<>>
    /\ composed = NoReport
    /\ received = Nobody

ReportClock ==
    /\ elapsed < MaxReportTime /\ composed = NoReport
    /\ elapsed' = elapsed + 1 /\ wallClock' = wallClock + 1
    /\ UNCHANGED <<kept, mailText, composed, received>>

\* External: the wall clock is stepped back.
StepBack ==
    /\ composed = NoReport /\ elapsed + WallStart - wallClock < MaxClockSteps
    /\ wallClock > 0
    /\ wallClock' = wallClock - 1
    /\ UNCHANGED <<elapsed, kept, mailText, composed, received>>

\* A sample is kept once an interval has passed since the last; past the bound the oldest goes.
KeepSample ==
    /\ composed = NoReport
    /\ kept # <<>> => elapsed - Last(kept).mono >= SampleEvery
    /\ LET sample == [mono |-> elapsed, wall |-> wallClock]
       IN kept' = IF Len(kept) = MailedSamples THEN Append(Tail(kept), sample) ELSE Append(kept, sample)
    /\ UNCHANGED <<elapsed, wallClock, mailText, composed, received>>

\* The report an agent closes, its samples and the alerts it noted, sealed under its key.
SealReport ==
    /\ composed = NoReport /\ kept # <<>>
    /\ \E id \in AgentIds, interval \in ReportIntervals \cap IntervalRange,
          messages \in AlertLists :
          LET report == [seq |-> 1, createdAt |-> wallClock, interval |-> interval,
                         samples |-> [i \in DOMAIN kept |-> kept[i].wall],
                         alerts |-> [i \in DOMAIN messages |-> [id |-> i, message |-> messages[i]]]]
              key == Derive(CHOOSE m \in MasterKeys : TRUE, id)
          IN /\ composed' = [id |-> id, report |-> report, sealed |-> Seal(id, key, EncodeReport(report)),
                             intact |-> TRUE,
                             since |-> kept[1].mono]
             /\ mailText' = SealedMessage(id, key, report)
    /\ UNCHANGED <<elapsed, wallClock, kept, received>>

\* External: what mail does to a text that leaves the report whole: words around it, or the same
\* report again below it.
Relay ==
    /\ composed # NoReport /\ received = Nobody /\ Len(mailText) < 6
    /\ mailText' \in {<<Noise>> \o mailText, mailText \o <<Noise>>, mailText \o Armour(composed.sealed)}
    /\ UNCHANGED <<elapsed, wallClock, kept, composed, received>>

\* The header another agent's report, or another version's, would have.
OtherHeaders == {Header(id) : id \in AgentIds}
                    \cup {[Header(id) EXCEPT !.version = 2] : id \in AgentIds}
                    \cup {[Header(id) EXCEPT !.idLen = @ - 1] : id \in AgentIds}
                    \cup {[Header(id) EXCEPT !.idLen = @ + 1] : id \in AgentIds}

\* External: a line lost, replaced or repeated, or the seal moved under another header.
Garble ==
    /\ composed # NoReport /\ received = Nobody /\ composed.intact /\ Len(mailText) = 4
    /\ composed' = [composed EXCEPT !.intact = FALSE]
    /\ \/ \E i \in DOMAIN mailText : mailText' \in {RemoveAt(mailText, i), [mailText EXCEPT ![i] = Noise]}
       \/ mailText' = ReplaceAt(mailText, 3, mailText[2])
       \/ \E h \in OtherHeaders \ {composed.sealed.header} :
             mailText' = Armour([composed.sealed EXCEPT !.header = h])
    /\ UNCHANGED <<elapsed, wallClock, kept, received>>

\* The hub reads the message, under its key or after it was changed.
Receive ==
    /\ composed # NoReport /\ received = Nobody
    /\ \E master \in MasterKeys :
          LET opened == Open(mailText, master)
              decoded == DecodeReport(opened.plain)
          IN received' = CASE "refusal" \in DOMAIN opened ->
                                [outcome |-> "refused", why |-> opened.refusal, master |-> master]
                           [] "refusal" \notin DOMAIN opened /\ "refusal" \in DOMAIN decoded ->
                                [outcome |-> "bad_report", why |-> decoded.refusal, master |-> master,
                                 id |-> opened.id]
                           [] OTHER -> [outcome |-> "accepted", master |-> master, id |-> opened.id,
                                        report |-> decoded.report]
    /\ UNCHANGED <<elapsed, wallClock, kept, mailText, composed>>

ReportNext == ReportClock \/ StepBack \/ KeepSample \/ SealReport \/ Relay \/ Garble \/ Receive

ReportSpec == ReportInit /\ [][ReportNext]_reportVars

-----------------------------------------------------------------------------
(* Properties.                                                             *)

SteppedBack == elapsed + WallStart - wallClock

\* A report that arrives whole, whatever mail put around it, is accepted under the hub's own key
\* and reads as the agent closed it: its samples in order with the info on the newest, and every
\* alert's message as much of it as fits.  It takes a clock stepped back further than the hub
\* allows for, or a batch older than the interval and its slack, to lose one.
MailReadsBack ==
    LET r == composed.report
    IN /\ received # Nobody /\ composed.intact
       /\ received.master = CHOOSE m \in MasterKeys : TRUE
       /\ SteppedBack <= SlackAfter
       /\ elapsed - composed.since <= r.interval + SlackBefore
       => /\ received.outcome = "accepted" /\ received.id = composed.id
          /\ received.report.createdAt = r.createdAt
          /\ [i \in DOMAIN received.report.snapshots |-> received.report.snapshots[i].at] = r.samples
          /\ \A i \in DOMAIN r.samples : received.report.snapshots[i].info <=> i = Len(r.samples)
          /\ \A i \in DOMAIN r.alerts :
                LET cut == received.report.alerts[i].message
                    whole == r.alerts[i].message
                IN /\ IsPrefix(cut, whole) /\ Width(cut) <= MessageBytes
                   /\ cut # whole => Width(SubSeq(whole, 1, Len(cut) + 1)) > MessageBytes

\* What the hub takes as a system's own is what that system sealed: no line lost or repeated, no
\* header or key of another makes a report that opens, and none opens as a refused one's.
OnlyAuthentic ==
    received # Nobody /\ received.outcome \in {"accepted", "bad_report"} =>
       /\ received.id = composed.id
       /\ received.master = CHOOSE m \in MasterKeys : TRUE
       /\ received.outcome = "accepted" => received.report = Parsed(EncodeReport(composed.report))
       /\ composed.intact \/ SealedBytes(Dearmour(mailText).sealed) = composed.sealed

\* A sealed report opens at the hub as what was batched, and nothing else opens.
ReportsAuthentic == MailReadsBack /\ OnlyAuthentic
=============================================================================
