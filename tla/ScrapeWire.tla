----------------------------- MODULE ScrapeWire -----------------------------
(***************************************************************************)
(* A scrape round from the agent's types over its two wire shapes, the     *)
(* pushed frame and the poll response, into the hub's round, its digest,   *)
(* its points and the freshness it is shown with (RFC 0009 §6-9).  The     *)
(* hub applies every rule again: a sender is not trusted to be an agent.   *)
(***************************************************************************)
EXTENDS Naturals, Sequences, FiniteSets, SequencesExt

CONSTANTS AgentReports,     \* an honest agent's reports: reached, or unreachable
          WireReports,      \* reports any sender may put on the wire
          WireIntervals,    \* interval_secs on the wire; Missing in a poll response
          MaxApplicationsOnWire   \* MAX_APPLICATIONS

VARIABLES sent,      \* what is sent: an agent's round, or a wire round of any sender
          honest,    \* it is an agent's
          digests,   \* the digests of the rounds the hub accepted of it
          wirePoints     \* the metric names of the last accepted round's points

wireVars == <<sent, honest, digests, wirePoints>>

Missing == 0
BadJson == "bad_json"
NotFinite == "nan"
KnownGauges == {"heap", "cpu"}
ValidNames == {"a", "b"}
Healths == {"up", "down", "out_of_service", "unknown", "unreachable"}
NoVersion == "none"
MinInterval == 10
MaxInterval == 3600

Sequences2(S) == {<<>>} \cup {<<r>> : r \in S} \cup {<<r, q>> : r, q \in S}

-----------------------------------------------------------------------------
(* The agent's encodings.                                                  *)

\* ApplicationReportDto::from: an application the agent couldn't reach has neither version nor
\* gauges, and why it couldn't stays in the agent's log.
Dto(report) ==
    IF report.health = "unreachable"
    THEN [name |-> report.name, health |-> "unreachable", version |-> NoVersion, gauges |-> <<>>]
    ELSE report

\* ApplicationFrame::from, MessagePack by position; every double passes.
Frame(round) ==
    [kind |-> "applications.v1", run |-> round.run, interval |-> round.interval,
     apps |-> [i \in DOMAIN round.apps |-> Dto(round.apps[i])]]

\* ApplicationsResponse::from, JSON by name.
JsonResponse(round) ==
    [round |-> TRUE, run |-> round.run, interval |-> round.interval,
     apps |-> [i \in DOMAIN round.apps |-> Dto(round.apps[i])]]

-----------------------------------------------------------------------------
(* The hub's conversion.                                                   *)

\* Gauges::from_wire: the known, finite ones.
GaugesFromWire(gauges) ==
    LET kept == {g \in DOMAIN gauges : g \in KnownGauges /\ gauges[g] # NotFinite}
    IN  [g \in kept |-> gauges[g]]

\* ApplicationHealth::from_wire and ApplicationVersion::parse.
HealthFromWire(name) == IF name \in Healths THEN name ELSE "unknown"
VersionFromWire(version) == IF version = "blank" THEN NoVersion ELSE version

Report(dto) ==
    [name |-> dto.name, health |-> HealthFromWire(dto.health),
     version |-> VersionFromWire(dto.version), gauges |-> GaugesFromWire(dto.gauges)]

\* mutant: two reports may share a name.
RoundDuplicated(run, interval, apps) ==
    IF Len(apps) > MaxApplicationsOnWire THEN [error |-> "too_many"]
    ELSE [error |-> "none", run |-> run, interval |-> interval, apps |-> apps]

\* ScrapeRound::new.
Round(run, interval, apps) ==
    IF Len(apps) > MaxApplicationsOnWire THEN [error |-> "too_many"]
    ELSE IF \E i, j \in DOMAIN apps : i < j /\ apps[i].name = apps[j].name
    THEN [error |-> "duplicate_name"]
    ELSE [error |-> "none", run |-> run, interval |-> interval, apps |-> apps]

\* build_round: the run, the interval and the names in turn; the round is refused whole.
BuildRound(run, interval, apps) ==
    IF run = "not_uuid" THEN [error |-> "run"]
    ELSE IF interval < MinInterval \/ interval > MaxInterval THEN [error |-> "interval"]
    ELSE IF \E i \in DOMAIN apps : apps[i].name \notin ValidNames THEN [error |-> "name"]
    ELSE Round(run, interval, [i \in DOMAIN apps |-> Report(apps[i])])

\* TryFrom<ApplicationFrameDto>.
FromFrame(frame) ==
    IF frame.kind # "applications.v1" THEN [error |-> "kind"]
    ELSE BuildRound(frame.run, frame.interval, frame.apps)

FromResponseUnversioned(response) ==  \* mutant: the poll path reads no version
    IF \E i \in DOMAIN response.apps : NotFinite \in Range(response.apps[i].gauges)
    THEN [error |-> BadJson]
    ELSE IF ~response.round THEN [error |-> "no_round"]
    ELSE IF response.interval = Missing THEN [error |-> "interval"]
    ELSE BuildRound(response.run, response.interval,
                    [i \in DOMAIN response.apps |-> [response.apps[i] EXCEPT !.version = NoVersion]])

\* TryFrom<ApplicationsResponseDto>.  JSON has no NaN: serde writes null, which is no f64.
FromResponse(response) ==
    IF \E i \in DOMAIN response.apps : NotFinite \in Range(response.apps[i].gauges)
    THEN [error |-> BadJson]
    ELSE IF ~response.round THEN [error |-> "no_round"]
    ELSE IF response.interval = Missing THEN [error |-> "interval"]
    ELSE BuildRound(response.run, response.interval, response.apps)

-----------------------------------------------------------------------------
(* What the hub keeps of a round.                                          *)

\* An application's gauges in the order the hub's map iterates, each a gauge and its value.
GaugeWords(gauges) ==
    LET of(g) == IF g \in DOMAIN gauges THEN <<<<g, gauges[g]>>>> ELSE <<>>
    IN  of("heap") \o of("cpu")

DigestNoVersion(round) ==  \* mutant: the version is not hashed
    <<round.interval,
      [i \in DOMAIN round.apps |->
          <<round.apps[i].name, round.apps[i].health, GaugeWords(round.apps[i].gauges)>>]>>

\* RoundDigester::digest, as what it hashes, in order: equal words, equal digests.  Every list has
\* its length hashed and every string its end, so that the words are read one way only.
Digest(round) ==
    <<round.interval,
      [i \in DOMAIN round.apps |->
          <<round.apps[i].name, round.apps[i].health, round.apps[i].version,
            GaugeWords(round.apps[i].gauges)>>]>>

\* application_points: every gauge of every application, and whether it is up.
PointNames(round) ==
    FlattenSeq([i \in DOMAIN round.apps |->
        LET app == round.apps[i]
            of(g) == IF g \in DOMAIN app.gauges THEN <<<<app.name, g>>>> ELSE <<>>
        IN  of("heap") \o of("cpu") \o <<<<app.name, "up">>>>])

-----------------------------------------------------------------------------
AgentRounds == [run : {"uuid"}, interval : {10, 15}, apps : {s \in Sequences2(AgentReports) :
                   Len(s) = 2 => s[1].name # s[2].name}]

WireRounds == [kind : {"applications.v1", "other"}, round : BOOLEAN, run : {"uuid", "not_uuid"},
               interval : WireIntervals, apps : Sequences2(WireReports)]

WireInit ==
    /\ \/ honest = TRUE /\ sent \in AgentRounds
       \/ honest = FALSE /\ sent \in WireRounds
    /\ digests = {} /\ wirePoints = <<>>

Accept(round) ==
    IF round.error = "none"
    THEN digests' = digests \cup {Digest(round)} /\ wirePoints' = PointNames(round)
    ELSE UNCHANGED <<digests, wirePoints>>

PushArrives == Accept(FromFrame(IF honest THEN Frame(sent) ELSE sent)) /\ UNCHANGED <<sent, honest>>
PollArrives == Accept(FromResponse(IF honest THEN JsonResponse(sent) ELSE sent)) /\ UNCHANGED <<sent, honest>>

WireNext == PushArrives \/ PollArrives

-----------------------------------------------------------------------------
\* One agent's round is accepted, and is one round to the hub, whichever path it takes and
\* however often: pushed and polled it has one digest, so the second is seen as a re-send.
PathsAgree ==
    /\ Cardinality(digests) <= 1
    /\ honest => FromFrame(Frame(sent)).error = "none"
                 /\ FromResponse(JsonResponse(sent)) = FromFrame(Frame(sent))

\* Rounds of one id that differ in anything the hub keeps have different digests: an agent that
\* reuses an id never loses a round as a re-send.
DigestsTellApart ==
    honest => \A other \in AgentRounds :
        LET mine == FromFrame(Frame(sent))
            its == FromFrame(Frame(other))
        IN  Digest(mine) = Digest(its) => mine = its

\* No two points of an accepted round are of one metric, whoever sent it.
PointsDistinct == \A i, j \in DOMAIN wirePoints : i # j => wirePoints[i] # wirePoints[j]

-----------------------------------------------------------------------------
(***************************************************************************)
(* How fresh the hub shows a polled system's applications to be.  The agent  *)
(* scrapes for as long as that takes, publishes, and sleeps a full interval; *)
(* the poller asks at each tick, is answered with what is published then,    *)
(* and stores it some time later, or fails; a re-sent round keeps its        *)
(* arrival.  Events of one second come in any order, and the page may be     *)
(* read between them.                                                        *)
(***************************************************************************)

CONSTANTS ScrapeIntervals,   \* the intervals tried
          PollEvery,         \* the poller's tick: 30 s
          FreshnessSlack,    \* FRESHNESS_SLACK_SECS
          Delays,            \* the longest durations tried, of a scrape and of a poll
          MaxShownTime       \* bound

VARIABLES time, interval,
          slowest,    \* the longest a scrape takes here, and a tick's way to a stored answer
          wake,       \* when the scrape that runs began, or the next begins
          latest,     \* the round the agent serves: when it was published
          ask,        \* the poll: where it is, the first tick not answered yet, its answer
          shown       \* the round the hub shows and when it arrived

shownVars == <<time, interval, slowest, wake, latest, ask, shown>>

StaleAtSlack(received, every, now) ==  \* mutant: stale at the bound
    now >= received + 2 * every + FreshnessSlack

\* freshness: stale past two intervals and the poll tick.
Stale(received, every, now) == now > received + 2 * every + FreshnessSlack

NotPublished == MaxShownTime + 1
NoShown == [round |-> NotPublished, received |-> 0]
NoAsk == [at |-> "idle", since |-> 0, round |-> NotPublished]

\* SystemApplicationsResponse::new: nothing of an absent round; the age never below zero.
Shown ==
    IF shown = NoShown THEN [held |-> FALSE]
    ELSE [held |-> TRUE, stale |-> Stale(shown.received, interval, time),
          age |-> IF time < shown.received THEN 0 ELSE time - shown.received]

\* The poller ticks at the multiples of PollEvery; the agent starts in any second between two.
ShownInit ==
    /\ time = 0 /\ interval \in ScrapeIntervals /\ slowest \in [scrape : Delays, poll : Delays]
    /\ wake \in 0..PollEvery - 1 /\ latest = NotPublished /\ ask = NoAsk /\ shown = NoShown

\* scrape_loop: a round's scrapes are done and it replaces the one before; then a full interval's
\* sleep.
PublishRound ==
    /\ time >= wake /\ latest' = time /\ wake' = time + interval
    /\ UNCHANGED <<time, interval, slowest, ask, shown>>

\* The agent answers the poll with the round it serves, or with none.
AgentAnswers ==
    /\ ask.at = "asked" /\ ask' = [ask EXCEPT !.at = "answered", !.round = latest]
    /\ UNCHANGED <<time, interval, slowest, wake, latest, shown>>

\* store_polled_round: a round is shown from now on, unless it is shown already (a duplicate
\* changes nothing); an agent without a round has the shown one forgotten.
PollRound ==
    /\ ask.at = "answered" /\ ask' = NoAsk
    /\ shown' = CASE ask.round = NotPublished -> NoShown
                  [] ask.round = shown.round -> shown
                  [] OTHER -> [round |-> ask.round, received |-> time]
    /\ UNCHANGED <<time, interval, slowest, wake, latest>>

\* The request, its answer or its storing fails, or times out: nothing until the next tick.
PollFails ==
    /\ ask.at \in {"asked", "answered"} /\ ask' = [NoAsk EXCEPT !.at = "failed", !.since = ask.since]
    /\ UNCHANGED <<time, interval, slowest, wake, latest, shown>>

\* A second passes that neither a scrape nor the polls since the first unanswered tick exceed
\* their longest by.  A poll's two requests time out before the next tick.
Second ==
    /\ time < MaxShownTime /\ time < wake + slowest.scrape
    /\ ask.at # "idle" => time < ask.since + slowest.poll
    /\ time' = time + 1
    /\ IF time' % PollEvery = 0
       THEN /\ ask.at \in {"idle", "failed"}
            /\ ask' = [NoAsk EXCEPT !.at = "asked",
                                    !.since = IF ask.at = "failed" THEN ask.since ELSE time']
       ELSE UNCHANGED ask
    /\ UNCHANGED <<interval, slowest, wake, latest, shown>>

ShownNext == PublishRound \/ AgentAnswers \/ PollRound \/ PollFails \/ Second

\* While a scrape and a poll, failed attempts included, take an interval between them at most, the
\* applications are never shown stale, whatever the phases of scrapes, polls and answers; the
\* bound is met exactly (`freshness`, FRESHNESS_SLACK_SECS).
FreshWhileQuick ==
    slowest.scrape + slowest.poll <= interval => (Shown.held => ~Shown.stale)
=============================================================================
