----------------------------- MODULE AppScrape -----------------------------
(***************************************************************************)
(* The agent's scrape loop (RFC 0009): a round scrapes every configured     *)
(* Spring Boot application at once, health first, then info and the meters   *)
(* in flight together; stamps each scrape at its finish; folds it into its  *)
(* application's history, which turns counters into rates; mints the        *)
(* round's id and publishes it; then sleeps a full interval.  Meanwhile,    *)
(* and between two answers of one scrape too, the applications serve        *)
(* requests, restart, and count requests the agent gave up on.              *)
(*                                                                         *)
(* Of the counters, the requests (whose time and mean latency follow them), *)
(* the server errors and the uptime are modelled; the garbage collector's   *)
(* follows the server errors' rule.  A rate is kept as what it divides.     *)
(***************************************************************************)
EXTENDS Integers, FiniteSets, FiniteSetsExt

CONSTANTS
    Apps,            \* the applications
    Healths,         \* the healths a reached application reports
    Others,          \* the endpoints a scrape reads beside the meters modelled: info, gauges
    Losable,         \* the endpoints whose answer may get lost or be unreadable
    ScrapeInterval,  \* SPRING_BOOT_SCRAPE_INTERVAL
    RequestTimeout,  \* Timeouts::DEFAULT.request, of each request
    UpBefore,        \* how long the applications were up when the agent started
    MaxScrapeTime,   \* bound on the run's length
    MaxServed,       \* bound on the requests others make of one application
    MaxRestarts,     \* bound on the restarts of one application
    MaxScrapes       \* bound on the rounds

Meters == {"requests", "errors", "uptime"}
Endpoints == Meters \cup Others

ASSUME ScrapeAssumption ==
    /\ ScrapeInterval \in Nat \ {0} /\ {RequestTimeout, UpBefore} \subseteq Nat
    /\ "unreachable" \notin Healths /\ IsFiniteSet(Others) /\ Losable \subseteq Endpoints
    /\ {MaxScrapeTime, MaxServed, MaxRestarts, MaxScrapes} \subseteq Nat

NoValue == -1

VARIABLES
    scrapeNow,
    app,        \* external: what each application counted since it started
    watched,    \* each application's baseline and last health (WatchedApplication)
    raw,        \* how far the running round's scrape of each application got
    loop,       \* the scrape loop: scraping or sleeping, and the seq it minted last
    round,      \* the published round
    truth       \* for the properties only: when each meter of the baseline was read

scrapeVars == <<scrapeNow, app, watched, raw, loop, round, truth>>

-----------------------------------------------------------------------------
(* From what Actuator answered to the counters.                            *)

\* A meter is published, 404 says it is not, and anything else leaves it unavailable.
MeterOf(answer) ==
    CASE answer.status = 200 -> answer.value
      [] OTHER -> NoValue

\* mutant: a 404 is no value.
CountersAsRead(m) == [c \in Meters |-> MeterOf(m[c])]

\* A 404 for the errors while requests are published means none happened yet.
CountersOf(m) ==
    [requests |-> MeterOf(m.requests),
     errors |-> IF m.errors.status = 404 /\ MeterOf(m.requests) # NoValue THEN 0
                ELSE MeterOf(m.errors),
     uptime |-> MeterOf(m.uptime)]

\* mutant: only the request counter tells a restart.
ResetByRequests(prev, next) ==
    prev.requests # NoValue /\ next.requests # NoValue /\ next.requests < prev.requests

\* The application restarted: some counter read both times went down.
ResetBefore(prev, next) ==
    \E c \in Meters :
        prev[c] # NoValue /\ next[c] # NoValue /\ next[c] < prev[c]

\* Per second between two samples, as what it divides; absent without both, on a reset, and
\* when no time passed.
NoRate == [delta |-> NoValue, elapsed |-> 0]
Rate(prev, curr, elapsed) ==
    IF prev = NoValue \/ curr = NoValue \/ curr < prev \/ elapsed <= 0 THEN NoRate
    ELSE [delta |-> curr - prev, elapsed |-> elapsed]

NetOfNothing(base, counters) == counters.requests  \* mutant

\* The agent's own requests of the previous scrape are in this delta.
NetRequests(base, counters) ==
    IF base.counters.requests = NoValue \/ counters.requests = NoValue THEN NoValue
    ELSE Max({counters.requests - base.own, base.counters.requests})

NoRates == [requests |-> NoRate, errors |-> NoRate, latency |-> FALSE]

RatesTo(base, counters, at) ==
    [requests |-> Rate(base.counters.requests, NetRequests(base, counters), at - base.at),
     errors |-> Rate(base.counters.errors, counters.errors, at - base.at),
     latency |-> /\ base.counters.requests # NoValue /\ counters.requests # NoValue
                 /\ counters.requests > base.counters.requests]

NoBaseline == [at |-> NoValue]

\* mutant: an unreachable application keeps its baseline.
AdvanceKeeping(base, scrape) ==
    IF scrape.health = "unreachable"
    THEN [base |-> base, rates |-> NoRates]
    ELSE LET counters == CountersOf(scrape.meters)
         IN [base |-> [at |-> scrape.at, counters |-> counters, own |-> scrape.own],
             rates |-> IF base = NoBaseline \/ ResetBefore(base.counters, counters) THEN NoRates
                       ELSE RatesTo(base, counters, scrape.at)]

\* ScrapeHistory::advance: the report, and the history the next scrape starts from.
AdvanceHistory(base, scrape) ==
    IF scrape.health = "unreachable"
    THEN [base |-> NoBaseline, rates |-> NoRates]
    ELSE LET counters == CountersOf(scrape.meters)
         IN [base |-> [at |-> scrape.at, counters |-> counters, own |-> scrape.own],
             rates |-> IF base = NoBaseline \/ ResetBefore(base.counters, counters) THEN NoRates
                       ELSE RatesTo(base, counters, scrape.at)]

\* Only reachability is worth a log line.
HealthChange(previous, current) ==
    CASE previous # "unreachable" /\ current = "unreachable" -> "became_unreachable"
      [] previous = "unreachable" /\ current # "unreachable" -> "recovered"
      [] OTHER -> "none"

-----------------------------------------------------------------------------
NotScraped == [phase |-> "idle", health |-> "none"]
Counted(m) == [status |-> 200, value |-> m]
Absent == [status |-> 404, value |-> NoValue]
Broken == [status |-> 0, value |-> NoValue]
Pending == [status |-> 1, value |-> NoValue]

NoMoment == [at |-> NoValue]

ScrapeInit ==
    /\ scrapeNow = 0
    /\ app = [a \in Apps |-> [since |-> -UpBefore, requests |-> 0, errors |-> 0, stray |-> 0,
                              served |-> 0, strayed |-> 0, restarts |-> 0]]
    /\ watched = [a \in Apps |-> [base |-> NoBaseline, health |-> "none", change |-> "none"]]
    /\ raw = [a \in Apps |-> NotScraped]
    /\ loop = [phase |-> "sleeping", wakeAt |-> 0, minted |-> 0, begun |-> 0]
    /\ round = [seq |-> 0, at |-> NoValue, rates |-> [a \in Apps |-> NoRates]]
    /\ truth = [a \in Apps |-> [m \in Meters |-> NoMoment]]

Scraping == loop.phase = "scraping"
InFlight(a) == raw[a].phase \in {"health", "rest"}

\* A request is answered or given up by its timeout, and neither a due round nor the fold of a
\* round whose scrapes are all in waits.
ScrapeClock ==
    /\ scrapeNow < MaxScrapeTime
    /\ IF Scraping
       THEN /\ \E a \in Apps : InFlight(a)
            /\ \A a \in Apps : InFlight(a) => scrapeNow < raw[a].by
       ELSE scrapeNow < loop.wakeAt
    /\ scrapeNow' = scrapeNow + 1
    /\ UNCHANGED <<app, watched, raw, loop, round, truth>>

\* External: someone else's request, which may end in a server error.
AppServes(a) ==
    /\ app[a].served < MaxServed
    /\ \E error \in {0, 1} :
          app' = [app EXCEPT ![a].requests = @ + 1, ![a].served = @ + 1,
                             ![a].errors = @ + error]
    /\ UNCHANGED <<scrapeNow, watched, raw, loop, round, truth>>

\* External: the application counts a request the agent gave up on.
AppCountsStray(a) ==
    /\ app[a].stray > 0
    /\ app' = [app EXCEPT ![a].requests = @ + 1, ![a].strayed = @ + 1, ![a].stray = @ - 1]
    /\ UNCHANGED <<scrapeNow, watched, raw, loop, round, truth>>

\* External: a restart, at any moment of a scrape too.
AppRestarts(a) ==
    /\ app[a].restarts < MaxRestarts
    /\ app' = [app EXCEPT ![a].requests = 0, ![a].errors = 0, ![a].stray = 0,
                          ![a].since = scrapeNow, ![a].restarts = @ + 1]
    /\ UNCHANGED <<scrapeNow, watched, raw, loop, round, truth>>

\* Every application's health is asked for at once.
RoundBegins ==
    /\ ~Scraping /\ scrapeNow >= loop.wakeAt
    /\ loop' = [loop EXCEPT !.phase = "scraping", !.begun = scrapeNow]
    /\ raw' = [a \in Apps |-> [phase |-> "health", health |-> "none",
                               by |-> scrapeNow + RequestTimeout]]
    /\ UNCHANGED <<scrapeNow, app, watched, round, truth>>

\* The health request gets no answer that can be read, and nothing else is asked; the
\* application may count it all the same, now or later.
ScrapeFails(a) ==
    /\ raw[a].phase = "health"
    /\ raw' = [raw EXCEPT ![a] = [phase |-> "done", health |-> "unreachable", at |-> scrapeNow]]
    /\ app' = [app EXCEPT ![a].stray = @ + 1]
    /\ UNCHANGED <<scrapeNow, watched, loop, round, truth>>

\* Health answered, up or down, and counted; then everything else is in flight at once.
HealthAnswers(a) ==
    /\ raw[a].phase = "health"
    /\ \E health \in Healths :
          raw' = [raw EXCEPT ![a] =
             [phase |-> "rest", health |-> health, by |-> scrapeNow + RequestTimeout, own |-> 1,
              meters |-> [e \in Endpoints |-> Pending],
              seen |-> [m \in Meters |-> NoMoment]]]
    /\ app' = [app EXCEPT ![a].requests = @ + 1]
    /\ UNCHANGED <<scrapeNow, watched, loop, round, truth>>

\* What Actuator says of an endpoint now: a meter that counted nothing yet is a 404.
ActuatorSays(a, e) ==
    LET published(n) == IF n = 0 THEN Absent ELSE Counted(n)
    IN CASE e = "requests" -> published(app[a].requests)
         [] e = "errors" -> published(app[a].errors)
         [] e = "uptime" -> Counted(scrapeNow - app[a].since)
         [] OTHER -> Counted(0)

Asked(a, e) == raw[a].phase = "rest" /\ raw[a].meters[e] = Pending

\* For the properties: the moment a meter is read.
Moment(a, m) ==
    CASE m = "requests" -> [at |-> scrapeNow, restarts |-> app[a].restarts,
                            served |-> app[a].served, strayed |-> app[a].strayed]
      [] m = "uptime" -> [at |-> scrapeNow, restarts |-> app[a].restarts]
      [] m = "errors" -> [count |-> app[a].errors, restarts |-> app[a].restarts]

\* One of the requests in flight is answered, and counted by then; its body may be too long or
\* say nothing.
EndpointAnswers(a, e) ==
    /\ Asked(a, e)
    /\ \E answer \in {ActuatorSays(a, e)} \cup (IF e \in Losable THEN {Broken} ELSE {}) :
          raw' = [raw EXCEPT ![a].own = @ + 1, ![a].meters[e] = answer,
                             ![a].seen = [m \in Meters |-> IF m = e /\ answer # Broken
                                                           THEN Moment(a, m) ELSE @[m]]]
    /\ app' = [app EXCEPT ![a].requests = @ + 1]
    /\ UNCHANGED <<scrapeNow, watched, loop, round, truth>>

\* One of them gets no answer: the agent does not count it, the application may, now or later.
EndpointLost(a, e) ==
    /\ Asked(a, e) /\ e \in Losable
    /\ raw' = [raw EXCEPT ![a].meters[e] = Broken]
    /\ app' = [app EXCEPT ![a].stray = @ + 1]
    /\ UNCHANGED <<scrapeNow, watched, loop, round, truth>>

\* The last answer reached the agent: the scrape is stamped.
ScrapeFinishes(a) ==
    /\ raw[a].phase = "rest" /\ \A e \in Endpoints : ~Asked(a, e)
    /\ raw' = [raw EXCEPT ![a] = [phase |-> "done", health |-> @.health, at |-> scrapeNow,
                                  own |-> @.own, meters |-> @.meters, seen |-> @.seen]]
    /\ UNCHANGED <<scrapeNow, app, watched, loop, round, truth>>

Folded(a) == AdvanceHistory(watched[a].base, raw[a])

NextRoundFromBegin(begun) == begun + ScrapeInterval  \* mutant

\* The sleep follows the publication.
NextRoundAt(begun) == scrapeNow + ScrapeInterval

\* Every scrape is in: each is folded at its own finish, the round minted and published, and
\* the loop sleeps a full interval from here.
RoundEnds ==
    /\ Scraping /\ \A a \in Apps : raw[a].phase = "done"
    /\ watched' = [a \in Apps |-> [base |-> Folded(a).base, health |-> raw[a].health,
                                   change |-> HealthChange(watched[a].health, raw[a].health)]]
    /\ round' = [seq |-> loop.minted + 1, at |-> scrapeNow,
                 rates |-> [a \in Apps |-> Folded(a).rates]]
    /\ loop' = [phase |-> "sleeping", wakeAt |-> NextRoundAt(loop.begun), begun |-> 0,
                minted |-> loop.minted + 1]
    /\ raw' = [a \in Apps |-> NotScraped]
    /\ truth' = [a \in Apps |->
          IF raw[a].health = "unreachable" THEN truth[a] ELSE raw[a].seen]
    /\ UNCHANGED <<scrapeNow, app>>

AppNext(a) == AppServes(a) \/ AppCountsStray(a) \/ AppRestarts(a)

ScrapeNext ==
    /\ loop.minted < MaxScrapes
    /\ \/ ScrapeClock
       \/ \E a \in Apps : AppNext(a) \/ ScrapeFails(a) \/ HealthAnswers(a) \/ ScrapeFinishes(a)
       \/ \E a \in Apps, e \in Endpoints : EndpointAnswers(a, e) \/ EndpointLost(a, e)
       \/ RoundBegins \/ RoundEnds

ScrapeSpec == ScrapeInit /\ [][ScrapeNext]_scrapeVars

-----------------------------------------------------------------------------
ScrapeTypeOK ==
    /\ scrapeNow \in 0..MaxScrapeTime
    /\ \A a \in Apps :
          /\ raw[a].phase \in {"idle", "health", "rest", "done"}
          /\ Scraping <=> raw[a].phase # "idle"
          /\ watched[a].health \in {"none", "unreachable"} \cup Healths
          /\ watched[a].health \in {"none", "unreachable"} <=> watched[a].base = NoBaseline
    /\ loop.phase \in {"scraping", "sleeping"} /\ round.seq = loop.minted

RatePublished(a) == round'.seq # round.seq /\ round'.rates[a].requests # NoRate

\* Between the moments the baseline and the folded scrape read a meter.
Elapsed(a, m) == truth'[a][m].at - truth[a][m].at
SameRun(a, m) == truth'[a][m].restarts = truth[a][m].restarts

\* The request rate is what the application served to others between the two reads of the
\* requests meter: a scrape's own requests do not show up as load, but for those answered before
\* that read in one scrape and after it in the other, and for those the agent gave up on and the
\* application counted.  The exception is a restart that no counter told of.
RatesCountOthers ==
    \A a \in Apps :
       RatePublished(a) /\ SameRun(a, "requests") =>
         LET served == truth'[a].requests.served - truth[a].requests.served
             strayed == truth'[a].requests.strayed - truth[a].requests.strayed
             shown == round'.rates[a].requests.delta
             jitter == Cardinality(Endpoints) - 1
         IN /\ shown >= 0
            /\ served + strayed - jitter <= shown /\ shown <= served + strayed + jitter

\* The time a rate divides by is taken at the scrapes' finishes, and no further from the time
\* between the two reads than one request may last.
RatesDivideByElapsed ==
    \A a \in Apps :
       RatePublished(a) =>
          /\ round'.rates[a].requests.elapsed - Elapsed(a, "requests") <= RequestTimeout
          /\ Elapsed(a, "requests") - round'.rates[a].requests.elapsed <= RequestTimeout

\* An application that at the baseline had been up for longer than the time between two reads of
\* its uptime, and restarted between them, shows no rate: its uptime gives it away whatever its
\* counters reached by then.
NoRateAcrossRestart ==
    \A a \in Apps :
       /\ round'.seq # round.seq
       /\ raw[a].health \in Healths /\ watched[a].base # NoBaseline
       /\ watched[a].base.counters.uptime # NoValue /\ raw[a].meters.uptime.status = 200
       /\ ~SameRun(a, "uptime")
       /\ watched[a].base.counters.uptime > Elapsed(a, "uptime")
       => round'.rates[a] = NoRates

\* The first server errors of an application that published none before show as a rate, unless a
\* restart came in between.
FirstErrorsShow ==
    \A a \in Apps :
       /\ RatePublished(a) /\ NoMoment \notin {truth[a].errors, truth'[a].errors}
       /\ SameRun(a, "errors") /\ truth[a].errors.count = 0 /\ truth'[a].errors.count > 0
       => round'.rates[a].errors.delta = truth'[a].errors.count

\* Two publications are at least one interval apart, however long a round took.
RoundsSpaced ==
    round'.seq # round.seq /\ round.at # NoValue
      => round'.seq = round.seq + 1 /\ round'.at - round.at >= ScrapeInterval

\* Rates say what happened: the others' requests between two reads, over the time between them,
\* none across a restart, the first errors too, from rounds at least an interval apart.
RatesSound ==
    [][/\ ScrapeTypeOK'
       /\ RatesCountOthers
       /\ RatesDivideByElapsed
       /\ NoRateAcrossRestart
       /\ FirstErrorsShow
       /\ RoundsSpaced]_scrapeVars
=============================================================================
