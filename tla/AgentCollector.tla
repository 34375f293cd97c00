--------------------------- MODULE AgentCollector ---------------------------
(***************************************************************************)
(* The agent's background collector: every COLLECT_PERIOD a blocking read  *)
(* of the system, whose groups come from the monitored cgroup, the kernel, *)
(* or a carried value; the alert rules evaluated on it; the snapshot every *)
(* reader shares.  A read may hang or panic, a rebuilt sampler may panic    *)
(* again, the wall clock may step, and the rule set may be replaced.       *)
(*                                                                         *)
(* One unit of `mono` is PRIMING (1 s).  A metric's value is a level, which *)
(* the rules compare with their thresholds.                                *)
(***************************************************************************)
EXTENDS Integers, FiniteSets, Sequences, FiniteSetsExt

CONSTANTS
    Groups,        \* the reading groups sourced from the cgroup: cpu, memory, swap
    Cpu,           \* the group measured between two readings of its counters
    Plain, Loads,  \* the metrics every tick measures: the disks, and of them the load averages
    Cores,         \* the logical cores: the threshold of a load rule that names none
    Levels,        \* the values a metric can have
    NaN,           \* the kernel's CPU usage on a host that lists no CPU
    RuleSets,      \* the rule sets: sequences of rules
    Period,        \* COLLECT_PERIOD
    Priming,       \* PRIMING
    CarryBound,    \* CARRY_BOUND
    MaxMono,       \* bound on the run's length
    MaxSteps,      \* bound on the clock steps
    StepSizes,     \* how far the wall clock steps, back or forward
    MaxReplacements, \* bound on the rule sets posted
    MaxPanics      \* bound on the panics

Metrics == Groups \cup Plain

ASSUME CollectorAssumption ==
    /\ Period \in Nat \ {0} /\ Priming \in 0..Period
    /\ {CarryBound, MaxMono, MaxSteps} \subseteq Nat
    /\ Groups \cap Plain = {} /\ Loads \subseteq Plain /\ Cpu \in Groups /\ NaN \notin Levels
    /\ RuleSets \subseteq Seq([metric : Metrics, operator : {"gt", "gte", "lt", "lte"},
                              threshold : Int, duration : Nat, cooldown : Nat, enabled : BOOLEAN])
    /\ StepSizes \subseteq Nat
    /\ \E largest \in StepSizes : \A size \in StepSizes : size <= largest

VARIABLES
    mono, wall,    \* the monotonic and the system clock
    slot,          \* "ready", "reading" (a read runs off the runtime) or "broken"
    begun,         \* the running read's read_at and collected_at (and how often the clock
                   \* had stepped)
    nextTick,      \* when the collector's interval fires next
    primedAt,      \* when the sampler's priming reading ended
    prevCpu,       \* whether the sampler holds CPU counters of an earlier reading
    history,       \* each group's lineage and carry (SourcingHistory)
    published,     \* the published snapshot
    rules, states, \* the alert manager's rules and their states
    minted,        \* the incident sequence
    active,        \* the active alerts, as <<rule index, incident id>>
    panics, steps, \* how often a source panicked, and the clock stepped
    seen           \* for the properties only: the groups read from the cgroup, the incidents'
                   \* rules, and when each rule's breach, its wait on this clock, and its last
                   \* notification began

manager == <<rules, states, minted, active>>
sampler == <<slot, begun, nextTick, primedAt, prevCpu>>
colVars == <<mono, wall, sampler, history, published, manager, panics, steps, seen>>

-----------------------------------------------------------------------------
(* Choosing a reading: the group's cgroup attempt against its lineage.     *)

Untouched == [lineage |-> "untouched", carry |-> "none", since |-> 0]
KernelFailing == [Untouched EXCEPT !.lineage = "kernel_failing"]
CgroupRead == [lineage |-> "cgroup", carry |-> "reading", since |-> 0]

\* A failing tick of a group read from the cgroup before.
Carried(h, t) ==
    CASE h.carry = "reading" ->
            [origin |-> "carried", next |-> [h EXCEPT !.carry = "since", !.since = t]]
      [] h.carry = "since" /\ t - h.since <= CarryBound -> [origin |-> "carried", next |-> h]
      [] OTHER -> [origin |-> "unavailable",
                   next |-> [h EXCEPT !.carry = "expired", !.since = 0]]

\* mutant: a controller that went away is read from the kernel.
SourceGroupFallsBack(h, attempt, t) ==
    CASE attempt = "value" -> [origin |-> "cgroup", next |-> CgroupRead]
      [] attempt = "failed" /\ h.lineage = "cgroup" -> Carried(h, t)
      [] OTHER -> [origin |-> "kernel", next |-> h]

SourceGroup(h, attempt, t) ==
    CASE attempt = "value" -> [origin |-> "cgroup", next |-> CgroupRead]
      [] attempt # "value" /\ h.lineage = "cgroup" -> Carried(h, t)
      [] attempt = "absent" /\ h.lineage # "cgroup" -> [origin |-> "kernel", next |-> h]
      [] OTHER -> [origin |-> "kernel", next |-> KernelFailing]

\* The CPU group's files were read, but there is no earlier counter to measure from.
Attempt(g, file, hadCounters) ==
    IF file = "value" /\ g = Cpu /\ ~hadCounters THEN "failed" ELSE file

Chosen(files, t) ==
    [g \in Groups |-> SourceGroup(history[g], Attempt(g, files[g], prevCpu), t)]

-----------------------------------------------------------------------------
(* The alert manager.                                                      *)

Clear == [breach |-> "clear", since |-> 0, id |-> 0]
NeverNotified == -1
NewState == [at |-> Clear, notified |-> NeverNotified]

\* mutant: a carried value counts as a reading of this tick.
ReadingCarried(origin, level) ==
    IF origin = "unavailable" \/ level = NaN THEN "unavailable" ELSE "measured"

\* What a rule sees of a snapshot: measured on its tick, carried, or unavailable.
Reading(origin, level) ==
    CASE origin \in {"cgroup", "kernel"} -> IF level = NaN THEN "unavailable" ELSE "measured"
      [] origin = "carried" -> "carried"
      [] OTHER -> "unavailable"

Threshold(rule) ==
    IF rule.metric \in Loads /\ rule.threshold = 0 THEN Cores ELSE rule.threshold

IsBreached(rule, level) ==
    CASE rule.operator = "gt" -> level > Threshold(rule)
      [] rule.operator = "gte" -> level >= Threshold(rule)
      [] rule.operator = "lt" -> level < Threshold(rule)
      [] OTHER -> level <= Threshold(rule)

SinceKept(b, now) == IF b.breach = "clear" THEN now ELSE b.since  \* mutant

\* A breach start later than now means the clock stepped back: it moves back to now.
Since(b, now) == IF b.breach = "clear" THEN now ELSE Min({b.since, now})

Activates(rule, b, now) == b.breach # "active" /\ now - Since(b, now) >= rule.duration

Advance(rule, b, breached, now, id) ==
    CASE ~breached -> Clear
      [] breached /\ b.breach = "active" -> [b EXCEPT !.since = Since(b, now)]
      [] breached /\ Activates(rule, b, now) ->
            [breach |-> "active", since |-> Since(b, now), id |-> id]
      [] OTHER -> [breach |-> "pending", since |-> Since(b, now), id |-> 0]

Clamped(last, now) == IF last = NeverNotified THEN last ELSE Min({last, now})

CooledDownPerIncident(rule, last, now) == TRUE  \* mutant

CooledDown(rule, last, now) == last = NeverNotified \/ now - last >= rule.cooldown

UnreadKept(s) == s  \* mutant

\* A rule whose metric has no reading ends its incident, and keeps its cooldown.
Unread(s) == [s EXCEPT !.at = Clear]

\* One rule's tick: its next state, and whether its active alert notifies.
RuleTick(rule, s, reading, level, now, id) ==
    LET at == Advance(rule, s.at, reading = "measured" /\ IsBreached(rule, level), now, id)
        last == Clamped(s.notified, now)
        notify == at.breach = "active" /\ CooledDown(rule, last, now)
    IN CASE reading = "measured" ->
               [state |-> [at |-> at, notified |-> IF notify THEN now ELSE last],
                notify |-> notify]
         [] reading = "carried" -> [state |-> s, notify |-> FALSE]
         [] OTHER -> [state |-> Unread(s), notify |-> FALSE]

\* mutant: the sequence moves once per tick.
MintedIdPerTick(i, mints) == minted + 1

\* The rules in order: each that becomes active takes the next id of the run.
MintedId(i, mints) == minted + Cardinality(mints \cap (1..i))

Evaluated(origin, level, now) ==
    LET reading(i) == Reading(origin[rules[i].metric], level[rules[i].metric])
        mints(i) == /\ rules[i].enabled
                    /\ reading(i) = "measured"
                    /\ IsBreached(rules[i], level[rules[i].metric])
                    /\ Activates(rules[i], states[i].at, now)
        id(i) == MintedId(i, {j \in DOMAIN rules : mints(j)})
    IN [i \in DOMAIN rules |->
          IF rules[i].enabled
          THEN RuleTick(rules[i], states[i], reading(i), level[rules[i].metric], now, id(i))
          ELSE [state |-> states[i], notify |-> FALSE]]

-----------------------------------------------------------------------------
(* The collector.                                                          *)

\* When the run last saw something happen to a rule, and on which clock.
Unseen == [at |-> -1, clock |-> -1]

NotedIds == {<<i, states'[i].at.id>> : i \in {j \in DOMAIN rules : states'[j].at.breach = "active"}}

\* `record`: the rules evaluated at the snapshot's collected_at.
Record(origin, level, collectedAt) ==
    LET ticked == Evaluated(origin, level, collectedAt)
        Now == [at |-> begun.readAt, clock |-> begun.clock]
        notifies == {i \in DOMAIN rules : ticked[i].notify}
    IN /\ states' = [i \in DOMAIN rules |-> ticked[i].state]
       /\ minted' = Max({minted} \cup {states'[i].at.id : i \in DOMAIN rules})
       /\ active' = NotedIds
       /\ UNCHANGED rules
       /\ seen' = [seen EXCEPT
             !.cgroup = @ \cup {g \in Groups : origin[g] = "cgroup"},
             !.owner = @ \cup {<<a[2], seen.epoch, a[1]>> : a \in active'},
             !.breached = [i \in DOMAIN rules |->
                 IF states'[i].at.breach = "clear" THEN Unseen
                 ELSE IF @[i] = Unseen THEN Now ELSE @[i]],
             !.waited = [i \in DOMAIN rules |->
                 IF states'[i].at.breach = "clear" THEN Unseen
                 ELSE IF origin[rules[i].metric] = "carried" \/ @[i].clock = begun.clock
                      THEN @[i] ELSE Now],
             !.notified = [i \in DOMAIN rules |->
                 IF i \in notifies THEN Now ELSE @[i]]]

OriginOf(chosen) == [m \in Metrics |-> IF m \in Groups THEN chosen[m].origin ELSE "kernel"]

\* The sampler's read ended: a snapshot only once priming is done.
Publish(files, level) ==
    LET chosen == Chosen(files, begun.readAt)
    IN IF begun.readAt - primedAt >= Priming
       THEN /\ history' = [g \in Groups |-> chosen[g].next]
            /\ published' = [seq |-> published.seq + 1, readAt |-> begun.readAt,
                             origin |-> OriginOf(chosen), level |-> level]
            /\ Record(OriginOf(chosen), level, begun.collectedAt)
       ELSE UNCHANGED <<history, published, manager, seen>>

NoRead == [readAt |-> 0, collectedAt |-> 0, clock |-> 0]
NothingSeen(n) == [cgroup |-> {}, owner |-> {}, epoch |-> 1,
                   breached |-> [i \in 1..n |-> Unseen], waited |-> [i \in 1..n |-> Unseen],
                   notified |-> [i \in 1..n |-> Unseen]]

\* The startup snapshot is published before the collector's first tick; it is the kernel's,
\* as a cgroup read on it is the case of one read later.
CollectorInit ==
    /\ mono = 0 /\ wall = MaxSteps * Max(StepSizes)
    /\ slot = "ready" /\ begun = NoRead
    /\ nextTick = Period /\ primedAt = 0 /\ prevCpu \in BOOLEAN
    /\ history = [g \in Groups |-> Untouched]
    /\ published = [seq |-> 0, readAt |-> 0, origin |-> [m \in Metrics |-> "kernel"],
                    level |-> [m \in Metrics |-> CHOOSE l \in Levels : TRUE]]
    /\ rules \in RuleSets
    /\ states = [i \in DOMAIN rules |-> NewState]
    /\ minted = 0 /\ active = {}
    /\ panics = 0 /\ steps = 0
    /\ seen = NothingSeen(Len(rules))

\* Time passes for everyone; a tick that is due does not wait.
CollectorClock ==
    /\ mono < MaxMono
    /\ ~(slot \in {"ready", "broken"} /\ mono >= nextTick)
    /\ mono' = mono + 1 /\ wall' = wall + 1
    /\ UNCHANGED <<sampler, history, published, manager, panics, steps, seen>>

ClockStep ==
    /\ steps < MaxSteps
    /\ steps' = steps + 1
    /\ \E size \in StepSizes : wall' \in {wall + size, wall - size}
    /\ UNCHANGED <<mono, sampler, history, published, manager, panics, seen>>

\* The interval delays a missed tick: the next is a period after this one.
ReadBegin ==
    /\ slot = "ready" /\ mono >= nextTick
    /\ slot' = "reading"
    /\ begun' = [readAt |-> mono, collectedAt |-> wall, clock |-> steps]
    /\ nextTick' = mono + Period
    /\ UNCHANGED <<mono, wall, primedAt, prevCpu, history, published, manager, panics,
                   steps, seen>>

ReadEnd ==
    /\ slot = "reading"
    /\ \E files \in [Groups -> {"value", "absent", "failed"}],
          level \in [Metrics -> Levels \cup {NaN}] :
          /\ \A m \in Metrics : level[m] = NaN => m = Cpu /\ files[m] # "value"
          /\ Publish(files, level)
          /\ prevCpu' = (prevCpu \/ files[Cpu] = "value")
    /\ slot' = "ready" /\ begun' = NoRead
    /\ UNCHANGED <<mono, wall, nextTick, primedAt, panics, steps>>

\* The new sampler's priming reading may or may not find the CPU counters.
Primed ==
    /\ slot' = "ready" /\ primedAt' = mono /\ nextTick' = mono + Period
    /\ prevCpu' \in BOOLEAN

\* The read panicked; its sampler is gone, and building another one may panic too.
ReadPanics ==
    /\ slot = "reading" /\ panics < MaxPanics
    /\ panics' = panics + 1 /\ begun' = NoRead
    /\ \/ Primed
       \/ slot' = "broken" /\ UNCHANGED <<nextTick, primedAt, prevCpu>>
    /\ UNCHANGED <<mono, wall, history, published, manager, steps, seen>>

RebuildSampler ==
    /\ slot = "broken" /\ mono >= nextTick
    /\ \/ Primed /\ UNCHANGED panics
       \/ /\ panics < MaxPanics /\ panics' = panics + 1
          /\ nextTick' = mono + Period
          /\ UNCHANGED <<slot, primedAt, prevCpu>>
    /\ UNCHANGED <<mono, wall, begun, history, published, manager, steps, seen>>

\* mutant: the active alerts outlive the rules they came from.
ReplaceRulesOnly ==
    /\ seen.epoch <= MaxReplacements
    /\ rules' \in RuleSets
    /\ states' = [i \in DOMAIN rules' |-> NewState]
    /\ seen' = [NothingSeen(Len(rules')) EXCEPT !.cgroup = seen.cgroup, !.owner = seen.owner,
                                                !.epoch = seen.epoch + 1]
    /\ UNCHANGED <<mono, wall, sampler, history, published, minted, active, panics, steps>>

\* Every incident ends: per-rule state is keyed by position.
ReplaceRules ==
    /\ seen.epoch <= MaxReplacements
    /\ rules' \in RuleSets
    /\ states' = [i \in DOMAIN rules' |-> NewState]
    /\ active' = {}
    /\ seen' = [NothingSeen(Len(rules')) EXCEPT !.cgroup = seen.cgroup, !.owner = seen.owner,
                                                !.epoch = seen.epoch + 1]
    /\ UNCHANGED <<mono, wall, sampler, history, published, minted, panics, steps>>

CollectorNext ==
    \/ CollectorClock
    \/ ClockStep
    \/ ReadBegin
    \/ ReadEnd
    \/ ReadPanics
    \/ RebuildSampler
    \/ ReplaceRules

CollectorSpec == CollectorInit /\ [][CollectorNext]_colVars

-----------------------------------------------------------------------------
(* Properties.                                                             *)

CollectorTypeOK ==
    /\ mono \in 0..MaxMono /\ wall \in Int
    /\ slot \in {"ready", "reading", "broken"}
    /\ nextTick \in Nat /\ primedAt \in 0..mono /\ prevCpu \in BOOLEAN
    /\ \A g \in Groups : /\ history[g].lineage \in {"untouched", "kernel_failing", "cgroup"}
                          /\ history[g].carry \in {"none", "reading", "since", "expired"}
    /\ rules \in RuleSets /\ DOMAIN states = DOMAIN rules
    /\ \A i \in DOMAIN rules : states[i].at.breach \in {"clear", "pending", "active"}
    /\ minted \in Nat /\ active \subseteq (DOMAIN rules) \X (1..minted)

\* A group once measured from the monitored cgroup never shows the host's figures again, not
\* even after a panic took its sampler: the sourcing history outlives the sampler.
LineageKept == \A g \in seen.cgroup : published.origin[g] # "kernel"

\* No two incidents of a run share an id, whatever rules were replaced in between: the hub keys
\* its alert records by it.
IncidentIdsUnique ==
    \A a, b \in seen.owner : a[1] = b[1] => a = b

\* No alert is shown for a metric the published snapshot cannot stand behind.
NoAlertWithoutReading ==
    \A a \in active :
        LET m == rules[a[1]].metric
        IN Reading(published.origin[m], published.level[m]) # "unavailable"

\* A rule waits no longer than its duration, however the clock stepped: a breach start the new
\* clock has not reached yet does not stall it.
FiresInTime ==
    \A i \in DOMAIN rules :
        /\ states[i].at.breach = "pending"
        /\ Reading(published.origin[rules[i].metric], published.level[rules[i].metric])
              = "measured"
        => published.readAt - seen.waited[i].at < Max({rules[i].duration, 1})

\* On one clock a rule waits its whole duration, and an incident is announced at most once per
\* cooldown, across the incidents of the rule.
FiresNoSooner ==
    \A i \in DOMAIN rules :
       seen'.epoch = seen.epoch =>
         /\ (/\ states[i].at.breach = "pending" /\ states'[i].at.breach = "active"
             /\ seen.breached[i].clock = begun.clock)
            => published'.readAt - seen.breached[i].at >= rules[i].duration
         /\ (/\ seen.notified[i].at # -1 /\ seen'.notified[i] # seen.notified[i]
             /\ seen'.notified[i].clock = seen.notified[i].clock)
            => seen'.notified[i].at - seen.notified[i].at >= rules[i].cooldown

\* A carried reading says nothing new: the rule's incident neither starts nor ends on it, and
\* nobody is notified.
CarriedChangesNothing ==
    \A i \in DOMAIN rules :
       /\ published'.seq # published.seq
       /\ published'.origin[rules[i].metric] = "carried"
       => states'[i] = states[i]

\* What the collector publishes can be stood behind, over hanging and panicking reads, stepping
\* clocks and replaced rules: groups keep their lineage, incident ids are never given again, an
\* alert has a reading behind it and a breach of the whole duration fires.
AlertsSound ==
    /\ CollectorTypeOK
    /\ LineageKept
    /\ IncidentIdsUnique
    /\ NoAlertWithoutReading
    /\ FiresInTime

\* No alert comes early: not before its duration, not twice in a cooldown, not on a carried
\* reading.
AlertsEarned ==
    [][/\ FiresNoSooner
       /\ CarriedChangesNothing]_colVars
=============================================================================
