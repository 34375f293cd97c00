---------------------------- MODULE RetentionPlan ----------------------------
(***************************************************************************)
(* What the store keeps and for how long (retention/policy.rs, liveness.rs, *)
(* files.rs, clock.rs, capacity.rs, store/retire.rs): a period per tier,     *)
(* overrides per system with a shortening waiting out its delay, the guarded *)
(* retention clock, and the plan a pass makes over the block files redb      *)
(* lists.  Overrides, tombstones and the cap are the store's interface: no   *)
(* caller in this repository uses them yet.  A caller's timer ends a delay.  *)
(***************************************************************************)
EXTENDS Integers, Sequences, SequencesExt, FiniteSetsExt

CONSTANTS RetTiers,           \* Tier::ALL, lowest first, a sequence
          RetSpanLen,         \* a span's length in seconds, by tier
          MinPeriod, MaxPeriod,           \* the bounds of a period, by tier
          Globals,            \* the global policies the hub may be opened with
          Requests,           \* sequences of <<tier, period>>: overrides an operator asks for
          Systems, Generations, SystemOf, \* each generation's system
          Inventories,        \* block file inventories a pass may find
          StorageCaps,        \* what the storage limit comes to; Unlimited among them
          MaxRetTime          \* bound on the clocks

VARIABLES global,        \* Policies: the global policy
          overrides,     \* Policies: the overrides kept, by system
          tombstones,    \* the generations deleted
          sysTime,       \* the system clock, which an operator or NTP may step
          hubTime,       \* HubClock::last_issued
          sinceStart,    \* monotonic time since the last pass started; -1 before the first
          retClock,      \* Retention::clock
          retCeiling,    \* history: how far the monotonic clock allows it
          plan           \* the pass: none, Begun, or what it planned

retVars == <<global, overrides, tombstones, sysTime, hubTime, sinceStart, retClock, retCeiling, plan>>

TierSet == Range(RetTiers)
TierRank(tier) == CHOOSE i \in 1..Len(RetTiers) : RetTiers[i] = tier
NoPlan == [files |-> <<>>]
Begun == [files |-> <<>>, begun |-> TRUE]
IsPlan(p) == "facts" \in DOMAIN p
Unlimited == -1

-----------------------------------------------------------------------------
(* Policies.  A setting is a fixed period or FollowGlobal; a tier of an    *)
(* override is its setting and its pending one, or NothingPending.          *)

FollowGlobal == 0
NothingPending == -1

Resolve(setting, period) == IF setting = FollowGlobal THEN period ELSE setting
DefaultTier == [setting |-> FollowGlobal, pending |-> NothingPending]
Enforced(over, period) == Resolve(over.setting, period)

\* mutant: the request is compared with the global policy, not with what is enforced.
ChangeTierGlobal(over, requested, period) ==
    IF Resolve(requested, period) >= period
    THEN [setting |-> requested, pending |-> NothingPending]
    ELSE [over EXCEPT !.pending = requested]

\* TierOverride::change: at least as long at once; a shorter one is the one pending.
ChangeTier(over, requested, period) ==
    IF Resolve(requested, period) >= Enforced(over, period)
    THEN [setting |-> requested, pending |-> NothingPending]
    ELSE [over EXCEPT !.pending = requested]

\* TierOverride::take_effect.
EndDelay(over) ==
    IF over.pending = NothingPending THEN over
    ELSE [setting |-> over.pending, pending |-> NothingPending]

OverrideOf(system) ==
    IF system \in DOMAIN overrides THEN overrides[system] ELSE [t \in TierSet |-> DefaultTier]

\* Policies::put: an override that follows the global policy is not kept.
Put(system, over) ==
    IF \A t \in TierSet : over[t] = DefaultTier
    THEN [s \in DOMAIN overrides \ {system} |-> overrides[s]]
    ELSE [s \in DOMAIN overrides \cup {system} |-> IF s = system THEN over ELSE overrides[s]]

\* TierPeriod::new and RetentionChange::new: in bounds, and no tier named twice.
ValidRequest(request) ==
    /\ \A i \in 1..Len(request) : request[i][2] \in MinPeriod[request[i][1]]..MaxPeriod[request[i][1]]
    /\ \A i, j \in 1..Len(request) : request[i][1] = request[j][1] => i = j
SettingOf(request, tier) ==
    IF \E i \in 1..Len(request) : request[i][1] = tier
    THEN request[CHOOSE i \in 1..Len(request) : request[i][1] = tier][2] ELSE FollowGlobal

Effective(system, tier) == Enforced(OverrideOf(system)[tier], global[tier])

LongestGlobal(tier) == global[tier]  \* mutant: the overrides are left out

\* Policies::longest.
Longest(tier) == Max({global[tier]} \cup {Effective(s, tier) : s \in DOMAIN overrides})

-----------------------------------------------------------------------------
(* Liveness and the plan over the files.                                   *)

PlanSpanEnd(tier, span) == (span + 1) * RetSpanLen[tier]

\* expired: every second of the span is older than the clock minus the period.
SpanExpired(tier, span, period) == PlanSpanEnd(tier, span) <= Max({0, retClock - period})

\* chunk_liveness of what a generation holds; its owner is "none" when nothing maps it.
ChunkLiveness(tier, span, generation, owner) ==
    IF owner = "none" THEN "unmapped"
    ELSE IF generation \in tombstones THEN "tombstoned"
    ELSE IF SpanExpired(tier, span, Effective(owner, tier)) THEN "expired" ELSE "live"

\* A record that does not decode is passed over (mutant).
SystemsReadableLax(inventory) == TRUE

\* systems_of, its error: a holder the head does not name sends the pass to the series
\* table, where one record that does not decode fails the whole lookup.
SystemsReadable(inventory) ==
    \/ \A f \in inventory.files : \A g \in DOMAIN f.holders : inventory.named[g] = "head"
    \/ \A g \in Generations : inventory.named[g] # "damaged"

\* systems_of: the system the head, then the series table, name for a generation.
OwnerFound(inventory, generation) ==
    IF inventory.named[generation] \in {"head", "record"} THEN SystemOf[generation] ELSE "none"

\* read_inventory: a row whose chunks no entry names is left out.
InventoryRows(inventory) ==
    {f \in inventory.files : f.chunks = 0 \/ DOMAIN f.holders # {}}

\* facts: what the pass judges a file by.
Facts(inventory) ==
    {[tier |-> f.tier, span |-> f.span, length |-> f.length, condition |-> f.condition,
      holders |-> {[state |-> ChunkLiveness(f.tier, f.span, g, OwnerFound(inventory, g)),
                    generation |-> g, bytes |-> f.holders[g]] : g \in DOMAIN f.holders}]
     : f \in InventoryRows(inventory)}

\* rewrite_fate without its second half's condition (mutant).
RewriteFateAlways(file) ==
    LET Bytes(states) == MapThenSumSet(LAMBDA h : h.bytes, {h \in file.holders : h.state \in states})
    IN  IF file.length > 0 /\ Bytes({"tombstoned", "unmapped"}) * 4 >= file.length THEN "rewrite_erased"
        ELSE IF SpanExpired(file.tier, file.span, global[file.tier]) THEN "rewrite_expired" ELSE "keep"

\* rewrite_fate of a sound file with something live in it.
RewriteFate(file) ==
    LET Bytes(states) == MapThenSumSet(LAMBDA h : h.bytes, {h \in file.holders : h.state \in states})
    IN  IF file.length > 0 /\ Bytes({"tombstoned", "unmapped"}) * 4 >= file.length THEN "rewrite_erased"
        ELSE IF /\ SpanExpired(file.tier, file.span, global[file.tier])
                /\ \E h \in file.holders : h.state = "expired"
        THEN "rewrite_expired" ELSE "keep"

\* file_fate.
FileFate(file) ==
    IF file.condition = "in_flight" THEN "keep"
    ELSE IF \A h \in file.holders : h.state # "live" THEN "retire"
    ELSE IF file.condition = "damaged" THEN "keep" ELSE RewriteFate(file)

\* plan_files: every file to retire and the most overdue one to rewrite.
Rewritten(facts) ==
    LET due == {f \in facts : FileFate(f) \in {"rewrite_erased", "rewrite_expired"}}
        before(a, b) == \/ PlanSpanEnd(a.tier, a.span) < PlanSpanEnd(b.tier, b.span)
                        \/ /\ PlanSpanEnd(a.tier, a.span) = PlanSpanEnd(b.tier, b.span)
                           /\ TierRank(a.tier) < TierRank(b.tier)
    IN  {f \in due : \A g \in due \ {f} : before(f, g)}

-----------------------------------------------------------------------------
(* The storage cap.                                                        *)

\* cap_rank: no hour file, no file in flight.
CapCandidates(facts) == {f \in facts : f.tier # RetTiers[3] /\ f.condition # "in_flight"}

CapBeforeByAge(a, b) == a.span < b.span  \* mutant: the tier is not looked at
CapBefore(a, b) ==
    \/ TierRank(a.tier) < TierRank(b.tier)
    \/ a.tier = b.tier /\ a.span < b.span

\* cap_retirements: in that order, while the bytes left exceed the cap.
CapRetirements(total, cap, facts) ==
    LET take(acc, f) == IF acc.left > cap
                        THEN [left |-> Max({0, acc.left - f.length}), retire |-> Append(acc.retire, f)]
                        ELSE acc
        start == [left |-> total, retire |-> <<>>]
    IN  IF cap = Unlimited THEN [retire |-> <<>>, excess |-> 0]
        ELSE LET done == FoldLeft(take, start, SetToSortSeq(CapCandidates(facts), CapBefore))
             IN  [retire |-> done.retire, excess |-> Max({0, done.left - cap})]

-----------------------------------------------------------------------------
RetInit ==
    /\ global \in Globals /\ overrides = <<>> /\ tombstones = {}
    /\ sysTime = 1 /\ hubTime = 1 /\ sinceStart = -1
    /\ retClock = 1 /\ retCeiling = 1    \* first_retention_clock
    /\ plan = NoPlan

StepClock(to) ==
    /\ plan = NoPlan /\ sysTime' = to /\ hubTime' = Max({hubTime, to})
    /\ UNCHANGED <<plan, global, overrides, tombstones, sinceStart, retClock, retCeiling>>

\* A second of the monotonic clock, whatever the system clock does.
Elapse ==
    /\ plan = NoPlan /\ sinceStart \in 0..(MaxRetTime - 1) /\ retCeiling < MaxRetTime
    /\ sinceStart' = sinceStart + 1 /\ retCeiling' = retCeiling + 2
    /\ UNCHANGED <<plan, global, overrides, tombstones, sysTime, hubTime, retClock>>

\* Policies::change.
ChangeRetention(system, request) ==
    /\ plan = NoPlan /\ ValidRequest(request)
    /\ overrides' = Put(system, [t \in TierSet |->
           ChangeTier(OverrideOf(system)[t], SettingOf(request, t), global[t])])
    /\ UNCHANGED <<plan, global, tombstones, sysTime, hubTime, sinceStart, retClock, retCeiling>>

\* Policies::take_effect of a tier, once its delay has ended.
TakeEffect(system, tier) ==
    /\ plan = NoPlan /\ system \in DOMAIN overrides
    /\ overrides' = Put(system, [overrides[system] EXCEPT ![tier] = EndDelay(@)])
    /\ UNCHANGED <<plan, global, tombstones, sysTime, hubTime, sinceStart, retClock, retCeiling>>

DeleteGeneration(g) ==
    /\ plan = NoPlan /\ g \notin tombstones /\ tombstones' = tombstones \cup {g}
    /\ UNCHANGED <<plan, global, overrides, sysTime, hubTime, sinceStart, retClock, retCeiling>>

\* An open under another global policy: the overrides and both clocks are put back.
ReopenStore(policy) ==
    /\ plan = NoPlan /\ global' = policy /\ sinceStart' = -1 /\ retCeiling' = retClock
    /\ UNCHANGED <<plan, overrides, tombstones, sysTime, hubTime, retClock>>

RetentionNowUnguarded(since) == Min({hubTime, sysTime})  \* mutant: no guard

\* retention_now.
RetentionNow(since) ==
    Min({hubTime, sysTime, retClock + (IF since = -1 THEN 0 ELSE 2 * since)})

\* Retention::begin.
BeginRetention ==
    /\ plan = NoPlan /\ retClock' = RetentionNow(sinceStart) /\ sinceStart' = 0
    /\ retCeiling' = IF sinceStart = -1 THEN retClock ELSE retCeiling
    /\ plan' = Begun
    /\ UNCHANGED <<global, overrides, tombstones, sysTime, hubTime>>

\* plan_retirements: nothing is retired when a holder cannot be told.  The cap's plan is
\* made over the same facts.
PlanFiles(inventory, cap) ==
    LET facts == IF SystemsReadable(inventory) THEN Facts(inventory) ELSE {}
        total == MapThenSumSet(LAMBDA f : f.length, facts)
    IN  /\ plan = Begun
        /\ plan' = [files |-> inventory, facts |-> facts,
                    retire |-> {f \in facts : FileFate(f) = "retire"},
                    rewrite |-> Rewritten(facts),
                    cap |-> cap, total |-> total, capped |-> CapRetirements(total, cap, facts)]
        /\ UNCHANGED <<global, overrides, tombstones, sysTime, hubTime, sinceStart, retClock, retCeiling>>

\* The files planned are retired over the next commits and the pass ends.
FinishPass ==
    /\ IsPlan(plan) /\ plan' = NoPlan
    /\ UNCHANGED <<global, overrides, tombstones, sysTime, hubTime, sinceStart, retClock, retCeiling>>

RetNext ==
    \/ \E t \in 1..MaxRetTime : StepClock(t)
    \/ Elapse
    \/ \E s \in Systems : \/ \E r \in Requests : ChangeRetention(s, r)
                          \/ \E t \in TierSet : TakeEffect(s, t)
    \/ \E g \in Generations : DeleteGeneration(g)
    \/ \E p \in Globals : ReopenStore(p)
    \/ BeginRetention \/ FinishPass
    \/ \E i \in Inventories, c \in StorageCaps : PlanFiles(i, c)

-----------------------------------------------------------------------------
\* While the hub runs, what is enforced for a system's tier gets shorter only when a shortening
\* asked for earlier ends its delay, and never below what was asked: whatever is changed,
\* changed again or dropped in between (RFC 0012 section 2).
ShortensOnlyWhenDue ==
    \A s \in Systems, t \in TierSet :
       global' = global /\ Effective(s, t)' < Effective(s, t) =>
           /\ OverrideOf(s)[t].pending # NothingPending
           /\ Effective(s, t)' = Resolve(OverrideOf(s)[t].pending, global[t])

\* However the system clock is stepped, the retention clock never gets further than twice the
\* time the monotonic clock measured since the open, so a wrong clock expires nothing at once.
ClockGuarded == retClock <= retCeiling

\* No file planned for retirement holds a chunk that is readable: not through a series record
\* that does not decode, a generation the head does not name, or a row without its entries.
NothingReadableRetired ==
    IsPlan(plan) =>
        \A f \in plan.retire : \E row \in plan.files.files :
            /\ row.tier = f.tier /\ row.span = f.span /\ (row.chunks = 0 \/ DOMAIN row.holders # {})
            /\ \A g \in DOMAIN row.holders :
                   ChunkLiveness(row.tier, row.span, g,
                       IF plan.files.named[g] = "gone" THEN "none" ELSE SystemOf[g]) # "live"

\* A file rewritten without its dead chunks is kept by the next plan: no file is rewritten
\* over and over while an override keeps a part of it.
RewriteSettles ==
    IsPlan(plan) =>
        \A f \in plan.rewrite :
            LET kept == {h \in f.holders : h.state = "live"}
            IN  kept # {} /\ FileFate([f EXCEPT !.holders = kept]) = "keep"

\* Nothing readable is older than the longest period says: a query looking back that far misses
\* nothing.
LongestCovers ==
    IsPlan(plan) =>
        \A f \in plan.facts : \A h \in f.holders :
            h.state = "live" => PlanSpanEnd(f.tier, f.span) > retClock - Longest(f.tier)

\* The cap takes a minute file only when every raw one that may go has gone, takes the older
\* before the younger, stops as soon as the bytes left fit, and is unmet only with nothing left.
CapMinimal ==
    IsPlan(plan) /\ plan.cap # Unlimited =>
        LET taken == Range(plan.capped.retire)
            left == CapCandidates(plan.facts) \ taken
            bytes(files) == MapThenSumSet(LAMBDA f : f.length, files)
        IN  /\ \A f \in taken, g \in left :
                   TierRank(f.tier) <= TierRank(g.tier) /\ (f.tier = g.tier => f.span < g.span)
            /\ \A f \in taken : plan.total - bytes(taken \ {f}) > plan.cap \/ f # Last(plan.capped.retire)
            /\ plan.capped.excess > 0 => left = {}
            /\ plan.capped.excess = 0 => plan.total - bytes(taken) <= plan.cap

\* Retention takes nothing it should not: by a guarded clock, nothing readable, nothing under a
\* shortening whose delay still runs, no more than the cap needs, and a rewrite only once.
RetentionSound ==
    [][/\ (ClockGuarded /\ NothingReadableRetired /\ RewriteSettles /\ LongestCovers /\ CapMinimal)'
       /\ ShortensOnlyWhenDue]_retVars
=============================================================================
