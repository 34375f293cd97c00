---------------------------- MODULE AgentProofs -----------------------------
(***************************************************************************)
(* What the agent's parts always keep, proved for every value of their     *)
(* constants: the collector and its alerts under clock steps, panics and   *)
(* new rules; what the push client and a live stream are served while      *)
(* snapshots go stale and links break; the mail client's reports while     *)
(* the relay fails; and the id file under starts, crashes and power        *)
(* losses.  Each part has its inductive invariant, a lemma per action that *)
(* disturbs it, and its theorems last.                                     *)
(***************************************************************************)
EXTENDS AgentCollector, AgentReaders, MailClient, PushIdentity,
        FiniteSetTheorems, SequenceTheorems, WellFoundedInduction, TLAPS

(* The collector and its alerts. *)

\* The types of what the collector keeps.
Lineages == {"untouched", "kernel_failing", "cgroup"}
Carries == {"none", "reading", "since", "expired"}
Breaches == {"clear", "pending", "active"}
Breach == [breach : Breaches, since : Int, id : Nat]
Moment == [at : Int, clock : Int]

\* The collector's types.
ColTypes ==
    /\ mono \in 0..MaxMono /\ wall \in Int /\ steps \in 0..MaxSteps
    /\ slot \in {"ready", "reading", "broken"}
    /\ nextTick \in Nat /\ primedAt \in 0..mono /\ prevCpu \in BOOLEAN
    /\ begun \in [readAt : Int, collectedAt : Int, clock : Int]
    /\ history \in [Groups -> [lineage : Lineages, carry : Carries, since : Int]]
    /\ published.readAt \in Int
    /\ rules \in RuleSets
    /\ states \in [DOMAIN rules -> [at : Breach, notified : Int]]
    /\ minted \in Nat
    /\ seen.cgroup \subseteq Groups
    /\ seen = [cgroup |-> seen.cgroup, owner |-> seen.owner, epoch |-> seen.epoch, breached |-> seen.breached, waited |-> seen.waited, notified |-> seen.notified]
    /\ seen.epoch \in Nat
    /\ seen.breached \in [DOMAIN rules -> Moment] /\ seen.waited \in [DOMAIN rules -> Moment] /\ seen.notified \in [DOMAIN rules -> Moment]

\* The system clock stays a time whatever steps are left, and a running read that began on this
\* clock is as far behind it as the monotonic clock says.
ClockInv ==
    /\ wall >= (MaxSteps - steps) * Max(StepSizes)
    /\ slot = "reading" =>
          /\ begun.readAt \in 0..mono /\ begun.clock \in 0..steps /\ begun.collectedAt \in Nat
          /\ begun.clock = steps => begun.collectedAt - begun.readAt = wall - mono

\* What a rule's state says of the moments seen, on the clock c that is off ahead of mono.
OnClock(s, b, w, n, c, off) ==
    /\ s.at.breach # "clear" /\ b.clock = c => s.at.since >= b.at + off
    /\ s.at.breach # "clear" /\ w.clock = c => s.at.since <= w.at + off
    /\ n.clock = c => s.notified >= n.at + off

\* A moment is none, or was seen by then.
Seen(m, at, c) == m = Unseen \/ (m.at \in 0..at /\ m.clock \in 0..c)
\* Which of a rule's moments are seen, by its state.
Told(s, b, w, n) ==
    /\ s.at.breach = "clear" <=> b = Unseen
    /\ s.at.breach = "clear" <=> w = Unseen
    /\ s.notified = NeverNotified <=> n = Unseen
    /\ s.notified >= NeverNotified
    /\ s.at.breach # "active" => s.at.id = 0

\* What is kept of a rule agrees with what was seen of it, at a time on a clock.
Moments(s, b, w, n, at, c, off) ==
    /\ Told(s, b, w, n)
    /\ Seen(b, at, c) /\ Seen(w, at, c) /\ Seen(n, at, c)
    /\ OnClock(s, b, w, n, c, off)

SeenOf(i, at, c, off) == Moments(states[i], seen.breached[i], seen.waited[i], seen.notified[i], at, c, off)

\* So it is for every rule, on the clock now and on that of the running read.
SeenInv == \A i \in DOMAIN rules :
    /\ ~rules[i].enabled => states[i].at.breach = "clear"
    /\ SeenOf(i, mono, steps, wall - mono)
    /\ slot = "reading" => SeenOf(i, begun.readAt, begun.clock, begun.collectedAt - begun.readAt)

\* What rule i is shown.
Shows(i) == Reading(published.origin[rules[i].metric], published.level[rules[i].metric])
\* An active alert has a reading, a long breach is active, and no group read from the cgroup is
\* read from the kernel.
PublishedInv ==
    /\ \A i \in DOMAIN rules : states[i].at.breach = "active" => Shows(i) # "unavailable"
    /\ FiresInTime
    /\ \A g \in seen.cgroup : history[g].lineage = "cgroup" /\ published.origin[g] # "kernel"

\* The active alerts are the active breaches, whose ids were minted and belong to them.
IdsInv ==
    /\ active = {<<i, states[i].at.id>> : i \in {j \in DOMAIN rules : states[j].at.breach = "active"}}
    /\ \A i \in DOMAIN rules : states[i].at.breach = "active" =>
          states[i].at.id \in 1..minted /\ <<states[i].at.id, seen.epoch, i>> \in seen.owner
    /\ \A a \in seen.owner : a[1] \in 1..minted
    /\ IncidentIdsUnique

\* The collector's inductive invariant.
ColInv == ColTypes /\ ClockInv /\ SeenInv /\ PublishedInv /\ IdsInv

\* The types of a rule, and of its state.
RuleType == [metric : Metrics, operator : {"gt", "gte", "lt", "lte"},
             threshold : Int, duration : Nat, cooldown : Nat, enabled : BOOLEAN]
StateType == [at : Breach, notified : Int]

\* A set of natural numbers that is not empty has a least member.
LEMMA LeastNatural ==
  ASSUME NEW T, T \subseteq Nat, T # {}
  PROVE  \E m \in T : \A n \in T : m <= n
<1>1. IsWellFoundedOn(OpToRel(<, Nat), Nat)
  BY NatLessThanWellFounded
<1>2. PICK R : R = OpToRel(<, Nat)
  OBVIOUS
<1>3. \A n \in Nat, m \in Nat : n < m => <<n, m>> \in R
  BY <1>2 DEF OpToRel
<1>4. IsWellFoundedOn(R, Nat)
  BY <1>1, <1>2
<1>5. \E m \in T : \A n \in T : ~(<<n, m>> \in R)
  BY <1>4, WFMin
<1>6. \A m, n \in Nat : ~(n < m) => m <= n
  OBVIOUS
<1> QED BY <1>5, <1>3, <1>6

\* What holds of 0, and of n + 1 when it does of n, holds of every n.
LEMMA SetInduction ==
  ASSUME NEW T, 0 \in T, \A n \in Nat : n \in T => n + 1 \in T
  PROVE  \A n \in Nat : n \in T
<1> DEFINE U == {n \in Nat : n \notin T}
<1> SUFFICES ASSUME U # {} PROVE FALSE
  OBVIOUS
<1>1. PICK m \in U : \A n \in U : m <= n
  BY LeastNatural
<1>2. m \in Nat /\ m # 0 /\ m \notin T
  OBVIOUS
<1>3. m - 1 \in Nat /\ m - 1 \notin T
  BY <1>2
<1> QED BY <1>1, <1>2, <1>3

\* A bounded set of natural numbers that is not empty has a greatest member.
LEMMA GreatestNatural ==
  ASSUME NEW T, T \subseteq Nat, T # {}, NEW b \in Nat, \A n \in T : n <= b
  PROVE  \E m \in T : \A n \in T : n <= m
<1> DEFINE U == {b - n : n \in T}
<1>1. U \subseteq Nat
  OBVIOUS
<1>2. U # {}
  OBVIOUS
<1>3. PICK u \in U : \A v \in U : u <= v
  <2> HIDE DEF U
  <2> QED BY <1>1, <1>2, LeastNatural
<1>4. PICK m \in T : u = b - m
  OBVIOUS
<1>5. \A n \in T : b - m <= b - n
  BY <1>3, <1>4
<1>6. \A n \in T : n <= m
  BY <1>4, <1>5
<1> QED BY <1>6

\* The lesser of two numbers.
LEMMA MinOfTwo ==
  ASSUME NEW a \in Int, NEW b \in Int
  PROVE  Min({a, b}) = IF a <= b THEN a ELSE b
<1>1. \A x : x \in {a, b} /\ (\A y \in {a, b} : x <= y) <=> x = (IF a <= b THEN a ELSE b)
  OBVIOUS
<1> QED BY <1>1 DEF Min

\* The greater of two numbers.
LEMMA MaxOfTwo ==
  ASSUME NEW a \in Int, NEW b \in Int
  PROVE  Max({a, b}) = IF a >= b THEN a ELSE b
<1>1. \A x : x \in {a, b} /\ (\A y \in {a, b} : x >= y) <=> x = (IF a >= b THEN a ELSE b)
  OBVIOUS
<1> QED BY <1>1 DEF Max

\* The moments seen of a rule after its tick.
NextBreached(b, s, now) == IF s.at.breach = "clear" THEN Unseen ELSE IF b = Unseen THEN now ELSE b
NextWaited(w, s, now, kept) ==
    IF s.at.breach = "clear" THEN Unseen ELSE IF kept \/ w.clock = now.clock THEN w ELSE now
NextNotified(n, notify, now) == IF notify THEN now ELSE n

\* The breach start a tick works with, as numbers.
LEMMA SinceIs ==
  ASSUME NEW b \in Breach, NEW now \in Nat
  PROVE  /\ Since(b, now) \in Int /\ Since(b, now) <= now
         /\ b.breach = "clear" => Since(b, now) = now
         /\ b.breach # "clear" => Since(b, now) = IF b.since <= now THEN b.since ELSE now
<1>1. b.since \in Int /\ now \in Int
  BY DEF Breach
<1> QED BY <1>1, MinOfTwo DEF Since

\* What Advance makes a of a breach b.
Advanced(rule, b, a, breached, now, id) ==
    /\ a \in Breach
    /\ a.breach # "clear" => breached /\ a.since = Since(b, now)
    /\ a.breach # "active" => a.id = 0
    /\ a.breach = "pending" => b.breach # "active" /\ now - a.since < rule.duration
    /\ a.breach = "active" => \/ b.breach = "active" /\ a.id = b.id
                              \/ b.breach # "active" /\ Activates(rule, b, now) /\ a.id = id
                                 /\ now - a.since >= rule.duration

\* A breach is cleared, carried on, or made active once it has lasted its duration.
LEMMA AdvanceIs ==
  ASSUME NEW rule \in RuleType, NEW b \in Breach, NEW breached, NEW now \in Nat, NEW id \in Nat
  PROVE  Advanced(rule, b, Advance(rule, b, breached, now, id), breached, now, id)
<1>1. Since(b, now) \in Int /\ rule.duration \in Nat
  BY SinceIs DEF RuleType
<1>2. CASE ~breached
  BY <1>2 DEF Advanced, Advance, Clear, Breach, Breaches
<1>3. CASE breached /\ b.breach = "active"
  <2>1. Advance(rule, b, breached, now, id) = [b EXCEPT !.since = Since(b, now)]
    BY <1>3 DEF Advance, Activates
  <2> QED BY <2>1, <1>1, <1>3 DEF Advanced, Breach, Breaches
<1>4. CASE breached /\ b.breach # "active" /\ Activates(rule, b, now)
  <2>1. Advance(rule, b, breached, now, id) = [breach |-> "active", since |-> Since(b, now), id |-> id]
    BY <1>4 DEF Advance
  <2>2. now - Since(b, now) >= rule.duration
    BY <1>4 DEF Activates
  <2> QED BY <2>1, <2>2, <1>1, <1>4 DEF Advanced, Breach, Breaches
<1>5. CASE breached /\ b.breach # "active" /\ ~Activates(rule, b, now)
  <2>1. Advance(rule, b, breached, now, id) = [breach |-> "pending", since |-> Since(b, now), id |-> 0]
    BY <1>5 DEF Advance
  <2>2. now - Since(b, now) < rule.duration
    BY <1>5, <1>1 DEF Activates
  <2> QED BY <2>1, <2>2, <1>1, <1>5 DEF Advanced, Breach, Breaches
<1> QED BY <1>2, <1>3, <1>4, <1>5

\* A measured tick: what it makes of a rule's state.
TickedAs(rule, s, t, last, now) ==
    /\ t.notify \in BOOLEAN
    /\ t.state = [at |-> t.state.at, notified |-> t.state.notified]
    /\ t.state.notified = IF t.notify THEN now ELSE last
    /\ t.notify => s.notified = NeverNotified \/ now - last >= rule.cooldown

\* A measured reading advances the breach, and notifies no sooner than the cooldown.
LEMMA MeasuredIs ==
  ASSUME NEW rule \in RuleType, NEW s \in StateType, NEW level, NEW now \in Nat, NEW id \in Nat, s.notified >= NeverNotified
  PROVE  LET t == RuleTick(rule, s, "measured", level, now, id)
         IN  /\ t.state.at = Advance(rule, s.at, IsBreached(rule, level), now, id)
             /\ TickedAs(rule, s, t, IF s.notified <= now THEN s.notified ELSE now, now)
<1>1. s.notified \in Int /\ s.at \in Breach
  BY DEF StateType
<1>2. Clamped(s.notified, now) = IF s.notified <= now THEN s.notified ELSE now
  BY <1>1, MinOfTwo DEF Clamped, NeverNotified
<1> DEFINE last == IF s.notified <= now THEN s.notified ELSE now
           at == Advance(rule, s.at, IsBreached(rule, level), now, id)
           notify == at.breach = "active" /\ CooledDown(rule, last, now)
<1>3. ("measured" = "measured" /\ IsBreached(rule, level)) = IsBreached(rule, level)
  BY DEF IsBreached
<1>4. RuleTick(rule, s, "measured", level, now, id)
        = [state |-> [at |-> at, notified |-> IF notify THEN now ELSE last], notify |-> notify]
  BY <1>2, <1>3 DEF RuleTick
<1>5. notify => s.notified = NeverNotified \/ now - last >= rule.cooldown
  BY <1>1 DEF CooledDown, NeverNotified
<1>6. notify \in BOOLEAN
  OBVIOUS
<1>7. PICK a, l, y : a = at /\ l = last /\ y = notify
  OBVIOUS
<1> HIDE DEF notify, at, last
<1>8. RuleTick(rule, s, "measured", level, now, id) = [state |-> [at |-> a, notified |-> IF y THEN now ELSE l], notify |-> y]
  BY <1>4, <1>7
<1>9. y \in BOOLEAN /\ (y => s.notified = NeverNotified \/ now - l >= rule.cooldown)
  BY <1>5, <1>6, <1>7
<1> QED BY <1>7, <1>8, <1>9 DEF at, last, TickedAs

\* What a rule's tick t at readAt, on the clock c and off ahead of it, must have done.
TickSound(rule, s, b, w, n, t, kept, readAt, c, off) ==
    LET now == [at |-> readAt, clock |-> c]
    IN /\ t.state \in StateType
       /\ Moments(t.state, NextBreached(b, t.state, now), NextWaited(w, t.state, now, kept),
                  NextNotified(n, t.notify, now), readAt, c, off)
       /\ s.at.breach = "pending" /\ t.state.at.breach = "active" /\ b.clock = c
            => readAt - b.at >= rule.duration
       /\ n.at # -1 /\ t.notify /\ n.clock = c => readAt - n.at >= rule.cooldown

\* What a tick with a measured reading must have done.
MeasuredTick(rule, s, b, w, n, t, level, readAt, c, now, id) ==
    /\ TickSound(rule, s, b, w, n, t, FALSE, readAt, c, now - readAt)
    /\ t.state.at.breach = "pending" =>
          readAt - NextWaited(w, t.state, [at |-> readAt, clock |-> c], FALSE).at < Max({rule.duration, 1})
    /\ t.state.at.breach = "active" =>
          \/ s.at.breach = "active" /\ t.state.at.id = s.at.id
          \/ IsBreached(rule, level) /\ Activates(rule, s.at, now) /\ t.state.at.id = id

\* The tick of a rule with a measured reading.
LEMMA MeasuredSound ==
  ASSUME NEW rule \in RuleType, NEW s \in StateType, NEW level, NEW id \in Nat,
         NEW readAt \in Nat, NEW c \in Nat, NEW now \in Nat,
         NEW b \in Moment, NEW w \in Moment, NEW n \in Moment,
         Moments(s, b, w, n, readAt, c, now - readAt)
  PROVE  MeasuredTick(rule, s, b, w, n, RuleTick(rule, s, "measured", level, now, id), level, readAt, c, now, id)
<1> DEFINE at == Advance(rule, s.at, IsBreached(rule, level), now, id)
           last == IF s.notified <= now THEN s.notified ELSE now
<1>1. PICK t : t = RuleTick(rule, s, "measured", level, now, id)
  OBVIOUS
<1>2. Told(s, b, w, n) /\ Seen(b, readAt, c) /\ Seen(w, readAt, c) /\ Seen(n, readAt, c) /\ OnClock(s, b, w, n, c, now - readAt)
  BY DEF Moments
<1>3. s.at \in Breach /\ s.notified \in Int /\ s.notified >= NeverNotified
  BY <1>2 DEF StateType, Told
<1>4. t.state.at = at /\ TickedAs(rule, s, t, last, now)
  BY <1>1, <1>3, MeasuredIs
<1>5. /\ t.notify \in BOOLEAN /\ t.state = [at |-> t.state.at, notified |-> t.state.notified]
      /\ t.state.notified = (IF t.notify THEN now ELSE last)
      /\ t.notify => s.notified = NeverNotified \/ now - last >= rule.cooldown
  BY <1>4 DEF TickedAs
<1>6. Advanced(rule, s.at, at, IsBreached(rule, level), now, id)
  BY <1>3, AdvanceIs
<1>7. /\ at \in Breach /\ (at.breach # "active" => at.id = 0)
      /\ at.breach # "clear" => at.since = Since(s.at, now)
      /\ at.breach = "pending" => s.at.breach # "active" /\ now - at.since < rule.duration
      /\ at.breach = "active" => \/ s.at.breach = "active" /\ at.id = s.at.id
                                 \/ s.at.breach # "active" /\ IsBreached(rule, level) /\ Activates(rule, s.at, now) /\ at.id = id
                                    /\ now - at.since >= rule.duration
  <2> HIDE DEF at
  <2> QED BY <1>6 DEF Advanced
<1>8. /\ Since(s.at, now) \in Int /\ Since(s.at, now) <= now
      /\ s.at.breach = "clear" => Since(s.at, now) = now
      /\ s.at.breach # "clear" => Since(s.at, now) = IF s.at.since <= now THEN s.at.since ELSE now
  BY <1>3, SinceIs
<1> HIDE DEF at
<1>9. PICK a : a = at
  OBVIOUS
<1>10. PICK moment : moment = [at |-> readAt, clock |-> c]
  OBVIOUS
<1>11. moment \in Moment /\ moment.at = readAt /\ moment.clock = c /\ moment # Unseen
  BY <1>10 DEF Moment, Unseen
<1>12. t.state \in StateType
  BY <1>4, <1>5, <1>7, <1>3 DEF StateType
<1>13. PICK b2, w2, n2 : b2 = NextBreached(b, t.state, moment) /\ w2 = NextWaited(w, t.state, moment, FALSE) /\ n2 = NextNotified(n, t.notify, moment)
  OBVIOUS
<1>14. /\ b2 = (IF a.breach = "clear" THEN Unseen ELSE IF b = Unseen THEN moment ELSE b)
       /\ w2 = (IF a.breach = "clear" THEN Unseen ELSE IF w.clock = c THEN w ELSE moment)
       /\ n2 = (IF t.notify THEN moment ELSE n)
  BY <1>4, <1>5, <1>9, <1>11, <1>13 DEF NextBreached, NextWaited, NextNotified
<1>15. rule.duration \in Nat /\ rule.cooldown \in Nat
  BY DEF RuleType
<1>16. Seen(b2, readAt, c) /\ Seen(w2, readAt, c) /\ Seen(n2, readAt, c)
  BY <1>2, <1>11, <1>14 DEF Seen
<1>17. w.clock = c => w # Unseen
  BY DEF Unseen
<1>18. t.state.notified \in Int /\ t.state.notified >= NeverNotified /\ (t.state.notified = NeverNotified <=> ~t.notify /\ s.notified = NeverNotified)
  BY <1>3, <1>4, <1>5 DEF NeverNotified
<1>19. Told(t.state, b2, w2, n2)
  BY <1>2, <1>4, <1>5, <1>7, <1>9, <1>11, <1>14, <1>17, <1>18 DEF Told
<1>20. a.breach # "clear" /\ b2.clock = c => a.since >= b2.at + (now - readAt)
  BY <1>2, <1>7, <1>8, <1>9, <1>11, <1>14, <1>3 DEF OnClock, Told, Moment, Breach, Seen
<1>21. a.breach # "clear" /\ w2.clock = c => a.since <= w2.at + (now - readAt)
  BY <1>2, <1>7, <1>8, <1>9, <1>11, <1>14, <1>17, <1>3 DEF OnClock, Told, Moment, Breach, Seen
<1>22. n2.clock = c => t.state.notified >= n2.at + (now - readAt)
  BY <1>2, <1>3, <1>4, <1>5, <1>11, <1>14 DEF OnClock, Told, Moment, Seen, Unseen, NeverNotified
<1>23. OnClock(t.state, b2, w2, n2, c, now - readAt)
  BY <1>20, <1>21, <1>22, <1>4, <1>5, <1>9 DEF OnClock
<1>24. s.at.breach = "pending" /\ a.breach = "active" /\ b.clock = c => readAt - b.at >= rule.duration
  BY <1>2, <1>3, <1>7, <1>8, <1>9, <1>15 DEF OnClock, Moment, Breach, Seen, Unseen
<1>25. n.at # -1 /\ t.notify /\ n.clock = c => readAt - n.at >= rule.cooldown
  BY <1>2, <1>3, <1>4, <1>5, <1>15 DEF OnClock, Told, Moment, Seen, Unseen, NeverNotified
<1>26. a.breach = "pending" => readAt - w2.at < Max({rule.duration, 1})
  <2>1. Max({rule.duration, 1}) = IF rule.duration >= 1 THEN rule.duration ELSE 1
    BY <1>15, MaxOfTwo
  <2> SUFFICES ASSUME a.breach = "pending" PROVE readAt - w2.at < Max({rule.duration, 1})
    OBVIOUS
  <2>2. CASE w2.clock = c
    BY <2>1, <2>2, <1>21, <1>7, <1>9, <1>8, <1>15, <1>14, <1>11 DEF Moment
  <2>3. CASE w2.clock # c
    BY <2>1, <2>3, <1>14, <1>11, <1>15
  <2> QED BY <2>2, <2>3
<1>27. TickSound(rule, s, b, w, n, t, FALSE, readAt, c, now - readAt)
  BY <1>10, <1>12, <1>13, <1>16, <1>19, <1>23, <1>24, <1>25, <1>4, <1>5, <1>9 DEF TickSound, Moments
<1> QED BY <1>1, <1>4, <1>5, <1>7, <1>9, <1>10, <1>13, <1>26, <1>27 DEF MeasuredTick

\* A tick that leaves a rule's state, because its reading is carried or it is disabled and clear.
LEMMA KeptSound ==
  ASSUME NEW rule, NEW s \in StateType, NEW readAt \in Nat, NEW c \in Nat, NEW off \in Int,
         NEW b \in Moment, NEW w \in Moment, NEW n \in Moment, NEW t, NEW kept,
         Moments(s, b, w, n, readAt, c, off), t.state = s, t.notify = FALSE, kept \/ s.at.breach = "clear"
  PROVE  TickSound(rule, s, b, w, n, t, kept, readAt, c, off)
<1>1. /\ s.at.breach = "clear" => b = Unseen /\ w = Unseen
      /\ s.at.breach # "clear" => b # Unseen
  BY DEF Moments, Told
<1>2. \A m : NextBreached(b, s, m) = b /\ NextWaited(w, s, m, kept) = w /\ NextNotified(n, FALSE, m) = n
  BY <1>1 DEF NextBreached, NextWaited, NextNotified
<1> QED BY <1>2 DEF TickSound

\* A tick without a reading clears the rule.
LEMMA UnreadSound ==
  ASSUME NEW rule, NEW s \in StateType, NEW readAt \in Nat, NEW c \in Nat, NEW off \in Int,
         NEW b \in Moment, NEW w \in Moment, NEW n \in Moment, NEW t, NEW kept,
         Moments(s, b, w, n, readAt, c, off), t.state = Unread(s), t.notify = FALSE
  PROVE  TickSound(rule, s, b, w, n, t, kept, readAt, c, off)
<1>1. t.state \in StateType /\ t.state.at = Clear /\ t.state.notified = s.notified
  BY DEF Unread, StateType, Clear, Breach, Breaches
<1>2. t.state.at.breach = "clear" /\ t.state.at.id = 0
  BY <1>1 DEF Clear
<1>3. \A m : /\ NextBreached(b, t.state, m) = Unseen /\ NextWaited(w, t.state, m, kept) = Unseen
             /\ NextNotified(n, t.notify, m) = n
  BY <1>2 DEF NextBreached, NextWaited, NextNotified
<1>4. Told(t.state, Unseen, Unseen, n)
  BY <1>1, <1>2 DEF Moments, Told
<1>5. Seen(Unseen, readAt, c) /\ Seen(n, readAt, c)
  BY DEF Moments, Seen
<1>6. OnClock(t.state, Unseen, Unseen, n, c, off)
  BY <1>1, <1>2 DEF Moments, OnClock
<1>7. Moments(t.state, Unseen, Unseen, n, readAt, c, off)
  BY <1>4, <1>5, <1>6 DEF Moments
<1> QED BY <1>1, <1>2, <1>3, <1>7 DEF TickSound

-----------------------------------------------------------------------------
\* What a reading says to rule i.
ReadingOf(i, origin, level) == Reading(origin[rules[i].metric], level[rules[i].metric])

\* The rules that become active on a tick.
Mints(origin, level, now) ==
    {j \in DOMAIN rules : /\ rules[j].enabled
                          /\ ReadingOf(j, origin, level) = "measured"
                          /\ IsBreached(rules[j], level[rules[j].metric])
                          /\ Activates(rules[j], states[j].at, now)}

\* A rule that is enabled has its tick; one that is not is left alone.
LEMMA EvaluatedIs ==
  ASSUME NEW origin, NEW level, NEW now, NEW i \in DOMAIN rules
  PROVE  Evaluated(origin, level, now)[i] =
           IF rules[i].enabled
           THEN RuleTick(rules[i], states[i], ReadingOf(i, origin, level), level[rules[i].metric], now,
                         MintedId(i, Mints(origin, level, now)))
           ELSE [state |-> states[i], notify |-> FALSE]
  BY DEF Evaluated, Mints, ReadingOf

\* The moment of the running read.
Now == [at |-> begun.readAt, clock |-> begun.clock]

\* What is recorded of a tick, rule by rule.
RuleRecorded(i, origin, ticked) ==
    /\ states'[i] = ticked[i].state
    /\ seen'.breached[i] = NextBreached(seen.breached[i], states'[i], Now)
    /\ seen'.waited[i] = NextWaited(seen.waited[i], states'[i], Now, origin[rules[i].metric] = "carried")
    /\ seen'.notified[i] = NextNotified(seen.notified[i], ticked[i].notify, Now)

\* What a tick records: of each rule its state and moments, and of the alerts who owns each id.
LEMMA RecordIs ==
  ASSUME NEW origin, NEW level, NEW now, Record(origin, level, now), ColTypes
  PROVE  /\ rules' = rules
         /\ DOMAIN states' = DOMAIN rules /\ states' = [i \in DOMAIN rules |-> states'[i]]
         /\ \A i \in DOMAIN rules : RuleRecorded(i, origin, Evaluated(origin, level, now))
         /\ DOMAIN seen'.breached = DOMAIN rules /\ DOMAIN seen'.waited = DOMAIN rules /\ DOMAIN seen'.notified = DOMAIN rules
         /\ seen'.breached = [i \in DOMAIN rules |-> seen'.breached[i]]
         /\ seen'.waited = [i \in DOMAIN rules |-> seen'.waited[i]]
         /\ seen'.notified = [i \in DOMAIN rules |-> seen'.notified[i]]
         /\ seen'.cgroup = seen.cgroup \cup {g \in Groups : origin[g] = "cgroup"}
         /\ seen'.owner = seen.owner \cup {<<a[2], seen.epoch, a[1]>> : a \in active'}
         /\ seen'.epoch = seen.epoch
         /\ active' = NotedIds
         /\ minted' = Max({minted} \cup {states'[i].at.id : i \in DOMAIN rules})
         /\ seen' = [cgroup |-> seen'.cgroup, owner |-> seen'.owner, epoch |-> seen'.epoch,
                     breached |-> seen'.breached, waited |-> seen'.waited, notified |-> seen'.notified]
<1>1. PICK ticked : ticked = Evaluated(origin, level, now)
  OBVIOUS
<1> DEFINE cgroup == seen.cgroup \cup {g \in Groups : origin[g] = "cgroup"}
           owner == seen.owner \cup {<<a[2], seen.epoch, a[1]>> : a \in active'}
           breached == [i \in DOMAIN rules |-> IF states'[i].at.breach = "clear" THEN Unseen
                                               ELSE IF seen.breached[i] = Unseen THEN Now ELSE seen.breached[i]]
           waited == [i \in DOMAIN rules |-> IF states'[i].at.breach = "clear" THEN Unseen
                         ELSE IF origin[rules[i].metric] = "carried" \/ seen.waited[i].clock = begun.clock
                              THEN seen.waited[i] ELSE Now]
           notified == [i \in DOMAIN rules |-> IF i \in {j \in DOMAIN rules : ticked[j].notify} THEN Now ELSE seen.notified[i]]
<1>2. /\ states' = [i \in DOMAIN rules |-> ticked[i].state]
      /\ minted' = Max({minted} \cup {states'[i].at.id : i \in DOMAIN rules})
      /\ active' = NotedIds /\ rules' = rules
      /\ seen' = [seen EXCEPT !.cgroup = cgroup, !.owner = owner, !.breached = breached, !.waited = waited,
                              !.notified = notified]
  BY <1>1, Zenon DEF Record, Now
<1>3. seen = [cgroup |-> seen.cgroup, owner |-> seen.owner, epoch |-> seen.epoch, breached |-> seen.breached, waited |-> seen.waited, notified |-> seen.notified]
  BY DEF ColTypes
<1>4. PICK cg, ow, br, wa, no : cg = cgroup /\ ow = owner /\ br = breached /\ wa = waited /\ no = notified
  OBVIOUS
<1>5. seen' = [cgroup |-> cg, owner |-> ow, epoch |-> seen.epoch, breached |-> br, waited |-> wa, notified |-> no]
  <2> HIDE DEF cgroup, owner, breached, waited, notified
  <2> QED BY <1>2, <1>3, <1>4
<1>6. /\ seen'.cgroup = cg /\ seen'.owner = ow /\ seen'.epoch = seen.epoch /\ seen'.breached = br
      /\ seen'.waited = wa /\ seen'.notified = no
  BY <1>5
<1>7. \A i \in DOMAIN rules :
         /\ states'[i] = ticked[i].state
         /\ br[i] = NextBreached(seen.breached[i], states'[i], Now)
         /\ wa[i] = NextWaited(seen.waited[i], states'[i], Now, origin[rules[i].metric] = "carried")
         /\ no[i] = NextNotified(seen.notified[i], ticked[i].notify, Now)
  BY <1>2, <1>4 DEF NextBreached, NextWaited, NextNotified, Now
<1>8. /\ DOMAIN br = DOMAIN rules /\ DOMAIN wa = DOMAIN rules /\ DOMAIN no = DOMAIN rules
      /\ br = [i \in DOMAIN rules |-> br[i]] /\ wa = [i \in DOMAIN rules |-> wa[i]]
      /\ no = [i \in DOMAIN rules |-> no[i]]
  BY <1>4
<1>9. cg = cgroup /\ ow = owner
  BY <1>4
<1>10. DOMAIN states' = DOMAIN rules /\ states' = [i \in DOMAIN rules |-> states'[i]]
  BY <1>2
<1>11. \A i \in DOMAIN rules : RuleRecorded(i, origin, Evaluated(origin, level, now))
  BY <1>1, <1>6, <1>7 DEF RuleRecorded
<1> HIDE DEF breached, waited, notified
<1> QED BY <1>2, <1>5, <1>6, <1>8, <1>9, <1>10, <1>11

\* The groups read from the cgroup after a tick.
LEMMA RecordCgroup ==
  ASSUME NEW origin, NEW level, NEW now, Record(origin, level, now), ColTypes
  PROVE  seen'.cgroup = seen.cgroup \cup {g \in Groups : origin[g] = "cgroup"}
  BY RecordIs

\* The ids given on a tick are numbers past the last one given.
LEMMA MintedIds ==
  ASSUME ColTypes, NEW mints \in SUBSET (DOMAIN rules), NEW i \in DOMAIN rules
  PROVE  /\ MintedId(i, mints) \in Nat
         /\ MintedId(i, mints) >= minted
         /\ MintedId(i, mints) <= minted + Len(rules)
         /\ i \in mints => MintedId(i, mints) > minted
         /\ \A j \in mints : i < j => MintedId(i, mints) < MintedId(j, mints)
<1>1. DOMAIN rules = 1..Len(rules) /\ Len(rules) \in Nat /\ minted \in Nat
  BY CollectorAssumption DEF ColTypes
<1>2. IsFiniteSet(1..Len(rules)) /\ Cardinality(1..Len(rules)) = Len(rules)
  <2>1. /\ IsFiniteSet(1..Len(rules))
        /\ Cardinality(1..Len(rules)) = IF 1 > Len(rules) THEN 0 ELSE Len(rules) - 1 + 1
    BY <1>1, FS_Interval
  <2> QED BY <2>1, <1>1
<1>3. \A j \in DOMAIN rules : /\ IsFiniteSet(mints \cap (1..j)) /\ Cardinality(mints \cap (1..j)) \in Nat
                              /\ Cardinality(mints \cap (1..j)) <= Len(rules)
  <2> TAKE j \in DOMAIN rules
  <2>1. mints \cap (1..j) \in SUBSET (1..Len(rules))
    BY <1>1
  <2> QED BY <2>1, <1>2, FS_Subset, FS_CardinalityType
<1>4. i \in mints => Cardinality(mints \cap (1..i)) > 0
  <2> SUFFICES ASSUME i \in mints PROVE Cardinality(mints \cap (1..i)) > 0
    OBVIOUS
  <2>1. i \in mints \cap (1..i)
    BY <1>1
  <2>2. PICK p : p = Cardinality(mints \cap (1..i))
    OBVIOUS
  <2>3. p # 0 /\ p \in Nat
    BY <2>1, <2>2, <1>3, FS_EmptySet
  <2> QED BY <2>2, <2>3
<1>5. \A j \in mints : i < j => Cardinality(mints \cap (1..i)) < Cardinality(mints \cap (1..j))
  <2> SUFFICES ASSUME NEW j \in mints, i < j
               PROVE  Cardinality(mints \cap (1..i)) < Cardinality(mints \cap (1..j))
    OBVIOUS
  <2>1. mints \cap (1..i) \in SUBSET (mints \cap (1..j))
    BY <1>1
  <2>2. j \in mints \cap (1..j) /\ j \notin mints \cap (1..i)
    BY <1>1
  <2>3. /\ Cardinality(mints \cap (1..i)) <= Cardinality(mints \cap (1..j))
        /\ Cardinality(mints \cap (1..j)) # Cardinality(mints \cap (1..i))
    BY <2>1, <2>2, <1>3, FS_Subset
  <2>4. PICK p, q : p = Cardinality(mints \cap (1..i)) /\ q = Cardinality(mints \cap (1..j))
    OBVIOUS
  <2>5. p \in Nat /\ q \in Nat /\ p <= q /\ p # q
    BY <2>3, <2>4, <1>3
  <2> QED BY <2>4, <2>5
<1>6. \A j \in DOMAIN rules : MintedId(j, mints) = minted + Cardinality(mints \cap (1..j))
  BY DEF MintedId
<1>7. \A j \in mints : j \in DOMAIN rules
  OBVIOUS
<1>8. MintedId(i, mints) \in Nat /\ MintedId(i, mints) >= minted /\ MintedId(i, mints) <= minted + Len(rules)
  <2>1. PICK p : p = Cardinality(mints \cap (1..i))
    OBVIOUS
  <2>2. p \in Nat /\ p <= Len(rules) /\ MintedId(i, mints) = minted + p
    BY <2>1, <1>3, <1>6
  <2> QED BY <2>2, <1>1
<1>9. i \in mints => MintedId(i, mints) > minted
  BY <1>1, <1>3, <1>4, <1>6
<1>10. \A j \in mints : i < j => MintedId(i, mints) < MintedId(j, mints)
  <2> SUFFICES ASSUME NEW j \in mints, i < j PROVE MintedId(i, mints) < MintedId(j, mints)
    OBVIOUS
  <2>1. PICK p, q : p = Cardinality(mints \cap (1..i)) /\ q = Cardinality(mints \cap (1..j))
    OBVIOUS
  <2>2. p \in Nat /\ q \in Nat /\ p < q
    BY <2>1, <1>3, <1>5, <1>7
  <2>3. MintedId(i, mints) = minted + p /\ MintedId(j, mints) = minted + q
    BY <2>1, <1>6, <1>7
  <2> QED BY <2>2, <2>3, <1>1
<1> QED BY <1>8, <1>9, <1>10

\* What a tick does to a rule.
RuleSound(i, t, origin, level) ==
    /\ TickSound(rules[i], states[i], seen.breached[i], seen.waited[i], seen.notified[i], t,
                 origin[rules[i].metric] = "carried", begun.readAt, begun.clock, begun.collectedAt - begun.readAt)
    /\ t.state.at.breach = "pending" /\ ReadingOf(i, origin, level) = "measured" =>
          begun.readAt - NextWaited(seen.waited[i], t.state, Now, origin[rules[i].metric] = "carried").at
            < Max({rules[i].duration, 1})
    /\ t.state.at.breach = "active" =>
          /\ ReadingOf(i, origin, level) # "unavailable"
          /\ \/ states[i].at.breach = "active" /\ t.state.at.id = states[i].at.id
             \/ /\ i \in Mints(origin, level, begun.collectedAt)
                /\ t.state.at.id = MintedId(i, Mints(origin, level, begun.collectedAt))
    /\ origin[rules[i].metric] = "carried" => t.state = states[i]
    /\ ~rules[i].enabled => t.state.at.breach = "clear"

\* Whatever the reading is, a rule's tick agrees with the moments seen of it.
LEMMA RulesSound ==
  ASSUME ColTypes, ClockInv, SeenInv, slot = "reading", NEW origin, NEW level, NEW i \in DOMAIN rules
  PROVE  RuleSound(i, Evaluated(origin, level, begun.collectedAt)[i], origin, level)
<1> DEFINE kept == origin[rules[i].metric] = "carried"
<1>1. PICK t : t = Evaluated(origin, level, begun.collectedAt)[i]
  OBVIOUS
<1>2. PICK id : id = MintedId(i, Mints(origin, level, begun.collectedAt))
  OBVIOUS
<1>3. id \in Nat
  <2>1. Mints(origin, level, begun.collectedAt) \in SUBSET (DOMAIN rules)
    BY DEF Mints
  <2> QED BY <2>1, <1>2, MintedIds
<1>4. t = IF rules[i].enabled
          THEN RuleTick(rules[i], states[i], ReadingOf(i, origin, level), level[rules[i].metric], begun.collectedAt, id)
          ELSE [state |-> states[i], notify |-> FALSE]
  BY <1>1, <1>2, EvaluatedIs
<1>5. /\ rules[i] \in RuleType /\ states[i] \in StateType
      /\ seen.breached[i] \in Moment /\ seen.waited[i] \in Moment /\ seen.notified[i] \in Moment
  <2>1. rules \in Seq(RuleType)
    BY CollectorAssumption DEF ColTypes, RuleType
  <2>2. rules[i] \in RuleType
    BY <2>1
  <2> QED BY <2>2 DEF ColTypes, StateType
<1>6. begun.readAt \in Nat /\ begun.clock \in Nat /\ begun.collectedAt \in Nat
  BY DEF ClockInv, ColTypes
<1>7. PICK off : off = begun.collectedAt - begun.readAt
  OBVIOUS
<1>8. off \in Int
  BY <1>6, <1>7
<1>9. /\ Moments(states[i], seen.breached[i], seen.waited[i], seen.notified[i], begun.readAt, begun.clock, off)
      /\ ~rules[i].enabled => states[i].at.breach = "clear"
  BY <1>7 DEF SeenInv, SeenOf
<1>10. CASE ~rules[i].enabled
  <2>1. t.state = states[i] /\ t.notify = FALSE
    BY <1>10, <1>4
  <2>2. TickSound(rules[i], states[i], seen.breached[i], seen.waited[i], seen.notified[i], t, kept, begun.readAt, begun.clock, off)
    BY <2>1, <1>5, <1>6, <1>8, <1>9, <1>10, KeptSound
  <2>3. t.state.at.breach = "clear"
    BY <2>1, <1>9, <1>10
  <2> QED BY <1>1, <1>7, <2>1, <2>2, <2>3 DEF RuleSound
<1>11. CASE rules[i].enabled /\ ReadingOf(i, origin, level) = "measured"
  <2>1. t = RuleTick(rules[i], states[i], "measured", level[rules[i].metric], begun.collectedAt, id)
    BY <1>4, <1>11
  <2>2. origin[rules[i].metric] # "carried"
    BY <1>11 DEF ReadingOf, Reading
  <2>3. kept = FALSE
    BY <2>2
  <2> HIDE DEF kept
  <2>4. MeasuredTick(rules[i], states[i], seen.breached[i], seen.waited[i], seen.notified[i], t, level[rules[i].metric],
                     begun.readAt, begun.clock, begun.collectedAt, id)
    BY <2>1, <1>3, <1>5, <1>6, <1>7, <1>9, MeasuredSound
  <2>5. /\ TickSound(rules[i], states[i], seen.breached[i], seen.waited[i], seen.notified[i], t, FALSE,
                     begun.readAt, begun.clock, begun.collectedAt - begun.readAt)
        /\ t.state.at.breach = "pending" =>
             begun.readAt - NextWaited(seen.waited[i], t.state, [at |-> begun.readAt, clock |-> begun.clock], FALSE).at
               < Max({rules[i].duration, 1})
        /\ t.state.at.breach = "active" =>
             \/ states[i].at.breach = "active" /\ t.state.at.id = states[i].at.id
             \/ IsBreached(rules[i], level[rules[i].metric]) /\ Activates(rules[i], states[i].at, begun.collectedAt) /\ t.state.at.id = id
    BY <2>4 DEF MeasuredTick
  <2>6. IsBreached(rules[i], level[rules[i].metric]) /\ Activates(rules[i], states[i].at, begun.collectedAt)
          => i \in Mints(origin, level, begun.collectedAt)
    BY <1>11 DEF Mints
  <2> QED BY <1>1, <1>2, <1>11, <2>2, <2>3, <2>5, <2>6 DEF RuleSound, Now, kept
<1>12. CASE rules[i].enabled /\ ReadingOf(i, origin, level) = "carried"
  <2>1. t.state = states[i] /\ t.notify = FALSE
    BY <1>12, <1>4 DEF RuleTick
  <2>2. kept
    BY <1>12 DEF ReadingOf, Reading
  <2>3. TickSound(rules[i], states[i], seen.breached[i], seen.waited[i], seen.notified[i], t, kept, begun.readAt, begun.clock, off)
    BY <2>1, <2>2, <1>5, <1>6, <1>8, <1>9, KeptSound
  <2> QED BY <1>1, <1>7, <1>12, <2>1, <2>3 DEF RuleSound
<1>13. CASE rules[i].enabled /\ ReadingOf(i, origin, level) \notin {"measured", "carried"}
  <2>1. t.state = Unread(states[i]) /\ t.notify = FALSE
    BY <1>13, <1>4 DEF RuleTick
  <2>2. TickSound(rules[i], states[i], seen.breached[i], seen.waited[i], seen.notified[i], t, kept, begun.readAt, begun.clock, off) /\ t.state.at.breach = "clear"
    <3> HIDE DEF kept
    <3>1. TickSound(rules[i], states[i], seen.breached[i], seen.waited[i], seen.notified[i], t, kept, begun.readAt, begun.clock, off)
      BY <2>1, <1>5, <1>6, <1>8, <1>9, UnreadSound
    <3>2. t.state.at.breach = "clear"
      BY <2>1, <1>5 DEF Unread, StateType, Clear
    <3> QED BY <3>1, <3>2
  <2>3. origin[rules[i].metric] # "carried"
    BY <1>13 DEF ReadingOf, Reading
  <2> QED BY <1>1, <1>7, <1>13, <2>2, <2>3 DEF RuleSound
<1> QED BY <1>10, <1>11, <1>12, <1>13

\* What is kept of a group's reading.
HistoryType == [lineage : Lineages, carry : Carries, since : Int]

\* A group once read from the cgroup never comes from the kernel again.
LEMMA SourceIs ==
  ASSUME NEW h \in HistoryType, NEW attempt, NEW t \in Int
  PROVE  LET chosen == SourceGroup(h, attempt, t)
         IN  /\ chosen.next \in HistoryType
             /\ chosen.origin = "cgroup" => chosen.next.lineage = "cgroup"
             /\ h.lineage = "cgroup" => chosen.origin # "kernel" /\ chosen.next.lineage = "cgroup"
<1>1. CASE attempt = "value"
  <2>1. SourceGroup(h, attempt, t) = [origin |-> "cgroup", next |-> CgroupRead]
    BY <1>1 DEF SourceGroup
  <2> QED BY <2>1 DEF CgroupRead, HistoryType, Lineages, Carries
<1>2. CASE attempt # "value" /\ h.lineage = "cgroup"
  <2>1. SourceGroup(h, attempt, t) = Carried(h, t)
    BY <1>2 DEF SourceGroup
  <2>2. CASE h.carry = "reading"
    <3>1. Carried(h, t) = [origin |-> "carried", next |-> [h EXCEPT !.carry = "since", !.since = t]]
      BY <2>2 DEF Carried
    <3>2. PICK x : x = [h EXCEPT !.carry = "since", !.since = t]
      OBVIOUS
    <3>3. x = [lineage |-> "cgroup", carry |-> "since", since |-> t]
      BY <3>2, <1>2 DEF HistoryType
    <3>4. x \in HistoryType /\ x.lineage = "cgroup"
      BY <3>3 DEF HistoryType, Lineages, Carries
    <3>5. SourceGroup(h, attempt, t) = [origin |-> "carried", next |-> x]
      BY <2>1, <3>1, <3>2
    <3> QED BY <3>4, <3>5
  <2>3. CASE h.carry = "since" /\ t - h.since <= CarryBound
    <3>1. Carried(h, t) = [origin |-> "carried", next |-> h]
      BY <2>3 DEF Carried
    <3> QED BY <2>1, <3>1, <1>2 DEF HistoryType
  <2>4. CASE ~(h.carry = "reading") /\ ~(h.carry = "since" /\ t - h.since <= CarryBound)
    <3>1. Carried(h, t) = [origin |-> "unavailable", next |-> [h EXCEPT !.carry = "expired", !.since = 0]]
      BY <2>4 DEF Carried
    <3>2. PICK x : x = [h EXCEPT !.carry = "expired", !.since = 0]
      OBVIOUS
    <3>3. x = [lineage |-> "cgroup", carry |-> "expired", since |-> 0]
      BY <3>2, <1>2 DEF HistoryType
    <3>4. x \in HistoryType /\ x.lineage = "cgroup"
      BY <3>3 DEF HistoryType, Lineages, Carries
    <3>5. SourceGroup(h, attempt, t) = [origin |-> "unavailable", next |-> x]
      BY <2>1, <3>1, <3>2
    <3> QED BY <3>4, <3>5
  <2> QED BY <2>2, <2>3, <2>4
<1>3. CASE attempt # "value" /\ h.lineage # "cgroup" /\ attempt = "absent"
  <2>1. SourceGroup(h, attempt, t) = [origin |-> "kernel", next |-> h]
    BY <1>3 DEF SourceGroup
  <2> QED BY <2>1, <1>3
<1>4. CASE attempt # "value" /\ h.lineage # "cgroup" /\ attempt # "absent"
  <2>1. SourceGroup(h, attempt, t) = [origin |-> "kernel", next |-> KernelFailing]
    BY <1>4 DEF SourceGroup
  <2> QED BY <2>1, <1>4 DEF KernelFailing, Untouched, HistoryType, Lineages, Carries
<1> QED BY <1>1, <1>2, <1>3, <1>4

-----------------------------------------------------------------------------
\* A read that ended: what was recorded is sound, rule by rule.
RuleAfter(i, origin, level) ==
    /\ states'[i] \in StateType /\ seen'.breached[i] \in Moment /\ seen'.waited[i] \in Moment
    /\ seen'.notified[i] \in Moment
    /\ Moments(states'[i], seen'.breached[i], seen'.waited[i], seen'.notified[i],
               begun.readAt, begun.clock, begun.collectedAt - begun.readAt)
    /\ ~rules[i].enabled => states'[i].at.breach = "clear"
    /\ states'[i].at.breach = "pending" /\ ReadingOf(i, origin, level) = "measured"
         => begun.readAt - seen'.waited[i].at < Max({rules[i].duration, 1})
    /\ states'[i].at.breach = "active" =>
         /\ ReadingOf(i, origin, level) # "unavailable"
         /\ \/ states[i].at.breach = "active" /\ states'[i].at.id = states[i].at.id
            \/ /\ i \in Mints(origin, level, begun.collectedAt)
               /\ states'[i].at.id = MintedId(i, Mints(origin, level, begun.collectedAt))
    /\ origin[rules[i].metric] = "carried" => states'[i] = states[i]
    /\ states[i].at.breach = "pending" /\ states'[i].at.breach = "active" /\ seen.breached[i].clock = begun.clock
         => begun.readAt - seen.breached[i].at >= rules[i].duration
    /\ seen.notified[i].at # -1 /\ seen'.notified[i] # seen.notified[i] /\ seen.notified[i].clock = begun.clock
         => seen'.notified[i] = Now /\ begun.readAt - seen.notified[i].at >= rules[i].cooldown
    /\ seen'.notified[i] # seen.notified[i] => seen'.notified[i] = Now

\* So do the state and the moments a tick records of a rule.
LEMMA RecordSound ==
  ASSUME ColTypes, ClockInv, SeenInv, slot = "reading", NEW origin, NEW level,
         Record(origin, level, begun.collectedAt), NEW i \in DOMAIN rules
  PROVE  RuleAfter(i, origin, level)
<1>1. PICK t : t = Evaluated(origin, level, begun.collectedAt)[i]
  OBVIOUS
<1>2. RuleSound(i, t, origin, level)
  BY <1>1, RulesSound
<1>3. /\ states'[i] = t.state
      /\ seen'.breached[i] = NextBreached(seen.breached[i], t.state, Now)
      /\ seen'.waited[i] = NextWaited(seen.waited[i], t.state, Now, origin[rules[i].metric] = "carried")
      /\ seen'.notified[i] = NextNotified(seen.notified[i], t.notify, Now)
  <2>1. RuleRecorded(i, origin, Evaluated(origin, level, begun.collectedAt))
    BY RecordIs
  <2> QED BY <1>1, <2>1 DEF RuleRecorded
<1>4. PICK off, kept : off = begun.collectedAt - begun.readAt /\ kept = (origin[rules[i].metric] = "carried")
  OBVIOUS
<1>5. TickSound(rules[i], states[i], seen.breached[i], seen.waited[i], seen.notified[i], t, kept, begun.readAt, begun.clock, off)
  BY <1>2, <1>4 DEF RuleSound
<1>6. seen'.waited[i] = NextWaited(seen.waited[i], t.state, Now, kept)
  BY <1>3, <1>4
<1>7. /\ t.state \in StateType
      /\ Moments(t.state, seen'.breached[i], seen'.waited[i], seen'.notified[i], begun.readAt, begun.clock, off)
      /\ states[i].at.breach = "pending" /\ t.state.at.breach = "active" /\ seen.breached[i].clock = begun.clock
           => begun.readAt - seen.breached[i].at >= rules[i].duration
      /\ seen.notified[i].at # -1 /\ t.notify /\ seen.notified[i].clock = begun.clock
           => begun.readAt - seen.notified[i].at >= rules[i].cooldown
  BY <1>5, <1>3, <1>6 DEF TickSound, Now
<1>8. Now \in Moment /\ Unseen \in Moment
  BY DEF Now, Moment, ColTypes, Unseen
<1>9. seen.breached[i] \in Moment /\ seen.waited[i] \in Moment /\ seen.notified[i] \in Moment
  BY DEF ColTypes
<1>10. seen'.breached[i] \in Moment /\ seen'.waited[i] \in Moment /\ seen'.notified[i] \in Moment
  BY <1>3, <1>6, <1>8, <1>9 DEF NextBreached, NextWaited, NextNotified
<1>11. seen'.notified[i] # seen.notified[i] => t.notify /\ seen'.notified[i] = Now
  BY <1>3 DEF NextNotified
<1>12. /\ t.state.at.breach = "pending" /\ ReadingOf(i, origin, level) = "measured" =>
             begun.readAt - seen'.waited[i].at < Max({rules[i].duration, 1})
       /\ t.state.at.breach = "active" =>
             /\ ReadingOf(i, origin, level) # "unavailable"
             /\ \/ states[i].at.breach = "active" /\ t.state.at.id = states[i].at.id
                \/ /\ i \in Mints(origin, level, begun.collectedAt)
                   /\ t.state.at.id = MintedId(i, Mints(origin, level, begun.collectedAt))
       /\ origin[rules[i].metric] = "carried" => t.state = states[i]
       /\ ~rules[i].enabled => t.state.at.breach = "clear"
  BY <1>2, <1>3 DEF RuleSound
<1>13. states'[i] = t.state
  BY <1>3
<1> QED BY <1>4, <1>7, <1>10, <1>11, <1>12, <1>13 DEF RuleAfter

-----------------------------------------------------------------------------
\* What was seen stays seen, and says nothing of a later clock.
LEMMA LaterMoments ==
  ASSUME NEW s, NEW b, NEW w, NEW n, NEW at \in Int, NEW c \in Nat, NEW off, NEW at2 \in Int, NEW c2 \in Nat, NEW off2,
         at <= at2, c <= c2, c = c2 => off = off2, Moments(s, b, w, n, at, c, off)
  PROVE  Moments(s, b, w, n, at2, c2, off2)
<1>1. Told(s, b, w, n) /\ Seen(b, at, c) /\ Seen(w, at, c) /\ Seen(n, at, c) /\ OnClock(s, b, w, n, c, off)
  BY DEF Moments
<1>2. Seen(b, at2, c2) /\ Seen(w, at2, c2) /\ Seen(n, at2, c2)
  BY <1>1 DEF Seen
<1>3. OnClock(s, b, w, n, c2, off2)
  <2>1. CASE c = c2
    BY <1>1, <2>1
  <2>2. CASE c # c2
    <3>1. b.clock # c2 /\ w.clock # c2 /\ n.clock # c2
      BY <1>1, <2>2 DEF Seen, Unseen
    <3> QED BY <3>1 DEF OnClock
  <2> QED BY <2>1, <2>2
<1> QED BY <1>1, <1>2, <1>3 DEF Moments

\* The largest step is one of the sizes and bounds them.
LEMMA LargestStep ==
  /\ Max(StepSizes) \in Nat
  /\ \A size \in StepSizes : size <= Max(StepSizes)
<1>1. PICK l \in StepSizes : \A size \in StepSizes : l >= size
  BY CollectorAssumption
<1>2. Max(StepSizes) \in StepSizes /\ \A size \in StepSizes : Max(StepSizes) >= size
  BY <1>1 DEF Max
<1> QED BY <1>2, CollectorAssumption

\* The collector's bounds are numbers.
LEMMA CollectorBounds == MaxSteps \in Nat /\ MaxMono \in Nat
  BY CollectorAssumption

\* The wall clock stays a time, however it steps.
LEMMA WallIsNat ==
  ASSUME ColTypes, ClockInv
  PROVE  wall \in Nat
<1>1. PICK p : p = (MaxSteps - steps) * Max(StepSizes)
  OBVIOUS
<1>2. steps \in 0..MaxSteps
  BY DEF ColTypes
<1>3. MaxSteps - steps \in Nat /\ Max(StepSizes) \in Nat
  BY <1>2, LargestStep, CollectorBounds
<1>4. p \in Nat
  BY <1>1, <1>3
<1>5. wall >= p /\ wall \in Int
  BY <1>1 DEF ClockInv, ColTypes
<1> QED BY <1>4, <1>5

\* A step that publishes nothing and leaves the rules.
LEMMA QuietStep ==
  ASSUME ColInv, UNCHANGED <<history, published, manager, seen>>
  PROVE  PublishedInv' /\ IdsInv'
<1>1. /\ history' = history /\ published' = published /\ rules' = rules /\ states' = states /\ minted' = minted
      /\ active' = active /\ seen' = seen
  BY DEF manager
<1>2. PublishedInv'
  BY <1>1 DEF ColInv, PublishedInv, Shows, Reading, FiresInTime
<1>3. IdsInv'
  BY <1>1 DEF ColInv, IdsInv, IncidentIdsUnique
<1> QED BY <1>2, <1>3

\* The clocks advance together: what was seen stays as far back as it was.
LEMMA ClockTickStep ==
  ASSUME ColInv, CollectorClock
  PROVE  ColInv'
<1>1. /\ mono' = mono + 1 /\ wall' = wall + 1 /\ mono < MaxMono
      /\ UNCHANGED <<history, published, manager, seen>>
      /\ UNCHANGED <<slot, begun, nextTick, primedAt, prevCpu, history, published, rules, states, minted, active, panics, steps, seen>>
  BY DEF CollectorClock, sampler, manager
<1>2. mono \in 0..MaxMono /\ wall \in Int /\ steps \in 0..MaxSteps /\ primedAt \in 0..mono
  BY DEF ColInv, ColTypes
<1>3. mono' \in 0..MaxMono /\ wall' \in Int /\ primedAt' \in 0..mono'
  BY <1>1, <1>2, CollectorBounds
<1>4. ColTypes'
  BY <1>1, <1>3 DEF ColInv, ColTypes
<1>5. ClockInv'
  <2>1. PICK p : p = (MaxSteps - steps) * Max(StepSizes)
    OBVIOUS
  <2>2. p \in Int /\ wall >= p
    <3>1. wall >= p
      BY <2>1 DEF ColInv, ClockInv
    <3>2. p \in Int
      BY <2>1, <1>2, LargestStep, CollectorBounds
    <3> QED BY <3>1, <3>2
  <2>3. (MaxSteps - steps') * Max(StepSizes) = p
    BY <1>1, <2>1
  <2>4. wall' >= p
    BY <1>1, <2>2 DEF ColInv, ColTypes
  <2>5. (slot = "reading" =>
          /\ begun.readAt \in 0..mono /\ begun.clock \in 0..steps /\ begun.collectedAt \in Nat
          /\ begun.clock = steps => begun.collectedAt - begun.readAt = wall - mono)'
    <3>1. slot = "reading" =>
          /\ begun.readAt \in 0..mono /\ begun.clock \in 0..steps /\ begun.collectedAt \in Nat
          /\ begun.clock = steps => begun.collectedAt - begun.readAt = wall - mono
      BY DEF ColInv, ClockInv
    <3>2. wall' - mono' = wall - mono /\ \A x \in 0..mono : x \in 0..mono'
      BY <1>1, <1>2
    <3> QED BY <1>1, <3>1, <3>2
  <2> QED BY <2>3, <2>4, <2>5 DEF ClockInv
<1>6. SeenInv'
  <2> SUFFICES ASSUME NEW i \in DOMAIN rules
               PROVE  SeenOf(i, mono', steps, wall' - mono')
    BY <1>1 DEF ColInv, SeenInv, SeenOf
  <2>1. SeenOf(i, mono, steps, wall - mono)
    BY DEF ColInv, SeenInv
  <2>2. wall' - mono' = wall - mono /\ mono <= mono' /\ mono \in Int /\ mono' \in Int /\ steps \in Nat
    BY <1>1, <1>2
  <2> QED BY <2>1, <2>2, LaterMoments DEF SeenOf
<1> QED BY <1>1, <1>4, <1>5, <1>6, QuietStep DEF ColInv

\* The system clock steps: no moment has been seen on the new clock yet.
LEMMA ClockStepStep ==
  ASSUME ColInv, ClockStep
  PROVE  ColInv'
<1>1. /\ steps' = steps + 1 /\ steps < MaxSteps
      /\ UNCHANGED <<history, published, manager, seen>>
      /\ UNCHANGED <<mono, slot, begun, nextTick, primedAt, prevCpu, history, published, rules, states, minted, active, panics, seen>>
  BY DEF ClockStep, sampler, manager
<1>2. PICK size \in StepSizes : wall' \in {wall + size, wall - size}
  BY DEF ClockStep
<1>3. size \in Nat /\ size <= Max(StepSizes) /\ Max(StepSizes) \in Nat /\ MaxSteps \in Nat
  BY LargestStep, CollectorAssumption
<1>4. ColTypes'
  BY <1>1, <1>2, <1>3 DEF ColInv, ColTypes
<1>5. ClockInv'
  <2>1. PICK l : l = Max(StepSizes)
    OBVIOUS
  <2>2. wall >= (MaxSteps - steps) * l /\ wall \in Int /\ steps \in Nat
    BY <2>1 DEF ColInv, ColTypes, ClockInv
  <2>3. (MaxSteps - steps) * l = (MaxSteps - (steps + 1)) * l + l
    BY <2>1, <2>2, <1>3
  <2>4. (MaxSteps - (steps + 1)) * l \in Int
    BY <2>1, <2>2, <1>3
  <2>5. PICK p : p = (MaxSteps - (steps + 1)) * l
    OBVIOUS
  <2>6. wall >= p + l /\ p \in Int
    BY <2>2, <2>3, <2>4, <2>5
  <2>7. wall' >= p
    BY <2>6, <2>2, <2>1, <1>2, <1>3
  <2>8. wall' >= (MaxSteps - steps') * Max(StepSizes)
    BY <2>1, <2>5, <2>7, <1>1
  <2>9. (slot = "reading" =>
          /\ begun.readAt \in 0..mono /\ begun.clock \in 0..steps /\ begun.collectedAt \in Nat
          /\ begun.clock = steps => begun.collectedAt - begun.readAt = wall - mono)'
    BY <1>1 DEF ColInv, ColTypes, ClockInv
  <2> QED BY <2>8, <2>9 DEF ClockInv
<1>6. SeenInv'
  <2> SUFFICES ASSUME NEW i \in DOMAIN rules
               PROVE  SeenOf(i, mono, steps + 1, wall' - mono)
    BY <1>1 DEF ColInv, SeenInv, SeenOf
  <2>1. SeenOf(i, mono, steps, wall - mono)
    BY DEF ColInv, SeenInv
  <2> QED BY <2>1, LaterMoments DEF SeenOf, ColInv, ColTypes
<1> QED BY <1>1, <1>4, <1>5, <1>6, QuietStep DEF ColInv

\* The read begins on the clock of now, from which all that was seen is past.
LEMMA ReadBeginStep ==
  ASSUME ColInv, ReadBegin
  PROVE  ColInv'
<1>1. /\ slot' = "reading" /\ begun' = [readAt |-> mono, collectedAt |-> wall, clock |-> steps]
      /\ nextTick' = mono + Period /\ UNCHANGED <<history, published, manager, seen>>
      /\ UNCHANGED <<mono, wall, primedAt, prevCpu, history, published, rules, states, minted, active, panics, steps, seen>>
  BY DEF ReadBegin, manager
<1>2. mono \in 0..MaxMono /\ wall \in Int /\ steps \in 0..MaxSteps /\ wall \in Nat
  BY WallIsNat DEF ColInv, ColTypes
<1>3. begun'.readAt = mono /\ begun'.collectedAt = wall /\ begun'.clock = steps
  BY <1>1
<1>4. Period \in Nat
  BY CollectorAssumption
<1>5. nextTick' \in Nat /\ begun' \in [readAt : Int, collectedAt : Int, clock : Int]
  BY <1>1, <1>2, <1>4, CollectorBounds
<1>6. ColTypes'
  BY <1>1, <1>5 DEF ColInv, ColTypes
<1>7. ClockInv'
  BY <1>1, <1>2, <1>3, CollectorBounds DEF ColInv, ClockInv
<1>8. SeenInv'
  BY <1>1, <1>3 DEF ColInv, SeenInv, SeenOf
<1> QED BY <1>1, <1>6, <1>7, <1>8, QuietStep DEF ColInv

\* A step of the sampler that ends no read and publishes nothing.
LEMMA SamplerStep ==
  ASSUME ColInv, slot' \in {"ready", "broken"}, begun' \in {begun, NoRead}, nextTick' \in Nat, primedAt' \in 0..mono,
         prevCpu' \in BOOLEAN, UNCHANGED <<mono, wall, history, published, manager, steps, seen>>
  PROVE  ColInv'
<1>1. /\ UNCHANGED <<history, published, manager, seen>>
      /\ UNCHANGED <<mono, wall, history, published, rules, states, minted, active, steps, seen>>
  BY DEF manager
<1>2. begun' \in [readAt : Int, collectedAt : Int, clock : Int] /\ slot' # "reading"
  BY DEF NoRead, ColInv, ColTypes
<1>3. ColTypes'
  BY <1>1, <1>2 DEF ColInv, ColTypes
<1>4. ClockInv'
  BY <1>1, <1>2 DEF ColInv, ClockInv
<1>5. SeenInv'
  BY <1>1, <1>2 DEF ColInv, SeenInv, SeenOf
<1> QED BY <1>1, <1>3, <1>4, <1>5, QuietStep DEF ColInv

\* A read that panics, and the sampler built anew, publish nothing.
LEMMA PanicSteps ==
  ASSUME ColInv, ReadPanics \/ RebuildSampler
  PROVE  ColInv'
<1>1. mono \in 0..MaxMono /\ primedAt \in 0..mono /\ nextTick \in Nat /\ prevCpu \in BOOLEAN /\ slot \in {"ready", "reading", "broken"}
  BY DEF ColInv, ColTypes
<1>2. Period \in Nat
  BY CollectorAssumption
<1>3. /\ primedAt \in 0..mono /\ nextTick \in Nat /\ prevCpu \in BOOLEAN
      /\ mono \in 0..mono /\ mono + Period \in Nat
  BY <1>1, <1>2, CollectorBounds
<1>4. /\ slot' \in {"ready", "broken"} /\ begun' \in {begun, NoRead} /\ nextTick' \in Nat /\ primedAt' \in 0..mono
      /\ prevCpu' \in BOOLEAN /\ UNCHANGED <<mono, wall, history, published, manager, steps, seen>>
  <2>1. CASE ReadPanics
    BY <2>1, <1>3 DEF ReadPanics, Primed
  <2>2. CASE RebuildSampler
    BY <2>2, <1>3 DEF RebuildSampler, Primed
  <2> QED BY <2>1, <2>2
<1> QED BY <1>4, SamplerStep

\* The state of rules that have not ticked.
LEMMA NewRules ==
  ASSUME NEW at, NEW c, NEW off, c >= 0, c \in Int
  PROVE  NewState \in StateType /\ Unseen \in Moment /\ Moments(NewState, Unseen, Unseen, Unseen, at, c, off)
         /\ NewState.at.breach = "clear"
<1>1. NewState.at.breach = "clear" /\ NewState.at.id = 0 /\ NewState.notified = NeverNotified /\ Unseen.clock = -1
  BY DEF NewState, Clear, Unseen
<1>2. NewState \in StateType /\ Unseen \in Moment
  BY DEF NewState, Clear, StateType, Breach, Breaches, NeverNotified, Unseen, Moment
<1>3. Told(NewState, Unseen, Unseen, Unseen)
  BY <1>1 DEF Told, NeverNotified
<1>4. Seen(Unseen, at, c) /\ OnClock(NewState, Unseen, Unseen, Unseen, c, off)
  BY <1>1 DEF Seen, OnClock
<1> QED BY <1>1, <1>2, <1>3, <1>4 DEF Moments

\* New rules start clear, with nothing seen, and the ids given out stay taken.
LEMMA ReplaceStep ==
  ASSUME ColInv, ReplaceRules
  PROVE  ColInv'
<1> DEFINE blank == [i \in 1..Len(rules') |-> Unseen]
<1>1. /\ rules' \in RuleSets /\ states' = [i \in DOMAIN rules' |-> NewState] /\ active' = {}
      /\ seen' = [NothingSeen(Len(rules')) EXCEPT !.cgroup = seen.cgroup, !.owner = seen.owner, !.epoch = seen.epoch + 1]
      /\ UNCHANGED <<mono, wall, slot, begun, nextTick, primedAt, prevCpu, history, published, minted, panics, steps>>
  BY DEF ReplaceRules, sampler
<1>2. seen' = [cgroup |-> seen.cgroup, owner |-> seen.owner, epoch |-> seen.epoch + 1,
               breached |-> blank, waited |-> blank, notified |-> blank]
  BY <1>1 DEF NothingSeen
<1>3. DOMAIN rules' = 1..Len(rules')
  BY <1>1, CollectorAssumption
<1>4. /\ seen'.cgroup = seen.cgroup /\ seen'.owner = seen.owner /\ seen'.epoch = seen.epoch + 1
      /\ seen'.breached = blank /\ seen'.waited = blank /\ seen'.notified = blank
  BY <1>2
<1>5. \A i \in DOMAIN rules' : states'[i] = NewState /\ blank[i] = Unseen
  BY <1>1, <1>3
<1>6. NewState \in StateType /\ Unseen \in Moment /\ NewState.at.breach = "clear"
  BY NewRules
<1>7. states' \in [DOMAIN rules' -> StateType] /\ blank \in [DOMAIN rules' -> Moment]
  BY <1>1, <1>3, <1>6
<1>8. mono \in 0..MaxMono /\ steps \in Nat /\ (slot = "reading" => begun.clock \in Nat)
  BY DEF ColInv, ColTypes, ClockInv
<1>9. ColTypes'
  <2>1. seen.cgroup \subseteq Groups /\ seen.epoch \in Nat
    BY DEF ColInv, ColTypes
  <2> HIDE DEF blank
  <2>2. seen' = [cgroup |-> seen'.cgroup, owner |-> seen'.owner, epoch |-> seen'.epoch, breached |-> seen'.breached, waited |-> seen'.waited, notified |-> seen'.notified]
    BY <1>2, <1>4
  <2>3. seen'.cgroup \subseteq Groups /\ seen'.epoch \in Nat
    BY <1>4, <2>1
  <2> QED BY <1>1, <1>4, <1>7, <2>2, <2>3 DEF ColInv, ColTypes, StateType
<1>10. ClockInv'
  BY <1>1 DEF ColInv, ClockInv
<1>11. SeenInv'
  <2> SUFFICES ASSUME NEW i \in DOMAIN rules'
               PROVE  /\ states'[i].at.breach = "clear"
                      /\ SeenOf(i, mono, steps, wall - mono)'
                      /\ slot = "reading" => SeenOf(i, begun.readAt, begun.clock, begun.collectedAt - begun.readAt)'
    BY <1>1 DEF SeenInv
  <2>1. states'[i] = NewState /\ seen'.breached[i] = Unseen /\ seen'.waited[i] = Unseen /\ seen'.notified[i] = Unseen
    BY <1>4, <1>5
  <2> HIDE DEF blank
  <2>2. \A at, c, off : c \in Nat => Moments(states'[i], seen'.breached[i], seen'.waited[i], seen'.notified[i], at, c, off)
    BY <2>1, NewRules
  <2>3. SeenOf(i, mono, steps, wall - mono)'
    BY <2>2, <1>8, <1>1 DEF SeenOf
  <2>4. slot = "reading" => SeenOf(i, begun.readAt, begun.clock, begun.collectedAt - begun.readAt)'
    BY <2>2, <1>8, <1>1 DEF SeenOf
  <2> QED BY <2>1, <2>3, <2>4, <1>6
<1>12. PublishedInv'
  <2>1. \A i \in DOMAIN rules' : states'[i].at.breach = "clear"
    BY <1>5, <1>6
  <2> QED BY <2>1, <1>1, <1>4 DEF ColInv, PublishedInv, FiresInTime
<1>13. IdsInv'
  <2>1. \A i \in DOMAIN rules' : states'[i].at.breach # "active"
    BY <1>5, <1>6
  <2> QED BY <2>1, <1>1, <1>4 DEF ColInv, IdsInv, IncidentIdsUnique
<1> QED BY <1>9, <1>10, <1>11, <1>12, <1>13 DEF ColInv

\* The start.
LEMMA ColStarts == CollectorInit => ColInv
<1> SUFFICES ASSUME CollectorInit PROVE ColInv
  OBVIOUS
<1> DEFINE blank == [i \in 1..Len(rules) |-> Unseen]
<1>1. /\ mono = 0 /\ wall = MaxSteps * Max(StepSizes) /\ slot = "ready" /\ begun = NoRead /\ nextTick = Period
      /\ primedAt = 0 /\ prevCpu \in BOOLEAN /\ history = [g \in Groups |-> Untouched]
      /\ rules \in RuleSets /\ states = [i \in DOMAIN rules |-> NewState] /\ minted = 0 /\ active = {}
      /\ steps = 0 /\ published.readAt = 0
  BY DEF CollectorInit
<1>2. seen = [cgroup |-> {}, owner |-> {}, epoch |-> 1, breached |-> blank, waited |-> blank, notified |-> blank]
  BY DEF CollectorInit, NothingSeen
<1>3. DOMAIN rules = 1..Len(rules)
  BY <1>1, CollectorAssumption
<1>4. seen.cgroup = {} /\ seen.owner = {} /\ seen.epoch = 1 /\ seen.breached = blank /\ seen.waited = blank /\ seen.notified = blank
  BY <1>2
<1>5. \A i \in DOMAIN rules : states[i] = NewState /\ blank[i] = Unseen
  BY <1>1, <1>3
<1>6. NewState \in StateType /\ Unseen \in Moment /\ NewState.at.breach = "clear"
  BY NewRules
<1>7. states \in [DOMAIN rules -> StateType] /\ blank \in [DOMAIN rules -> Moment]
  BY <1>1, <1>3, <1>6
<1>8. PICK p : p = MaxSteps * Max(StepSizes)
  OBVIOUS
<1>9. p \in Nat
  BY <1>8, LargestStep, CollectorBounds
<1>10. history \in [Groups -> HistoryType] /\ begun \in [readAt : Int, collectedAt : Int, clock : Int] /\ Period \in Nat
  BY <1>1, CollectorAssumption DEF Untouched, HistoryType, Lineages, Carries, NoRead
<1>11. mono \in 0..MaxMono /\ wall \in Int /\ steps \in 0..MaxSteps /\ nextTick \in Nat /\ primedAt \in 0..mono
       /\ published.readAt \in Int
  BY <1>1, <1>8, <1>9, <1>10, CollectorBounds
<1>12. ColTypes
  <2> HIDE DEF blank
  <2> QED BY <1>1, <1>2, <1>4, <1>7, <1>10, <1>11 DEF ColTypes, StateType, HistoryType
<1>13. ClockInv
  <2>1. MaxSteps - steps = MaxSteps
    BY <1>1, CollectorBounds
  <2> QED BY <1>1, <1>8, <1>9, <2>1 DEF ClockInv
<1>14. SeenInv
  <2> SUFFICES ASSUME NEW i \in DOMAIN rules
               PROVE  states[i].at.breach = "clear" /\ SeenOf(i, mono, steps, wall - mono)
    BY <1>1 DEF SeenInv
  <2>1. states[i] = NewState /\ seen.breached[i] = Unseen /\ seen.waited[i] = Unseen /\ seen.notified[i] = Unseen
    BY <1>4, <1>5
  <2>2. steps >= 0 /\ steps \in Int
    BY <1>1
  <2> HIDE DEF blank
  <2> QED BY <2>1, <2>2, <1>6, NewRules DEF SeenOf
<1>15. PublishedInv
  <2>1. \A i \in DOMAIN rules : states[i].at.breach = "clear"
    BY <1>5, <1>6
  <2> QED BY <2>1, <1>4 DEF PublishedInv, FiresInTime
<1>16. IdsInv
  <2>1. \A i \in DOMAIN rules : states[i].at.breach # "active"
    BY <1>5, <1>6
  <2> QED BY <2>1, <1>1, <1>4 DEF IdsInv, IncidentIdsUnique
<1> QED BY <1>12, <1>13, <1>14, <1>15, <1>16 DEF ColInv

\* The ids after a tick: none is above the last one given, and no two incidents share one.
LEMMA RecordIds ==
  ASSUME ColInv, slot = "reading", NEW origin, NEW level, Record(origin, level, begun.collectedAt)
  PROVE  minted' \in Nat /\ IdsInv'
<1> DEFINE mints == Mints(origin, level, begun.collectedAt)
           ids == {minted} \cup {states'[i].at.id : i \in DOMAIN rules}
<1>1. ColTypes /\ ClockInv /\ SeenInv /\ IdsInv
  BY DEF ColInv
<1>2. /\ rules' = rules /\ DOMAIN states' = DOMAIN rules /\ seen'.epoch = seen.epoch /\ active' = NotedIds
      /\ seen'.owner = seen.owner \cup {<<a[2], seen.epoch, a[1]>> : a \in active'}
      /\ minted' = Max(ids)
  BY <1>1, RecordIs
<1>3. mints \in SUBSET (DOMAIN rules)
  BY DEF Mints
<1> HIDE DEF mints
<1>4. minted \in Nat /\ DOMAIN rules = 1..Len(rules) /\ Len(rules) \in Nat
  BY <1>1, CollectorAssumption DEF ColTypes
<1>5. \A i \in DOMAIN rules :
         /\ states'[i].at.breach = "active" =>
               \/ states[i].at.breach = "active" /\ states'[i].at.id = states[i].at.id
               \/ i \in mints /\ states'[i].at.id = MintedId(i, mints)
         /\ states'[i].at.breach # "active" => states'[i].at.id = 0
         /\ states'[i].at.id \in Nat
  <2> TAKE i \in DOMAIN rules
  <2>1. /\ states'[i] \in StateType
        /\ Moments(states'[i], seen'.breached[i], seen'.waited[i], seen'.notified[i],
                   begun.readAt, begun.clock, begun.collectedAt - begun.readAt)
        /\ states'[i].at.breach = "active" =>
              \/ states[i].at.breach = "active" /\ states'[i].at.id = states[i].at.id
              \/ i \in mints /\ states'[i].at.id = MintedId(i, mints)
    <3>1. RuleAfter(i, origin, level)
      BY <1>1, RecordSound
    <3> QED BY <3>1 DEF RuleAfter, mints
  <2>2. states'[i].at.breach # "active" => states'[i].at.id = 0
    BY <2>1 DEF Moments, Told
  <2>3. states'[i].at.id \in Nat
    BY <2>1 DEF StateType, Breach
  <2> QED BY <2>1, <2>2, <2>3
<1>6. \A i \in DOMAIN rules : states[i].at.breach = "active" =>
          states[i].at.id \in 1..minted /\ <<states[i].at.id, seen.epoch, i>> \in seen.owner
  BY <1>1 DEF IdsInv
<1>7. \A i \in DOMAIN rules : states'[i].at.id <= minted + Len(rules)
  <2> TAKE i \in DOMAIN rules
  <2>1. MintedId(i, mints) <= minted + Len(rules)
    BY <1>1, <1>3, MintedIds
  <2>2. PICK x : x = states'[i].at.id
    OBVIOUS
  <2>3. x = 0 \/ x \in 1..minted \/ x = MintedId(i, mints)
    BY <2>2, <1>5, <1>6
  <2> QED BY <2>1, <2>2, <2>3, <1>4
<1>8. minted' \in ids /\ \A x \in ids : x <= minted'
  <2>1. ids \subseteq Nat /\ ids # {} /\ \A x \in ids : x <= minted + Len(rules)
    BY <1>4, <1>5, <1>7
  <2>2. minted + Len(rules) \in Nat
    BY <1>4
  <2> HIDE DEF ids
  <2>3. \E m \in ids : \A x \in ids : x <= m
    BY <2>1, <2>2, GreatestNatural
  <2>4. PICK m \in ids : \A x \in ids : m >= x
    BY <2>1, <2>3
  <2>5. Max(ids) \in ids /\ \A x \in ids : Max(ids) >= x
    BY <2>4 DEF Max
  <2> QED BY <1>2, <2>1, <2>5
<1>9. minted' \in Nat /\ minted <= minted' /\ \A i \in DOMAIN rules : states'[i].at.id <= minted'
  BY <1>4, <1>5, <1>8
<1>10. active' = {<<i, states'[i].at.id>> : i \in {j \in DOMAIN rules : states'[j].at.breach = "active"}}
  BY <1>2 DEF NotedIds
<1>11. \A i \in DOMAIN rules : i \in mints => MintedId(i, mints) > minted
  BY <1>1, <1>3, MintedIds
<1>12. \A i \in DOMAIN rules : states'[i].at.breach = "active" =>
          states'[i].at.id \in 1..minted' /\ <<states'[i].at.id, seen.epoch, i>> \in seen'.owner
  <2> SUFFICES ASSUME NEW i \in DOMAIN rules, states'[i].at.breach = "active"
               PROVE  states'[i].at.id \in 1..minted' /\ <<states'[i].at.id, seen.epoch, i>> \in seen'.owner
    OBVIOUS
  <2>1. <<i, states'[i].at.id>> \in active'
    BY <1>10
  <2>2. <<states'[i].at.id, seen.epoch, i>> \in seen'.owner
    BY <2>1, <1>2
  <2>3. PICK x : x = states'[i].at.id
    OBVIOUS
  <2>4. x \in Nat /\ (x \in 1..minted \/ x > minted)
    BY <2>3, <1>5, <1>6, <1>11
  <2>5. states'[i].at.id > 0
    BY <2>3, <2>4, <1>4
  <2> QED BY <2>2, <2>5, <1>5, <1>9
\* A new owner is of a rule that is active now.
<1>13. \A a \in seen'.owner : \/ a \in seen.owner
                              \/ \E i \in DOMAIN rules : states'[i].at.breach = "active" /\ a = <<states'[i].at.id, seen.epoch, i>>
  BY <1>2, <1>10
<1>14. \A a \in seen.owner : a[1] \in 1..minted
  BY <1>1 DEF IdsInv
<1>15. \A a \in seen'.owner : a[1] \in 1..minted'
  BY <1>9, <1>12, <1>13, <1>14, <1>4
\* A new owner has a new id, or is an owner already.
<1>16. \A a \in seen'.owner : \/ a \in seen.owner
                              \/ \E i \in mints : a = <<MintedId(i, mints), seen.epoch, i>>
  BY <1>13, <1>5, <1>6
<1>17. \A i, j \in mints : MintedId(i, mints) = MintedId(j, mints) => i = j
  <2> SUFFICES ASSUME NEW i \in mints, NEW j \in mints, MintedId(i, mints) = MintedId(j, mints), i # j
               PROVE  FALSE
    OBVIOUS
  <2>1. i \in DOMAIN rules /\ j \in DOMAIN rules /\ i \in Nat /\ j \in Nat
    BY <1>3, <1>4
  <2>2. MintedId(i, mints) \in Nat /\ MintedId(j, mints) \in Nat
    BY <2>1, <1>1, <1>3, MintedIds
  <2>3. i < j => MintedId(i, mints) < MintedId(j, mints)
    BY <2>1, <1>1, <1>3, MintedIds
  <2>4. j < i => MintedId(j, mints) < MintedId(i, mints)
    BY <2>1, <1>1, <1>3, MintedIds
  <2> QED BY <2>1, <2>2, <2>3, <2>4
<1>18. \A a, b \in seen'.owner : a[1] = b[1] => a = b
  <2> SUFFICES ASSUME NEW a \in seen'.owner, NEW b \in seen'.owner, a[1] = b[1] PROVE a = b
    OBVIOUS
  <2>1. CASE a \in seen.owner /\ b \in seen.owner
    BY <2>1, <1>1 DEF IdsInv, IncidentIdsUnique
  <2>2. \A i \in mints : MintedId(i, mints) > minted /\ MintedId(i, mints) \in Nat
    BY <1>1, <1>3, <1>11, MintedIds
  <2>3. CASE a \in seen.owner /\ b \notin seen.owner
    BY <2>2, <2>3, <1>4, <1>14, <1>16
  <2>4. CASE a \notin seen.owner /\ b \in seen.owner
    BY <2>2, <2>4, <1>4, <1>14, <1>16
  <2>5. CASE a \notin seen.owner /\ b \notin seen.owner
    BY <2>5, <1>16, <1>17
  <2> QED BY <2>1, <2>3, <2>4, <2>5
<1>19. IdsInv'
  BY <1>2, <1>10, <1>12, <1>15, <1>18 DEF IdsInv, IncidentIdsUnique
<1> QED BY <1>9, <1>19

\* A read whose snapshot is published.
LEMMA PublishedStep ==
  ASSUME ColInv, slot = "reading", NEW files, NEW level, slot' = "ready", begun' = NoRead, prevCpu' \in BOOLEAN,
         UNCHANGED <<mono, wall, nextTick, primedAt, panics, steps>>,
         history' = [g \in Groups |-> Chosen(files, begun.readAt)[g].next],
         published' = [seq |-> published.seq + 1, readAt |-> begun.readAt,
                       origin |-> OriginOf(Chosen(files, begun.readAt)), level |-> level],
         Record(OriginOf(Chosen(files, begun.readAt)), level, begun.collectedAt)
  PROVE  ColInv'
<1>1. PICK chosen, origin : chosen = Chosen(files, begun.readAt) /\ origin = OriginOf(chosen)
  OBVIOUS
<1>2. /\ Record(origin, level, begun.collectedAt) /\ history' = [g \in Groups |-> chosen[g].next]
      /\ published'.readAt = begun.readAt /\ published'.origin = origin /\ published'.level = level
  BY <1>1
<1>3. ColTypes /\ ClockInv /\ SeenInv
  BY DEF ColInv
<1>4. /\ rules' = rules /\ seen'.epoch = seen.epoch
      /\ seen'.cgroup = seen.cgroup \cup {g \in Groups : origin[g] = "cgroup"}
  <2>1. rules' = rules
    BY <1>2, <1>3, RecordIs, Zenon
  <2>2. seen'.epoch = seen.epoch
    BY <1>2, <1>3, RecordIs, Zenon
  <2>3. seen'.cgroup = seen.cgroup \cup {g \in Groups : origin[g] = "cgroup"}
    BY <1>2, <1>3, RecordCgroup
  <2> QED BY <2>1, <2>2, <2>3
<1>5. states' = [i \in DOMAIN rules |-> states'[i]]
  BY <1>2, <1>3, RecordIs, Zenon
<1>6. /\ seen'.breached = [i \in DOMAIN rules |-> seen'.breached[i]]
      /\ seen'.waited = [i \in DOMAIN rules |-> seen'.waited[i]]
      /\ seen'.notified = [i \in DOMAIN rules |-> seen'.notified[i]]
  BY <1>2, <1>3, RecordIs, Zenon
<1>7. seen' = [cgroup |-> seen'.cgroup, owner |-> seen'.owner, epoch |-> seen'.epoch,
               breached |-> seen'.breached, waited |-> seen'.waited, notified |-> seen'.notified]
  BY <1>2, <1>3, RecordIs, Zenon
<1>8. /\ rules' = rules
      /\ seen'.cgroup = seen.cgroup \cup {g \in Groups : origin[g] = "cgroup"}
      /\ seen'.epoch = seen.epoch
  BY <1>4
<1>9. minted' \in Nat /\ IdsInv'
  BY <1>2, RecordIds
<1>10. \A i \in DOMAIN rules :
          /\ states'[i] \in StateType /\ seen'.breached[i] \in Moment /\ seen'.waited[i] \in Moment
          /\ seen'.notified[i] \in Moment
          /\ Moments(states'[i], seen'.breached[i], seen'.waited[i], seen'.notified[i],
                     begun.readAt, begun.clock, begun.collectedAt - begun.readAt)
          /\ ~rules[i].enabled => states'[i].at.breach = "clear"
          /\ states'[i].at.breach = "pending" /\ ReadingOf(i, origin, level) = "measured"
               => begun.readAt - seen'.waited[i].at < Max({rules[i].duration, 1})
          /\ states'[i].at.breach = "active" => ReadingOf(i, origin, level) # "unavailable"
  <2> TAKE i \in DOMAIN rules
  <2>1. RuleAfter(i, origin, level)
    BY <1>2, <1>3, RecordSound
  <2> QED BY <2>1 DEF RuleAfter
<1>11. begun.readAt \in 0..mono /\ begun.clock \in 0..steps /\ begun.collectedAt \in Nat /\ mono \in Nat /\ steps \in Nat
       /\ wall \in Int /\ (begun.clock = steps => begun.collectedAt - begun.readAt = wall - mono)
  BY <1>3 DEF ClockInv, ColTypes
<1>12. begun.readAt \in Int
  BY <1>11
<1>13. \A g \in Groups : /\ chosen[g].next \in HistoryType
                         /\ chosen[g].origin = "cgroup" => chosen[g].next.lineage = "cgroup"
                         /\ history[g].lineage = "cgroup" => chosen[g].origin # "kernel" /\ chosen[g].next.lineage = "cgroup"
  <2> TAKE g \in Groups
  <2>1. PICK attempt : chosen[g] = SourceGroup(history[g], attempt, begun.readAt)
    BY <1>1 DEF Chosen
  <2>2. history[g] \in HistoryType
    BY <1>3 DEF ColTypes, HistoryType
  <2> QED BY <2>1, <2>2, <1>12, SourceIs
<1>14. \A g \in Groups : origin[g] = chosen[g].origin
  BY <1>1 DEF OriginOf, Metrics
<1>15. history' \in [Groups -> HistoryType] /\ \A g \in Groups : history'[g] = chosen[g].next
  BY <1>2, <1>13
<1>16. ColTypes'
  <2>1. states' \in [DOMAIN rules -> StateType] /\ seen'.breached \in [DOMAIN rules -> Moment]
        /\ seen'.waited \in [DOMAIN rules -> Moment] /\ seen'.notified \in [DOMAIN rules -> Moment]
    BY <1>5, <1>6, <1>10
  <2>2. seen'.cgroup \subseteq Groups /\ seen'.epoch \in Nat
    BY <1>3, <1>8 DEF ColTypes
  <2>3. begun' \in [readAt : Int, collectedAt : Int, clock : Int]
    BY DEF NoRead
  <2>4. published'.readAt \in Int
    BY <1>2, <1>12
  <2>5. seen' = [cgroup |-> seen'.cgroup, owner |-> seen'.owner, epoch |-> seen'.epoch,
                 breached |-> seen'.breached, waited |-> seen'.waited, notified |-> seen'.notified]
    BY <1>7
  <2>6. rules' = rules /\ minted' \in Nat
    BY <1>8, <1>9
  <2>7. slot' \in {"ready", "reading", "broken"} /\ mono' \in 0..MaxMono /\ wall' \in Int /\ steps' \in 0..MaxSteps
        /\ nextTick' \in Nat /\ primedAt' \in 0..mono' /\ rules \in RuleSets
    BY <1>3 DEF ColTypes
  <2> QED BY <2>1, <2>2, <2>3, <2>4, <2>5, <2>6, <2>7, <1>15 DEF ColTypes, StateType, HistoryType
<1>17. ClockInv'
  BY <1>3 DEF ClockInv
<1>18. SeenInv'
  <2> SUFFICES ASSUME NEW i \in DOMAIN rules
               PROVE  /\ ~rules[i].enabled => states'[i].at.breach = "clear"
                      /\ Moments(states'[i], seen'.breached[i], seen'.waited[i], seen'.notified[i], mono, steps, wall - mono)
    BY <1>8 DEF SeenInv, SeenOf
  <2>1. PICK off, off2 : off = begun.collectedAt - begun.readAt /\ off2 = wall - mono
    OBVIOUS
  <2>2. Moments(states'[i], seen'.breached[i], seen'.waited[i], seen'.notified[i], begun.readAt, begun.clock, off)
    BY <1>10, <2>1
  <2>3. begun.clock <= steps /\ begun.readAt <= mono /\ (begun.clock = steps => off = off2) /\ begun.clock \in Nat /\ mono \in Int
    BY <1>11, <2>1
  <2>4. Moments(states'[i], seen'.breached[i], seen'.waited[i], seen'.notified[i], mono, steps, off2)
    BY <2>2, <2>3, <1>11, <1>12, LaterMoments
  <2> QED BY <2>1, <2>4, <1>10
<1>19. PublishedInv'
  <2>1. \A i \in DOMAIN rules : states'[i].at.breach = "active" => Shows(i)' # "unavailable"
    BY <1>2, <1>8, <1>10 DEF Shows, ReadingOf, Reading
  <2>2. FiresInTime'
    BY <1>2, <1>8, <1>10 DEF FiresInTime, ReadingOf, Reading
  <2>3. \A g \in seen'.cgroup : history'[g].lineage = "cgroup" /\ published'.origin[g] # "kernel"
    <3> SUFFICES ASSUME NEW g \in seen'.cgroup PROVE history'[g].lineage = "cgroup" /\ published'.origin[g] # "kernel"
      OBVIOUS
    <3>1. g \in Groups /\ (g \in seen.cgroup \/ origin[g] = "cgroup")
      BY <1>3, <1>8 DEF ColTypes
    <3>2. g \in seen.cgroup => history[g].lineage = "cgroup"
      BY DEF ColInv, PublishedInv
    <3> QED BY <3>1, <3>2, <1>2, <1>13, <1>14, <1>15
  <2> QED BY <2>1, <2>2, <2>3, <1>8 DEF PublishedInv
<1> QED BY <1>9, <1>16, <1>17, <1>18, <1>19 DEF ColInv

\* A read that ends publishes, or was too early to.
LEMMA ReadEndStep ==
  ASSUME ColInv, ReadEnd
  PROVE  ColInv'
<1>1. PICK files \in [Groups -> {"value", "absent", "failed"}], level \in [Metrics -> Levels \cup {NaN}] :
         Publish(files, level) /\ prevCpu' = (prevCpu \/ files[Cpu] = "value")
  BY DEF ReadEnd
<1>2. slot = "reading" /\ slot' = "ready" /\ begun' = NoRead /\ UNCHANGED <<mono, wall, nextTick, primedAt, panics, steps>>
  BY DEF ReadEnd
<1>3. prevCpu' \in BOOLEAN
  BY <1>1
<1>4. CASE begun.readAt - primedAt >= Priming
  BY <1>1, <1>2, <1>3, <1>4, PublishedStep DEF Publish
<1>5. CASE ~(begun.readAt - primedAt >= Priming)
  <2>1. UNCHANGED <<history, published, manager, seen>>
    BY <1>1, <1>5 DEF Publish
  <2>2. nextTick' \in Nat /\ primedAt' \in 0..mono
    BY <1>2 DEF ColInv, ColTypes
  <2> QED BY <2>1, <2>2, <1>2, <1>3, SamplerStep
<1> QED BY <1>4, <1>5

\* Every step of the collector, of its clocks and of its operator keeps the invariant.
LEMMA ColKeeps ==
  ASSUME ColInv, [CollectorNext]_colVars
  PROVE  ColInv'
<1>1. CASE CollectorClock  BY <1>1, ClockTickStep
<1>2. CASE ClockStep  BY <1>2, ClockStepStep
<1>3. CASE ReadBegin  BY <1>3, ReadBeginStep
<1>4. CASE ReadEnd  BY <1>4, ReadEndStep
<1>5. CASE ReadPanics \/ RebuildSampler  BY <1>5, PanicSteps
<1>6. CASE ReplaceRules  BY <1>6, ReplaceStep
<1>7. CASE UNCHANGED colVars
  <2>1. /\ UNCHANGED <<history, published, manager, seen>>
        /\ UNCHANGED <<mono, wall, slot, begun, nextTick, primedAt, prevCpu, history, published, rules, states, minted, active, steps, seen>>
    BY <1>7 DEF colVars, sampler, manager
  <2>2. ColTypes' /\ ClockInv'
    BY <2>1 DEF ColInv, ColTypes, ClockInv
  <2>3. SeenInv'
    BY <2>1 DEF ColInv, SeenInv, SeenOf
  <2> QED BY <2>1, <2>2, <2>3, QuietStep DEF ColInv
<1> QED BY <1>1, <1>2, <1>3, <1>4, <1>5, <1>6, <1>7 DEF CollectorNext

\* The invariant says that the alerts are sound.
LEMMA ColInvSound == ColInv => AlertsSound
<1> SUFFICES ASSUME ColInv PROVE AlertsSound
  OBVIOUS
<1>1. ColTypes /\ PublishedInv /\ IdsInv
  BY DEF ColInv
<1>2. CollectorTypeOK
  <2>1. active \subseteq (DOMAIN rules) \X (1..minted)
    <3> SUFFICES ASSUME NEW a \in active PROVE a \in (DOMAIN rules) \X (1..minted)
      OBVIOUS
    <3>1. PICK i \in DOMAIN rules : states[i].at.breach = "active" /\ a = <<i, states[i].at.id>>
      BY <1>1 DEF IdsInv
    <3>2. states[i].at.id \in 1..minted
      BY <3>1, <1>1 DEF IdsInv
    <3> QED BY <3>1, <3>2
  <2>2. \A i \in DOMAIN rules : states[i].at.breach \in {"clear", "pending", "active"}
    BY <1>1 DEF ColTypes, Breach, Breaches
  <2>3. \A g \in Groups : /\ history[g].lineage \in {"untouched", "kernel_failing", "cgroup"}
                          /\ history[g].carry \in {"none", "reading", "since", "expired"}
    BY <1>1 DEF ColTypes, Lineages, Carries
  <2>4. DOMAIN states = DOMAIN rules
    BY <1>1 DEF ColTypes
  <2> QED BY <1>1, <2>1, <2>2, <2>3, <2>4 DEF ColTypes, CollectorTypeOK
<1>3. LineageKept /\ FiresInTime /\ IncidentIdsUnique
  BY <1>1 DEF PublishedInv, IdsInv, LineageKept
<1>4. NoAlertWithoutReading
  <2> SUFFICES ASSUME NEW a \in active
               PROVE  Reading(published.origin[rules[a[1]].metric], published.level[rules[a[1]].metric]) # "unavailable"
    BY DEF NoAlertWithoutReading
  <2>1. PICK i \in DOMAIN rules : states[i].at.breach = "active" /\ a = <<i, states[i].at.id>>
    BY <1>1 DEF IdsInv
  <2>2. Shows(i) # "unavailable" /\ a[1] = i
    BY <2>1, <1>1 DEF PublishedInv
  <2> QED BY <2>2 DEF Shows
<1> QED BY <1>2, <1>3, <1>4 DEF AlertsSound

\* For any rules and readings, any steps of the clock and any panics: a group once read from the
\* cgroup stays with it, each id is of one incident, no alert is active without a reading, and
\* a breach that has lasted its duration is active.
THEOREM AlertsAlwaysSound == CollectorSpec => []AlertsSound
<1>1. CollectorInit => ColInv
  BY ColStarts
<1>2. ColInv /\ [CollectorNext]_colVars => ColInv'
  BY ColKeeps
<1>3. ColInv => AlertsSound
  BY ColInvSound
<1> QED BY <1>1, <1>2, <1>3, PTL DEF CollectorSpec

\* A published read fires no sooner than earned, and nothing on a carried reading.
LEMMA PublishedEarned ==
  ASSUME ColInv, slot = "reading", NEW files, NEW level,
         published' = [seq |-> published.seq + 1, readAt |-> begun.readAt,
                       origin |-> OriginOf(Chosen(files, begun.readAt)), level |-> level],
         Record(OriginOf(Chosen(files, begun.readAt)), level, begun.collectedAt)
  PROVE  FiresNoSooner /\ CarriedChangesNothing
<1>1. PICK origin : origin = OriginOf(Chosen(files, begun.readAt))
  OBVIOUS
<1>2. Record(origin, level, begun.collectedAt) /\ published'.readAt = begun.readAt /\ published'.origin = origin
  BY <1>1
<1>3. ColTypes /\ ClockInv /\ SeenInv
  BY DEF ColInv
<1>4. \A i \in DOMAIN rules : RuleAfter(i, origin, level)
  BY <1>2, <1>3, RecordSound
<1>5. FiresNoSooner
  <2> SUFFICES ASSUME NEW i \in DOMAIN rules
               PROVE  /\ (states[i].at.breach = "pending" /\ states'[i].at.breach = "active"
                          /\ seen.breached[i].clock = begun.clock)
                         => published'.readAt - seen.breached[i].at >= rules[i].duration
                      /\ (seen.notified[i].at # -1 /\ seen'.notified[i] # seen.notified[i]
                          /\ seen'.notified[i].clock = seen.notified[i].clock)
                         => seen'.notified[i].at - seen.notified[i].at >= rules[i].cooldown
    BY DEF FiresNoSooner
  <2>1. RuleAfter(i, origin, level)
    BY <1>4
  <2>2. states[i].at.breach = "pending" /\ states'[i].at.breach = "active" /\ seen.breached[i].clock = begun.clock
          => begun.readAt - seen.breached[i].at >= rules[i].duration
    BY <2>1 DEF RuleAfter
  <2>3. seen'.notified[i] # seen.notified[i] => seen'.notified[i] = Now
    BY <2>1 DEF RuleAfter
  <2>4. seen.notified[i].at # -1 /\ seen'.notified[i] # seen.notified[i] /\ seen.notified[i].clock = begun.clock
          => begun.readAt - seen.notified[i].at >= rules[i].cooldown
    BY <2>1 DEF RuleAfter
  <2>5. Now.at = begun.readAt /\ Now.clock = begun.clock
    BY DEF Now
  <2> QED BY <1>2, <2>2, <2>3, <2>4, <2>5
<1>6. CarriedChangesNothing
  BY <1>2, <1>4 DEF CarriedChangesNothing, RuleAfter
<1> QED BY <1>5, <1>6

\* A step that publishes nothing and leaves the rules gives no alert.
LEMMA QuietEarned ==
  ASSUME UNCHANGED <<published, manager, seen>>
  PROVE  FiresNoSooner /\ CarriedChangesNothing
  BY DEF manager, FiresNoSooner, CarriedChangesNothing

\* No step gives an alert that is not earned.
LEMMA EarnedStep ==
  ASSUME ColInv, [CollectorNext]_colVars
  PROVE  [FiresNoSooner /\ CarriedChangesNothing]_colVars
<1>1. CASE CollectorClock  BY <1>1, QuietEarned DEF CollectorClock
<1>2. CASE ClockStep  BY <1>2, QuietEarned DEF ClockStep
<1>3. CASE ReadBegin  BY <1>3, QuietEarned DEF ReadBegin
<1>4. CASE ReadEnd
  <2>1. PICK files \in [Groups -> {"value", "absent", "failed"}], level \in [Metrics -> Levels \cup {NaN}] :
           Publish(files, level)
    BY <1>4 DEF ReadEnd
  <2>2. slot = "reading"
    BY <1>4 DEF ReadEnd
  <2>3. CASE begun.readAt - primedAt >= Priming
    BY <2>1, <2>2, <2>3, PublishedEarned DEF Publish
  <2>4. CASE ~(begun.readAt - primedAt >= Priming)
    BY <2>1, <2>4, QuietEarned DEF Publish
  <2> QED BY <2>3, <2>4
<1>5. CASE ReadPanics  BY <1>5, QuietEarned DEF ReadPanics
<1>6. CASE RebuildSampler  BY <1>6, QuietEarned DEF RebuildSampler
<1>7. CASE ReplaceRules
  <2>1. published' = published
    BY <1>7 DEF ReplaceRules
  <2>2. seen' = [NothingSeen(Len(rules')) EXCEPT !.cgroup = seen.cgroup, !.owner = seen.owner, !.epoch = seen.epoch + 1]
    BY <1>7 DEF ReplaceRules
  <2>3. seen'.epoch = seen.epoch + 1
    BY <2>2 DEF NothingSeen
  <2>4. seen'.epoch # seen.epoch
    BY <2>3 DEF ColInv, ColTypes
  <2> QED BY <2>1, <2>4 DEF FiresNoSooner, CarriedChangesNothing
<1>8. CASE UNCHANGED colVars
  BY <1>8
<1> QED BY <1>1, <1>2, <1>3, <1>4, <1>5, <1>6, <1>7, <1>8 DEF CollectorNext

\* For any rules and readings, on one clock: a rule becomes active no sooner than its duration after
\* the breach began and notifies no sooner than its cooldown; a carried reading changes nothing.
THEOREM AlertsAlwaysEarned == CollectorSpec => AlertsEarned
<1>1. CollectorInit => ColInv
  BY ColStarts
<1>2. ColInv /\ [CollectorNext]_colVars => ColInv'
  BY ColKeeps
<1>3. ColInv /\ [CollectorNext]_colVars => [FiresNoSooner /\ CarriedChangesNothing]_colVars
  BY EarnedStep
<1> QED BY <1>1, <1>2, <1>3, PTL DEF CollectorSpec, AlertsEarned

-----------------------------------------------------------------------------
(* What the readers are served. *)

\* The types of a frame and of the push client.
FrameType == [kind : {"snapshot", "round"}, seq : Nat, conn : Nat]
Phases == {"waiting", "connecting", "handshake", "connected", "retrying", "over"}

\* The readers' types.
RdTypes ==
    /\ clock \in 0..MaxReaderTime
    /\ snapshot \in [seq : Nat, readAt : Nat, ended : BOOLEAN] /\ snapshot.readAt <= clock
    /\ rounds \in [seq : 0..MaxRounds, open : BOOLEAN]
    /\ push \in [phase : Phases, lastSent : Int, receiving : BOOLEAN, seenRound : Nat, wakeAt : Nat, conns : Nat]
    /\ push.lastSent <= snapshot.seq /\ push.seenRound <= rounds.seq
    /\ link \in [state : {"none", "up", "broken"}, tickAt : Nat, pingAt : Nat]
    /\ push.phase \in {"handshake", "connected"} <=> link.state # "none"
    /\ sent \in Seq(FrameType)

\* The rings hold the latest snapshots, without a gap.
RingInv == /\ rings \in Seq(Int) /\ Len(rings) <= MaxHistory
           /\ \A k \in 1..Len(rings) : rings[k] = snapshot.seq - Len(rings) + k

\* No frame is past the cursors, and before its first frame a connection has none.
FramesInv ==
    \A i \in DOMAIN sent :
       /\ sent[i].kind = "snapshot" => sent[i].seq <= push.lastSent
       /\ sent[i].kind = "round" => sent[i].seq <= push.seenRound
       /\ sent[i].conn <= push.conns
       /\ push.phase = "handshake" => sent[i].conn < push.conns

\* The tick that is due next was set on a fresh snapshot.
TickInv == push.phase = "connected" =>
              \/ link.tickAt <= clock
              \/ link.tickAt - PushTick - snapshot.readAt <= StaleAfter

\* What the stream last said was right at its last tick, and has not been put right since only
\* if the next tick is still to come.
StreamInv ==
    \/ stream = NoStream
    \/ /\ stream \in [told : {"live", "stale"}, tickAt : Nat, lastAt : Nat, notices : Nat]
       /\ clock <= stream.tickAt
       /\ stream.told = "live" => stream.tickAt - stream.lastAt <= StaleAfter + StreamTick
       /\ stream.told = "stale" =>
             /\ stream.tickAt - StreamTick <= clock
             /\ \/ stream.tickAt - StreamTick - snapshot.readAt > StaleAfter
                \/ snapshot.readAt >= stream.tickAt - StreamTick
       /\ stream.notices = IF stream.told = "stale" THEN 1 ELSE 0

\* The readers' inductive invariant.
RdInv == /\ RdTypes /\ RingInv /\ FramesInv /\ TickInv /\ StreamInv
         /\ SnapshotsSentOnce /\ RoundsInOrder

\* The readers' bounds are numbers.
LEMMA ReadersBounds ==
  /\ StaleAfter \in Nat /\ PushTick \in Nat /\ PingEvery \in Nat /\ StreamTick \in Nat /\ RetryDelay \in Nat
  /\ StaleAfter > 0 /\ PushTick > 0 /\ StreamTick > 0
  /\ MaxHistory \in Nat /\ MaxHistory > 0 /\ MaxReaderTime \in Nat /\ MaxRounds \in Nat /\ MaxConnections \in Nat
  BY ReadersAssumption

\* s is the ring with one more point, less its oldest when it was full.
RingGrown(s, ring, point, max) ==
    /\ s \in Seq(Int)
    /\ Len(s) = IF Len(ring) < max THEN Len(ring) + 1 ELSE max
    /\ \A k \in 1..Len(s) : s[k] = IF k = Len(s) THEN point ELSE ring[k + Len(ring) + 1 - Len(s)]

\* A ring of the newest `max` points: one more point leaves the newest `max` of them.
LEMMA PushMaxIs ==
  ASSUME NEW ring \in Seq(Int), NEW point \in Int, NEW max \in Nat, max > 0, Len(ring) <= max,
         NEW s, s = PushMax(ring, point, max)
  PROVE  RingGrown(s, ring, point, max)
<1>1. PICK grown : grown = Append(ring, point)
  OBVIOUS
<1>2. /\ grown \in Seq(Int) /\ Len(grown) = Len(ring) + 1
      /\ \A i \in 1..Len(ring) : grown[i] = ring[i]
      /\ grown[Len(ring) + 1] = point
  BY <1>1, AppendProperties
<1>3. PICK n \in Nat : n = Len(ring)
  BY LenProperties
<1>4. PICK m \in Nat : m = IF n < max THEN n + 1 ELSE max
  BY <1>3
<1>5. Min({Len(grown), max}) = m
  BY <1>2, <1>3, <1>4, MinOfTwo
<1>6. PICK hi : hi = n + 1
  OBVIOUS
<1>7. PICK lo : lo = hi - m + 1
  OBVIOUS
<1>8. lo \in Int /\ hi \in Int /\ hi = n + 1 /\ lo = n + 1 - m + 1
  BY <1>6, <1>7
<1>9. /\ Len(grown) - Min({Len(grown), max}) + 1 = lo /\ Len(grown) = hi
      /\ m <= hi /\ m >= 1 /\ n <= max
  <2>1. Len(grown) = hi
    BY <1>2, <1>3, <1>6, Zenon
  <2>2. Len(grown) - Min({Len(grown), max}) + 1 = lo
    BY <2>1, <1>5, <1>7, Zenon
  <2>3. n <= max
    BY <1>3, Zenon
  <2>4. m <= hi /\ m >= 1
    BY <2>3, <1>6, <1>4
  <2> QED BY <2>1, <2>2, <2>3, <2>4
<1>10. s = SubSeq(grown, lo, hi)
  <2>1. PushMax(ring, point, max) = SubSeq(grown, Len(grown) - Min({Len(grown), max}) + 1, Len(grown))
    BY <1>1, Zenon DEF PushMax
  <2> QED BY <2>1, <1>9, Zenon
<1>11. \A i \in lo..hi : grown[i] \in Int
  BY <1>2, <1>3, <1>8, <1>9, ElementOfSeq
<1>12. /\ s \in Seq(Int) /\ Len(s) = IF lo <= hi THEN hi - lo + 1 ELSE 0
       /\ \A i \in 1..(hi - lo + 1) : s[i] = grown[lo + i - 1]
  BY <1>8, <1>10, <1>11, SubSeqProperties
<1>13. Len(s) = m /\ \A i \in 1..m : s[i] = grown[n + 1 - m + i]
  BY <1>12, <1>8, <1>9
<1>14. \A k \in 1..m : s[k] = IF k = m THEN point ELSE ring[k + n + 1 - m]
  <2> TAKE k \in 1..m
  <2>1. CASE k = m
    BY <2>1, <1>13, <1>2, <1>3, <1>8, <1>9
  <2>2. CASE k # m
    <3>1. n + 1 - m + k \in 1..n /\ n + 1 - m + k = k + n + 1 - m
      BY <2>2, <1>8, <1>9
    <3>2. s[k] = grown[n + 1 - m + k]
      BY <1>13
    <3>3. grown[n + 1 - m + k] = ring[n + 1 - m + k]
      BY <3>1, <1>2, <1>3
    <3> QED BY <3>1, <3>2, <3>3, <2>2
  <2> QED BY <2>1, <2>2
<1>15. Len(s) = m /\ m = IF Len(ring) < max THEN Len(ring) + 1 ELSE max
  BY <1>13, <1>3, <1>4
<1>16. \A k \in 1..Len(s) : s[k] = IF k = Len(s) THEN point ELSE ring[k + Len(ring) + 1 - Len(s)]
  BY <1>13, <1>14, <1>3
<1> QED BY <1>12, <1>15, <1>16 DEF RingGrown

\* A history route's answer is the newest points of a ring without gaps.
LEMMA HistoryTailIs ==
  ASSUME NEW ring \in Seq(Int), NEW top \in Int, NEW limit \in Nat,
         \A k \in 1..Len(ring) : ring[k] = top - Len(ring) + k
  PROVE  HistoryTail(ring, limit)
           = [i \in 1..Min({limit, Len(ring)}) |-> top - Min({limit, Len(ring)}) + i]
<1>1. PICK n \in Nat : n = Len(ring)
  BY LenProperties
<1>2. Min({limit, Len(ring)}) = IF limit <= n THEN limit ELSE n
  BY <1>1, MinOfTwo
<1>3. CASE n <= limit
  <2>1. Min({limit, Len(ring)}) = n /\ HistoryTail(ring, limit) = ring
    BY <1>1, <1>2, <1>3 DEF HistoryTail
  <2>2. ring = [i \in 1..n |-> ring[i]]
    BY <1>1, LenProperties
  <2> QED BY <2>1, <2>2, <1>1
<1>4. CASE limit < n
  <2>1. Min({limit, Len(ring)}) = limit /\ HistoryTail(ring, limit) = SubSeq(ring, n - limit + 1, n)
    BY <1>1, <1>2, <1>4 DEF HistoryTail
  <2>2. PICK s : s = SubSeq(ring, n - limit + 1, n)
    OBVIOUS
  <2>3. \A i \in (n - limit + 1)..n : ring[i] \in Int
    BY <1>1, <1>4, ElementOfSeq
  <2>4. /\ s \in Seq(Int) /\ Len(s) = IF n - limit + 1 <= n THEN n - (n - limit + 1) + 1 ELSE 0
        /\ \A i \in 1..(n - (n - limit + 1) + 1) : s[i] = ring[n - limit + 1 + i - 1]
    BY <2>2, <2>3, <1>4, SubSeqProperties
  <2>5. Len(s) = limit /\ \A i \in 1..limit : s[i] = ring[n - limit + i]
    BY <2>4
  <2>6. \A i \in 1..limit : s[i] = top - limit + i
    <3> TAKE i \in 1..limit
    <3>1. n - limit + i \in 1..n
      BY <1>4
    <3>2. ring[n - limit + i] = top - n + (n - limit + i)
      BY <3>1, <1>1
    <3> QED BY <3>2, <2>5
  <2>7. s = [i \in 1..limit |-> s[i]]
    BY <2>4, <2>5, LenProperties
  <2> QED BY <2>1, <2>2, <2>6, <2>7
<1>5. n <= limit \/ limit < n
  BY <1>1
<1> QED BY <1>3, <1>4, <1>5

\* What a step does with the frames: nothing, a snapshot's frame, or a round's.
Quiet ==
    /\ sent' = sent /\ push'.lastSent = push.lastSent
    /\ push'.seenRound >= push.seenRound /\ push'.conns >= push.conns
    /\ push'.phase = "handshake" => push'.conns > push.conns \/ (push.phase = "handshake" /\ push'.conns = push.conns)
SendsSnapshot ==
    /\ sent' = Append(sent, [kind |-> "snapshot", seq |-> snapshot.seq, conn |-> push.conns])
    /\ push.lastSent < snapshot.seq /\ push'.lastSent = snapshot.seq
    /\ push'.seenRound = push.seenRound /\ push'.conns = push.conns /\ push'.phase = "connected"
SendsRound ==
    /\ sent' = Append(sent, [kind |-> "round", seq |-> rounds.seq, conn |-> push.conns])
    /\ push'.lastSent = push.lastSent /\ push'.conns = push.conns /\ push'.phase = "connected"
    /\ push'.seenRound = rounds.seq
    /\ push.phase = "handshake" \/ push.seenRound < rounds.seq

\* One more frame: where the old ones are, and where it is.
LEMMA Appended ==
  ASSUME NEW s \in Seq(FrameType), NEW f \in FrameType, NEW t, t = Append(s, f)
  PROVE  /\ t \in Seq(FrameType) /\ Len(s) \in Nat /\ DOMAIN s = 1..Len(s) /\ DOMAIN t = 1..(Len(s) + 1)
         /\ \A i \in DOMAIN s : t[i] = s[i] /\ s[i] \in FrameType
         /\ t[Len(s) + 1] = f
         /\ \A i \in DOMAIN t : i \in DOMAIN s \/ i = Len(s) + 1
<1>1. /\ t \in Seq(FrameType) /\ Len(t) = Len(s) + 1
      /\ \A i \in 1..Len(s) : t[i] = s[i]
      /\ t[Len(s) + 1] = f
  BY AppendProperties
<1>2. Len(s) \in Nat /\ DOMAIN s = 1..Len(s) /\ DOMAIN t = 1..Len(t)
  BY <1>1, LenProperties
<1>3. \A i \in DOMAIN s : s[i] \in FrameType
  BY <1>2, ElementOfSeq
<1> QED BY <1>1, <1>2, <1>3

\* A step that sends nothing keeps the frames in order.
LEMMA QuietFrames ==
  ASSUME RdTypes, RdTypes', FramesInv, SnapshotsSentOnce, RoundsInOrder, Quiet
  PROVE  FramesInv' /\ SnapshotsSentOnce' /\ RoundsInOrder'
<1>1. SnapshotsSentOnce' /\ RoundsInOrder'
  BY DEF SnapshotsSentOnce, RoundsInOrder, Follows, Quiet
<1>2. /\ push.lastSent \in Int /\ push.seenRound \in Int /\ push.conns \in Int
      /\ push'.seenRound \in Int /\ push'.conns \in Int
  BY DEF RdTypes
<1>3. \A i \in DOMAIN sent : sent[i].seq \in Int /\ sent[i].conn \in Int
  <2>1. sent \in Seq(FrameType)
    BY DEF RdTypes
  <2>2. \A i \in DOMAIN sent : sent[i] \in FrameType
    BY <2>1, ElementOfSeq, LenProperties
  <2> QED BY <2>2 DEF FrameType
<1>4. FramesInv'
  BY <1>2, <1>3 DEF FramesInv, Quiet
<1> QED BY <1>1, <1>4

\* A snapshot's frame is newer than every snapshot before it.
LEMMA SnapshotFrames ==
  ASSUME RdTypes, RdTypes', FramesInv, SnapshotsSentOnce, RoundsInOrder, SendsSnapshot
  PROVE  FramesInv' /\ SnapshotsSentOnce' /\ RoundsInOrder'
<1>1. PICK f : f = [kind |-> "snapshot", seq |-> snapshot.seq, conn |-> push.conns]
  OBVIOUS
<1>2. f \in FrameType /\ sent \in Seq(FrameType) /\ sent' = Append(sent, f)
  BY <1>1 DEF RdTypes, FrameType, SendsSnapshot
<1>3. PICK n \in Nat : n = Len(sent)
  BY <1>2, LenProperties
<1>4. /\ DOMAIN sent = 1..n /\ DOMAIN sent' = 1..(n + 1)
      /\ \A i \in 1..n : sent'[i] = sent[i] /\ sent[i] \in FrameType
      /\ sent'[n + 1] = f
  BY <1>2, <1>3, Appended
<1>5. /\ push.lastSent \in Int /\ push.seenRound \in Int /\ push.conns \in Int /\ snapshot.seq \in Int
      /\ push.lastSent < snapshot.seq /\ push'.lastSent = snapshot.seq
      /\ push'.seenRound = push.seenRound /\ push'.conns = push.conns /\ push'.phase # "handshake"
  BY DEF RdTypes, SendsSnapshot
<1>6. \A i \in 1..n : /\ sent[i].kind = "snapshot" => sent[i].seq <= push.lastSent
                      /\ sent[i].kind = "round" => sent[i].seq <= push.seenRound
                      /\ sent[i].conn <= push.conns /\ sent[i].seq \in Int
  BY <1>4 DEF FramesInv, FrameType
<1>7. f.kind = "snapshot" /\ f.seq = snapshot.seq /\ f.conn = push.conns
  BY <1>1
<1>8. \A i \in 1..(n + 1) : i \in 1..n \/ i = n + 1
  OBVIOUS
<1>9. FramesInv'
  BY <1>4, <1>5, <1>6, <1>7, <1>8 DEF FramesInv
<1>10. SnapshotsSentOnce'
  <2> SUFFICES ASSUME NEW i \in 1..(n + 1), NEW j \in 1..(n + 1), i < j,
                      sent'[i].kind = "snapshot", sent'[j].kind = "snapshot"
               PROVE  sent'[i].seq < sent'[j].seq
    BY <1>4 DEF SnapshotsSentOnce, Follows
  <2>1. i \in 1..n
    OBVIOUS
  <2>2. CASE j \in 1..n
    BY <2>1, <2>2, <1>4 DEF SnapshotsSentOnce, Follows
  <2>3. CASE j = n + 1
    BY <2>1, <2>3, <1>4, <1>5, <1>6, <1>7
  <2> QED BY <2>2, <2>3
<1>11. RoundsInOrder'
  <2>1. ASSUME NEW i \in 1..(n + 1), NEW j \in 1..(n + 1), i < j,
               sent'[i].kind = "round", sent'[j].kind = "round"
        PROVE  sent'[i].seq < sent'[j].seq \/ (sent'[i].seq = sent'[j].seq /\ sent'[i].conn < sent'[j].conn)
    <3>1. i \in 1..n /\ j \in 1..n
      BY <2>1, <1>4, <1>7
    <3> QED BY <3>1, <2>1, <1>4 DEF RoundsInOrder, Follows
  <2>2. ASSUME NEW i \in 1..(n + 1), NEW j \in 1..(n + 1), i < j,
               sent'[i] = [sent'[j] EXCEPT !.conn = sent'[i].conn], NEW k \in 1..(j - 1)
        PROVE  sent'[k].conn < sent'[j].conn
    <3>1. i \in 1..n /\ k \in 1..n
      BY <2>2
    <3>2. CASE j \in 1..n
      <4>1. \A l \in 1..(j - 1) : sent[l].conn < sent[j].conn
        BY <3>1, <3>2, <2>2, <1>4 DEF RoundsInOrder
      <4> QED BY <4>1, <3>1, <3>2, <1>4
    <3>3. CASE j = n + 1
      <4>1. sent[i] = [f EXCEPT !.conn = sent[i].conn]
        BY <2>2, <3>1, <3>3, <1>4
      <4>2. sent[i].kind = "snapshot" /\ sent[i].seq = snapshot.seq
        BY <4>1, <1>1
      <4> QED BY <4>2, <3>1, <1>5, <1>6
    <3> QED BY <3>2, <3>3
  <2>3. DOMAIN sent' = 1..(n + 1)
    BY <1>4
  <2> QED BY <2>1, <2>2, <2>3 DEF RoundsInOrder, Follows
<1> QED BY <1>9, <1>10, <1>11

\* A round's frame goes back behind no other; it repeats one only as its connection's first.
LEMMA RoundFrames ==
  ASSUME RdTypes, RdTypes', FramesInv, SnapshotsSentOnce, RoundsInOrder, SendsRound
  PROVE  FramesInv' /\ SnapshotsSentOnce' /\ RoundsInOrder'
<1>1. PICK f : f = [kind |-> "round", seq |-> rounds.seq, conn |-> push.conns]
  OBVIOUS
<1>2. f \in FrameType /\ sent \in Seq(FrameType) /\ sent' = Append(sent, f)
  BY <1>1, ReadersBounds DEF RdTypes, FrameType, SendsRound
<1>3. PICK n \in Nat : n = Len(sent)
  BY <1>2, LenProperties
<1>4. /\ DOMAIN sent = 1..n /\ DOMAIN sent' = 1..(n + 1)
      /\ \A i \in 1..n : sent'[i] = sent[i] /\ sent[i] \in FrameType
      /\ sent'[n + 1] = f
  BY <1>2, <1>3, Appended
<1>5. /\ push.lastSent \in Int /\ push.seenRound \in Int /\ push.conns \in Int /\ rounds.seq \in Int
      /\ push.seenRound <= rounds.seq /\ push'.lastSent = push.lastSent
      /\ push'.seenRound = rounds.seq /\ push'.conns = push.conns /\ push'.phase # "handshake"
      /\ push.phase = "handshake" \/ push.seenRound < rounds.seq
  BY ReadersBounds DEF RdTypes, SendsRound
<1>6. \A i \in 1..n : /\ sent[i].kind = "snapshot" => sent[i].seq <= push.lastSent
                      /\ sent[i].kind = "round" => sent[i].seq <= push.seenRound
                      /\ sent[i].conn <= push.conns /\ sent[i].seq \in Int
                      /\ push.phase = "handshake" => sent[i].conn < push.conns
  <2>1. \A i \in 1..n : sent[i].seq \in Int
    BY <1>4 DEF FrameType
  <2> QED BY <2>1, <1>4 DEF FramesInv
<1>7. f.kind = "round" /\ f.seq = rounds.seq /\ f.conn = push.conns
  BY <1>1
<1>8. \A i \in 1..(n + 1) : i \in 1..n \/ i = n + 1
  OBVIOUS
<1>9. FramesInv'
  BY <1>4, <1>5, <1>6, <1>7, <1>8 DEF FramesInv
<1>10. SnapshotsSentOnce'
  <2> SUFFICES ASSUME NEW i \in 1..(n + 1), NEW j \in 1..(n + 1), i < j,
                      sent'[i].kind = "snapshot", sent'[j].kind = "snapshot"
               PROVE  sent'[i].seq < sent'[j].seq
    BY <1>4 DEF SnapshotsSentOnce, Follows
  <2>1. i \in 1..n /\ j \in 1..n
    BY <1>4, <1>7
  <2> QED BY <2>1, <1>4 DEF SnapshotsSentOnce, Follows
<1>11. RoundsInOrder'
  <2>1. ASSUME NEW i \in 1..(n + 1), NEW j \in 1..(n + 1), i < j,
               sent'[i].kind = "round", sent'[j].kind = "round"
        PROVE  sent'[i].seq < sent'[j].seq \/ (sent'[i].seq = sent'[j].seq /\ sent'[i].conn < sent'[j].conn)
    <3>1. i \in 1..n
      BY <2>1
    <3>2. CASE j \in 1..n
      BY <3>1, <3>2, <2>1, <1>4 DEF RoundsInOrder, Follows
    <3>3. CASE j = n + 1
      BY <3>1, <3>3, <2>1, <1>4, <1>5, <1>6, <1>7
    <3> QED BY <3>2, <3>3
  <2>2. ASSUME NEW i \in 1..(n + 1), NEW j \in 1..(n + 1), i < j,
               sent'[i] = [sent'[j] EXCEPT !.conn = sent'[i].conn], NEW k \in 1..(j - 1)
        PROVE  sent'[k].conn < sent'[j].conn
    <3>1. i \in 1..n /\ k \in 1..n
      BY <2>2
    <3>2. CASE j \in 1..n
      <4>1. \A l \in 1..(j - 1) : sent[l].conn < sent[j].conn
        BY <3>1, <3>2, <2>2, <1>4 DEF RoundsInOrder
      <4> QED BY <4>1, <3>1, <3>2, <1>4
    <3>3. CASE j = n + 1
      <4>1. sent[i] = [f EXCEPT !.conn = sent[i].conn]
        BY <2>2, <3>1, <3>3, <1>4
      <4>2. sent[i].kind = "round" /\ sent[i].seq = rounds.seq
        BY <4>1, <1>1
      <4>3. push.phase = "handshake"
        BY <4>2, <3>1, <1>5, <1>6
      <4> QED BY <4>3, <3>1, <3>3, <1>4, <1>6, <1>7
    <3> QED BY <3>2, <3>3
  <2>3. DOMAIN sent' = 1..(n + 1)
    BY <1>4
  <2> QED BY <2>1, <2>2, <2>3 DEF RoundsInOrder, Follows
<1> QED BY <1>9, <1>10, <1>11

\* Every step sends nothing, or the snapshot that is due, or the round that is next.
LEMMA PushMoves ==
  ASSUME RdTypes, ReadersNext
  PROVE  Quiet \/ SendsSnapshot \/ SendsRound
<1>1. /\ push \in [phase : Phases, lastSent : Int, receiving : BOOLEAN, seenRound : Nat, wakeAt : Nat, conns : Nat]
      /\ snapshot.seq \in Nat /\ rounds.seq \in Nat /\ push.lastSent <= snapshot.seq /\ push.seenRound <= rounds.seq
  BY ReadersBounds DEF RdTypes
<1>2. ASSUME UNCHANGED <<push, sent>> PROVE Quiet
  BY <1>1, <1>2 DEF Quiet
<1>3. ASSUME NEW p, push' = [push EXCEPT !.phase = p], p # "handshake", sent' = sent PROVE Quiet
  BY <1>1, <1>3 DEF Quiet
<1>4. ASSUME Retry, sent' = sent PROVE Quiet
  BY <1>1, <1>4 DEF Quiet, Retry
<1>5. CASE ReadersClock \/ PublishSnapshot \/ CollectorEnds \/ PublishRound \/ ScrapeLoopEnds \/ HubHangsUp \/ StreamTicks
  BY <1>5, <1>2 DEF ReadersClock, PublishSnapshot, CollectorEnds, PublishRound, ScrapeLoopEnds, HubHangsUp, StreamTicks
<1>6. CASE AwaitFresh
  BY <1>6, <1>3 DEF AwaitFresh
<1>7. CASE Connect
  <2>1. CASE push' = [push EXCEPT !.phase = "handshake", !.conns = @ + 1]
    BY <2>1, <1>7, <1>1 DEF Connect, Quiet
  <2> QED BY <2>1, <1>7, <1>4 DEF Connect
<1>8. CASE Handshake
  <2>1. PICK r : r = CurrentRound
    OBVIOUS
  <2>2. /\ r.send \in {0, rounds.seq} /\ r.seen >= push.seenRound /\ (r.send # 0 => r.seen = rounds.seq)
    BY <2>1, <1>1 DEF CurrentRound
  <2>3. CASE Retry /\ sent' = sent
    BY <2>3, <1>4
  <2>4. CASE /\ push' = [push EXCEPT !.phase = "connected", !.receiving = r.receiving, !.seenRound = r.seen]
             /\ r.send = 0 /\ sent' = sent
    BY <2>4, <2>2, <1>1 DEF Quiet
  <2>5. CASE /\ push' = [push EXCEPT !.phase = "connected", !.receiving = r.receiving, !.seenRound = r.seen]
             /\ r.send # 0 /\ sent' = Append(sent, Frame("round", r.send))
    <3>1. push.phase = "handshake"
      BY <1>8 DEF Handshake
    <3> QED BY <3>1, <2>5, <2>2, <1>1 DEF SendsRound, Frame
  <2>6. CASE /\ push' = [[push EXCEPT !.phase = "connected", !.receiving = r.receiving, !.seenRound = r.seen]
                            EXCEPT !.phase = "waiting"]
             /\ sent' = sent
    BY <2>6, <2>2, <1>1 DEF Quiet
  <2> QED BY <1>8, <2>1, <2>3, <2>4, <2>5, <2>6 DEF Handshake, Take
<1>9. CASE RetryEnds
  BY <1>9, <1>3 DEF RetryEnds
<1>10. CASE PumpTick
  <2>1. CASE /\ Due = "send" /\ push' = [push EXCEPT !.lastSent = snapshot.seq]
             /\ Take(SnapshotPayload)
    <3>1. push.lastSent # snapshot.seq
      BY <2>1 DEF Due
    <3>2. push.lastSent < snapshot.seq /\ push.phase = "connected"
      BY <3>1, <1>1, <1>10 DEF PumpTick
    <3> QED BY <3>2, <2>1, <1>1 DEF SendsSnapshot, Take, SnapshotPayload, Frame
  <2>2. CASE Lost
    BY <2>2, <1>3 DEF Lost
  <2> QED BY <2>1, <2>2, <1>2, <1>10 DEF PumpTick
<1>11. CASE PumpPing
  BY <1>11, <1>2, <1>3 DEF PumpPing, Lost
<1>12. CASE PumpRound
  <2>1. PICK r : r = NextRound
    OBVIOUS
  <2>2. /\ r.send \in {0, rounds.seq} /\ r.seen >= push.seenRound
        /\ r.send # 0 => r.seen = rounds.seq /\ push.seenRound < rounds.seq
    BY <2>1, <1>1 DEF NextRound
  <2>3. push.phase = "connected"
    BY <1>12 DEF PumpRound
  <2>4. CASE /\ push' = [push EXCEPT !.receiving = r.receiving, !.seenRound = r.seen]
             /\ r.send = 0 /\ sent' = sent
    BY <2>4, <2>2, <2>3, <1>1 DEF Quiet
  <2>5. CASE /\ push' = [push EXCEPT !.receiving = r.receiving, !.seenRound = r.seen]
             /\ r.send # 0 /\ sent' = Append(sent, Frame("round", r.send))
    BY <2>5, <2>2, <2>3, <1>1 DEF SendsRound, Frame
  <2>6. CASE /\ push' = [[push EXCEPT !.receiving = r.receiving, !.seenRound = r.seen] EXCEPT !.phase = "waiting"]
             /\ sent' = sent
    BY <2>6, <2>2, <1>1 DEF Quiet
  <2> QED BY <1>12, <2>1, <2>4, <2>5, <2>6 DEF PumpRound, Take
<1>13. CASE PumpHungUp
  BY <1>13, <1>3 DEF PumpHungUp, Lost
<1> QED BY <1>5, <1>6, <1>7, <1>8, <1>9, <1>10, <1>11, <1>12, <1>13 DEF ReadersNext

\* The rings go on without a gap: a snapshot is published with its point.
LEMMA RingStep ==
  ASSUME RdTypes, RingInv, ReadersNext
  PROVE  RingInv'
<1>1. CASE PublishSnapshot
  <2>1. /\ rings \in Seq(Int) /\ Len(rings) <= MaxHistory
        /\ \A k \in 1..Len(rings) : rings[k] = snapshot.seq - Len(rings) + k
    BY DEF RingInv
  <2>2. snapshot.seq \in Nat /\ snapshot'.seq = snapshot.seq + 1
    BY <1>1 DEF PublishSnapshot, RdTypes
  <2>3. PICK n \in Nat : n = Len(rings)
    BY <2>1, LenProperties
  <2>4. PICK s : s = PushMax(rings, snapshot.seq + 1, MaxHistory)
    OBVIOUS
  <2>5. PICK m : m = IF n < MaxHistory THEN n + 1 ELSE MaxHistory
    OBVIOUS
  <2>6. /\ s \in Seq(Int) /\ Len(s) = m
        /\ \A k \in 1..m : s[k] = IF k = m THEN snapshot.seq + 1 ELSE rings[k + n + 1 - m]
    <3>1. snapshot.seq + 1 \in Int /\ MaxHistory \in Nat /\ MaxHistory > 0
      BY <2>2, ReadersBounds
    <3>2. /\ s \in Seq(Int) /\ Len(s) = IF Len(rings) < MaxHistory THEN Len(rings) + 1 ELSE MaxHistory
          /\ \A k \in 1..Len(s) : s[k] = IF k = Len(s) THEN snapshot.seq + 1 ELSE rings[k + Len(rings) + 1 - Len(s)]
      <4>1. PICK top \in Int : top = snapshot.seq + 1
        BY <3>1
      <4>2. s = PushMax(rings, top, MaxHistory)
        BY <4>1, <2>4
      <4>3. RingGrown(s, rings, top, MaxHistory)
        BY <4>2, <3>1, <2>1, PushMaxIs
      <4> QED BY <4>1, <4>3, Zenon DEF RingGrown
    <3>3. Len(s) = m
      BY <3>2, <2>3, <2>5, Zenon
    <3> QED BY <3>2, <3>3, <2>3
  <2>7. m \in Nat /\ m <= MaxHistory /\ m <= n + 1 /\ n <= MaxHistory
    BY <2>1, <2>3, <2>5, ReadersBounds
  <2>8. \A k \in 1..m : s[k] = snapshot.seq + 1 - m + k
    <3> TAKE k \in 1..m
    <3>1. CASE k = m
      BY <3>1, <2>2, <2>6, <2>7
    <3>2. CASE k # m
      <4>1. k + n + 1 - m \in 1..n
        BY <3>2, <2>7
      <4>2. rings[k + n + 1 - m] = snapshot.seq - n + (k + n + 1 - m)
        BY <4>1, <2>1, <2>3
      <4> QED BY <4>2, <3>2, <2>2, <2>6, <2>7
    <3> QED BY <3>1, <3>2
  <2>9. rings' = s
    BY <1>1, <2>4 DEF PublishSnapshot
  <2> QED BY <2>2, <2>6, <2>7, <2>8, <2>9 DEF RingInv
<1>2. CASE ~PublishSnapshot
  <2>1. rings' = rings /\ snapshot'.seq = snapshot.seq
    BY <1>2 DEF ReadersNext, ReadersClock, CollectorEnds, PublishRound, ScrapeLoopEnds, AwaitFresh, Connect,
                Handshake, RetryEnds, PumpTick, PumpPing, PumpRound, PumpHungUp, HubHangsUp, StreamTicks, RdTypes
  <2> QED BY <2>1 DEF RingInv
<1> QED BY <1>1, <1>2

\* The types, per variable.
PushType == [phase : Phases, lastSent : Int, receiving : BOOLEAN, seenRound : Nat, wakeAt : Nat, conns : Nat]
LinkType == [state : {"none", "up", "broken"}, tickAt : Nat, pingAt : Nat]

\* The types of the push client and its link, and the cursors within what is published.
PushOK == /\ push \in PushType /\ link \in LinkType
          /\ push.lastSent <= snapshot.seq /\ push.seenRound <= rounds.seq
          /\ push.phase \in {"handshake", "connected"} <=> link.state # "none"

\* The types of what is published and of the frames.
LEMMA WatchedStep ==
  ASSUME RdTypes, ReadersNext
  PROVE  /\ clock' \in 0..MaxReaderTime /\ clock <= clock' /\ clock' <= clock + 1
         /\ snapshot' \in [seq : Nat, readAt : Nat, ended : BOOLEAN]
         /\ snapshot'.readAt <= clock' /\ snapshot'.seq >= snapshot.seq
         /\ rounds' \in [seq : 0..MaxRounds, open : BOOLEAN] /\ rounds'.seq >= rounds.seq
<1>1. /\ clock \in 0..MaxReaderTime /\ snapshot \in [seq : Nat, readAt : Nat, ended : BOOLEAN]
      /\ snapshot.readAt <= clock /\ rounds \in [seq : 0..MaxRounds, open : BOOLEAN]
      /\ MaxReaderTime \in Nat /\ MaxRounds \in Nat
  BY ReadersBounds DEF RdTypes
<1>2. ASSUME UNCHANGED <<clock, snapshot, rounds>>
      PROVE  /\ clock' \in 0..MaxReaderTime /\ clock <= clock' /\ clock' <= clock + 1
             /\ snapshot' \in [seq : Nat, readAt : Nat, ended : BOOLEAN]
             /\ snapshot'.readAt <= clock' /\ snapshot'.seq >= snapshot.seq
             /\ rounds' \in [seq : 0..MaxRounds, open : BOOLEAN] /\ rounds'.seq >= rounds.seq
  BY <1>1, <1>2
<1>3. CASE ReadersClock
  BY <1>1, <1>3 DEF ReadersClock
<1>4. CASE PublishSnapshot
  <2>1. clock' = clock /\ rounds' = rounds /\ snapshot' = [snapshot EXCEPT !.seq = @ + 1, !.readAt = clock]
    BY <1>4 DEF PublishSnapshot
  <2>2. snapshot'.seq = snapshot.seq + 1 /\ snapshot'.readAt = clock
    BY <1>1, <2>1
  <2>3. snapshot.seq \in Nat /\ rounds.seq \in Nat /\ clock \in Nat
    BY <1>1
  <2>4. PICK n \in Nat : n = snapshot.seq + 1
    BY <2>3
  <2>5. snapshot' = [snapshot EXCEPT !.seq = n, !.readAt = clock]
    BY <2>1, <2>4
  <2>6. snapshot' \in [seq : Nat, readAt : Nat, ended : BOOLEAN]
    BY <1>1, <2>3, <2>5
  <2> QED BY <1>1, <2>1, <2>2, <2>6, <2>3
<1>5. CASE CollectorEnds
  <2>1. clock' = clock /\ rounds' = rounds /\ snapshot' = [snapshot EXCEPT !.ended = TRUE]
    BY <1>5 DEF CollectorEnds
  <2>2. snapshot'.seq = snapshot.seq /\ snapshot'.readAt = snapshot.readAt
    BY <1>1, <2>1
  <2>3. snapshot' \in [seq : Nat, readAt : Nat, ended : BOOLEAN]
    BY <1>1, <2>1
  <2>4. snapshot.seq \in Nat /\ rounds.seq \in Nat
    BY <1>1
  <2> QED BY <1>1, <2>1, <2>2, <2>3, <2>4
<1>6. CASE PublishRound
  BY <1>1, <1>6 DEF PublishRound
<1>7. CASE ScrapeLoopEnds
  <2>1. clock' = clock /\ snapshot' = snapshot /\ rounds' = [rounds EXCEPT !.open = FALSE]
    BY <1>7 DEF ScrapeLoopEnds
  <2>2. rounds'.seq = rounds.seq /\ rounds' \in [seq : 0..MaxRounds, open : BOOLEAN]
    BY <1>1, <2>1
  <2>3. snapshot.seq \in Nat /\ rounds.seq \in Nat
    BY <1>1
  <2> QED BY <1>1, <2>1, <2>2, <2>3
<1>8. CASE ~(ReadersClock \/ PublishSnapshot \/ CollectorEnds \/ PublishRound \/ ScrapeLoopEnds)
  <2>1. UNCHANGED <<clock, snapshot, rounds>>
    BY <1>8 DEF ReadersNext, AwaitFresh, Connect, Handshake, RetryEnds, PumpTick, PumpPing, PumpRound,
                PumpHungUp, HubHangsUp, StreamTicks
  <2> QED BY <2>1, <1>2
<1> QED BY <1>3, <1>4, <1>5, <1>6, <1>7, <1>8

\* The types of the push client and its link.
LEMMA PushStep ==
  ASSUME RdTypes, ReadersNext
  PROVE  PushOK'
<1>1. /\ push \in PushType /\ link \in LinkType /\ clock \in Nat
      /\ push.lastSent <= snapshot.seq /\ push.seenRound <= rounds.seq
      /\ push.phase \in {"handshake", "connected"} <=> link.state # "none"
      /\ snapshot.seq \in Int /\ rounds.seq \in Nat
  BY ReadersBounds DEF RdTypes, PushType, LinkType
<1>2. /\ snapshot'.seq \in Int /\ rounds'.seq \in Int /\ snapshot'.seq >= snapshot.seq /\ rounds'.seq >= rounds.seq
  BY WatchedStep, ReadersBounds
<1>3. PushTick \in Nat /\ PingEvery \in Nat /\ RetryDelay \in Nat
  BY ReadersBounds
<1>4. ASSUME push' \in PushType, link' \in LinkType, push'.lastSent = push.lastSent, push'.seenRound <= rounds.seq,
             push'.phase \in {"handshake", "connected"} <=> link'.state # "none"
      PROVE  PushOK'
  <2>1. push'.seenRound \in Int /\ push.lastSent \in Int
    BY <1>1, <1>4 DEF PushType
  <2> QED BY <2>1, <1>1, <1>2, <1>4 DEF PushOK
<1>5. NoLink \in LinkType /\ NoLink.state = "none"
  BY DEF NoLink, LinkType
<1> USE DEF PushType, LinkType, Phases
<1>6. ASSUME UNCHANGED <<push, link>> PROVE PushOK'
  BY <1>1, <1>2, <1>6 DEF PushOK
<1>7. ASSUME Retry, link' = NoLink PROVE PushOK'
  <2>1. /\ push'.phase = "retrying" /\ push'.lastSent = push.lastSent /\ push'.seenRound = push.seenRound
    BY <1>1, <1>7 DEF Retry
  <2>2. push' \in PushType
    <3>1. PICK w \in Nat : w = clock + RetryDelay
      BY <1>1, <1>3
    <3>2. push' = [push EXCEPT !.phase = "retrying", !.wakeAt = w]
      BY <3>1, <1>7 DEF Retry
    <3> QED BY <3>2, <1>1
  <2> HIDE DEF PushType, LinkType
  <2> QED BY <2>1, <2>2, <1>1, <1>7, <1>4, <1>5
<1>8. ASSUME Lost PROVE PushOK'
  BY <1>1, <1>2, <1>8 DEF PushOK, Lost, NoLink
<1>9. CASE ReadersClock \/ PublishSnapshot \/ CollectorEnds \/ PublishRound \/ ScrapeLoopEnds \/ StreamTicks
  BY <1>9, <1>6 DEF ReadersClock, PublishSnapshot, CollectorEnds, PublishRound, ScrapeLoopEnds, StreamTicks
<1>10. CASE AwaitFresh
  <2>1. link' = link /\ link.state = "none"
    BY <1>10, <1>1 DEF AwaitFresh
  <2> QED BY <2>1, <1>1, <1>2, <1>10 DEF AwaitFresh, PushOK
<1>11. CASE Connect
  <2>1. link.state = "none"
    BY <1>11, <1>1 DEF Connect
  <2>2. CASE push' = [push EXCEPT !.phase = "handshake", !.conns = @ + 1] /\ link' = [NoLink EXCEPT !.state = "up"]
    <3>1. push'.phase = "handshake" /\ push'.lastSent = push.lastSent /\ push'.seenRound = push.seenRound
      BY <1>1, <2>2
    <3>2. push' \in PushType
      <4>1. PICK n \in Nat : n = push.conns + 1
        BY <1>1
      <4>2. push' = [push EXCEPT !.phase = "handshake", !.conns = n]
        BY <4>1, <2>2
      <4> QED BY <4>2, <1>1
    <3>3. link' \in LinkType /\ link'.state = "up"
      BY <2>2 DEF NoLink
    <3> HIDE DEF PushType, LinkType
    <3> QED BY <3>1, <3>2, <3>3, <1>1, <1>4
  <2>3. CASE Retry /\ link' = link
    <3>1. push'.phase = "retrying" /\ push'.lastSent = push.lastSent /\ push'.seenRound = push.seenRound
      BY <1>1, <2>3 DEF Retry
    <3>2. push' \in PushType
      <4>1. PICK w \in Nat : w = clock + RetryDelay
        BY <1>1, <1>3
      <4>2. push' = [push EXCEPT !.phase = "retrying", !.wakeAt = w]
        BY <4>1, <2>3 DEF Retry
      <4> QED BY <4>2, <1>1
    <3> HIDE DEF PushType, LinkType
    <3> QED BY <3>1, <3>2, <2>1, <2>3, <1>1, <1>4
  <2> QED BY <2>2, <2>3, <1>11 DEF Connect
<1>12. CASE Handshake
  <2>1. PICK r : r = CurrentRound
    OBVIOUS
  <2>2. r.receiving \in BOOLEAN /\ r.seen \in Nat /\ r.seen <= rounds.seq
    BY <2>1, <1>1 DEF CurrentRound
  <2>3. link.state # "none"
    BY <1>12, <1>1 DEF Handshake
  <2>4. CASE Retry /\ link' = NoLink
    BY <2>4, <1>7
  <2>5. CASE /\ push' = [push EXCEPT !.phase = "connected", !.receiving = r.receiving, !.seenRound = r.seen]
             /\ link' = [link EXCEPT !.tickAt = clock, !.pingAt = clock]
    <3>1. push'.phase = "connected" /\ push'.lastSent = push.lastSent /\ push'.seenRound = r.seen
      BY <1>1, <2>5
    <3>2. push' \in PushType
      BY <1>1, <2>2, <2>5
    <3>3. link' \in LinkType /\ link'.state = link.state
      BY <1>1, <2>5
    <3> HIDE DEF PushType, LinkType
    <3> QED BY <3>1, <3>2, <3>3, <2>2, <2>3, <1>4
  <2>6. CASE /\ push' = [[push EXCEPT !.phase = "connected", !.receiving = r.receiving, !.seenRound = r.seen]
                            EXCEPT !.phase = "waiting"]
             /\ link' = NoLink
    <3>1. push'.phase = "waiting" /\ push'.lastSent = push.lastSent /\ push'.seenRound = r.seen
      BY <1>1, <2>6
    <3>2. push' \in PushType
      BY <1>1, <2>2, <2>6
    <3> HIDE DEF PushType, LinkType
    <3> QED BY <3>1, <3>2, <2>2, <2>6, <1>4, <1>5
  <2> QED BY <1>12, <2>1, <2>4, <2>5, <2>6 DEF Handshake
<1>13. CASE RetryEnds
  <2>1. link' = link /\ link.state = "none"
    BY <1>13, <1>1 DEF RetryEnds
  <2> QED BY <2>1, <1>1, <1>2, <1>13 DEF RetryEnds, PushOK
<1>14. CASE PumpTick
  <2>1. link.state # "none"
    BY <1>14, <1>1 DEF PumpTick
  <2>2. CASE push' = [push EXCEPT !.lastSent = snapshot.seq] /\ link' = Ticked
    <3>1. push.phase = "connected"
      BY <1>14 DEF PumpTick
    <3> QED BY <3>1, <2>1, <2>2, <1>1, <1>2, <1>3 DEF PushOK, Ticked
  <2>3. CASE push' = push /\ link' = Ticked
    BY <2>1, <2>3, <1>1, <1>2, <1>3 DEF PushOK, Ticked
  <2> QED BY <1>14, <1>8, <2>2, <2>3 DEF PumpTick
<1>15. CASE PumpPing
  <2>1. CASE push' = push /\ link' = [link EXCEPT !.pingAt = clock + PingEvery]
    BY <2>1, <1>1, <1>2, <1>3 DEF PushOK
  <2> QED BY <1>15, <1>8, <2>1 DEF PumpPing
<1>16. CASE PumpRound
  <2>1. PICK r : r = NextRound
    OBVIOUS
  <2>2. r.receiving \in BOOLEAN /\ r.seen \in Nat /\ r.seen <= rounds.seq
    BY <2>1, <1>1 DEF NextRound
  <2>3. CASE push' = [push EXCEPT !.receiving = r.receiving, !.seenRound = r.seen] /\ link' = link
    <3>1. push'.phase = push.phase /\ push'.lastSent = push.lastSent /\ push'.seenRound = r.seen
      BY <1>1, <2>3
    <3>2. push' \in PushType
      BY <1>1, <2>2, <2>3
    <3> HIDE DEF PushType, LinkType
    <3> QED BY <3>1, <3>2, <2>2, <2>3, <1>1, <1>4
  <2>4. CASE /\ push' = [[push EXCEPT !.receiving = r.receiving, !.seenRound = r.seen] EXCEPT !.phase = "waiting"]
             /\ link' = NoLink
    <3>1. push'.phase = "waiting" /\ push'.lastSent = push.lastSent /\ push'.seenRound = r.seen
      BY <1>1, <2>4
    <3>2. push' \in PushType
      BY <1>1, <2>2, <2>4
    <3> HIDE DEF PushType, LinkType
    <3> QED BY <3>1, <3>2, <2>2, <2>4, <1>4, <1>5
  <2> QED BY <1>16, <2>1, <2>3, <2>4 DEF PumpRound
<1>17. CASE PumpHungUp
  BY <1>17, <1>8 DEF PumpHungUp
<1>18. CASE HubHangsUp
  BY <1>18, <1>1, <1>2 DEF HubHangsUp, PushOK
<1> QED BY <1>9, <1>10, <1>11, <1>12, <1>13, <1>14, <1>15, <1>16, <1>17, <1>18 DEF ReadersNext

\* Every step keeps the types.
LEMMA TypesStep ==
  ASSUME RdTypes, ReadersNext
  PROVE  RdTypes'
<1>1. /\ clock' \in 0..MaxReaderTime
      /\ snapshot' \in [seq : Nat, readAt : Nat, ended : BOOLEAN]
      /\ snapshot'.readAt <= clock'
      /\ rounds' \in [seq : 0..MaxRounds, open : BOOLEAN]
  BY WatchedStep
<1>2. PushOK'
  BY PushStep
<1>3. /\ push' \in PushType /\ link' \in LinkType
      /\ push'.lastSent <= snapshot'.seq /\ push'.seenRound <= rounds'.seq
      /\ push'.phase \in {"handshake", "connected"} <=> link'.state # "none"
  BY <1>2 DEF PushOK
<1>4. sent \in Seq(FrameType) /\ snapshot.seq \in Nat /\ rounds.seq \in Nat /\ push.conns \in Nat
  BY ReadersBounds DEF RdTypes
<1>5. sent' \in Seq(FrameType)
  <2>1. CASE Quiet
    BY <2>1, <1>4 DEF Quiet
  <2>2. CASE SendsSnapshot
    <3>1. [kind |-> "snapshot", seq |-> snapshot.seq, conn |-> push.conns] \in FrameType
      BY <1>4 DEF FrameType
    <3> QED BY <3>1, <2>2, <1>4, AppendProperties DEF SendsSnapshot
  <2>3. CASE SendsRound
    <3>1. [kind |-> "round", seq |-> rounds.seq, conn |-> push.conns] \in FrameType
      BY <1>4 DEF FrameType
    <3> QED BY <3>1, <2>3, <1>4, AppendProperties DEF SendsRound
  <2> QED BY <2>1, <2>2, <2>3, PushMoves
<1> QED BY <1>1, <1>3, <1>5, Zenon DEF RdTypes, PushType, LinkType

\* The frames stay in order, whoever sends.
LEMMA FramesStep ==
  ASSUME RdTypes, FramesInv, SnapshotsSentOnce, RoundsInOrder, ReadersNext
  PROVE  FramesInv' /\ SnapshotsSentOnce' /\ RoundsInOrder'
<1>1. RdTypes'
  BY TypesStep
<1> QED BY <1>1, PushMoves, QuietFrames, SnapshotFrames, RoundFrames

\* A tick is set again only on a fresh snapshot.
LEMMA TickStep ==
  ASSUME RdTypes, TickInv, ReadersNext
  PROVE  TickInv'
<1>1. /\ clock \in Int /\ snapshot.readAt \in Int /\ snapshot.readAt <= clock /\ link.tickAt \in Int
      /\ push \in PushType /\ link \in LinkType
  BY ReadersBounds DEF RdTypes, PushType, LinkType
<1>2. StaleAfter \in Nat /\ PushTick \in Nat
  BY ReadersBounds
<1>3. ASSUME push' = push, link' = link, snapshot'.readAt \in Int, snapshot'.readAt >= snapshot.readAt,
             clock' \in Int, clock' >= clock
      PROVE  TickInv'
  BY <1>1, <1>2, <1>3 DEF TickInv
<1>4. ASSUME push'.phase # "connected" PROVE TickInv'
  BY <1>4 DEF TickInv
<1>5. ASSUME Lost PROVE TickInv'
  <2>1. push'.phase = "waiting"
    BY <1>1, <1>5 DEF Lost, PushType
  <2> QED BY <2>1, <1>4
<1>6. ASSUME Retry PROVE TickInv'
  <2>1. push'.phase = "retrying"
    BY <1>1, <1>6 DEF Retry, PushType
  <2> QED BY <2>1, <1>4
<1>7. CASE ReadersClock
  BY <1>7, <1>1, <1>3 DEF ReadersClock
<1>8. CASE PublishSnapshot
  <2>1. snapshot'.readAt = clock
    BY <1>8 DEF PublishSnapshot, RdTypes
  <2> QED BY <2>1, <1>8, <1>1, <1>3 DEF PublishSnapshot
<1>9. CASE CollectorEnds
  <2>1. snapshot'.readAt = snapshot.readAt
    BY <1>9 DEF CollectorEnds, RdTypes
  <2> QED BY <2>1, <1>9, <1>1, <1>3 DEF CollectorEnds
<1>10. CASE PublishRound \/ ScrapeLoopEnds \/ StreamTicks
  BY <1>10, <1>1, <1>3 DEF PublishRound, ScrapeLoopEnds, StreamTicks
<1>11. CASE AwaitFresh
  <2>1. push'.phase \in {"connecting", "over"}
    BY <1>1, <1>11 DEF AwaitFresh, PushType
  <2> QED BY <2>1, <1>4
<1>12. CASE Connect
  <2>1. CASE push' = [push EXCEPT !.phase = "handshake", !.conns = @ + 1]
    <3>1. push'.phase = "handshake"
      BY <2>1, <1>1 DEF PushType
    <3> QED BY <3>1, <1>4
  <2> QED BY <2>1, <1>6, <1>12 DEF Connect
<1>13. CASE Handshake
  <2>1. PICK r : r = CurrentRound
    OBVIOUS
  <2>2. CASE link' = [link EXCEPT !.tickAt = clock, !.pingAt = clock]
    <3>1. link'.tickAt = clock /\ clock' = clock
      BY <2>2, <1>1, <1>13 DEF LinkType, Handshake
    <3> QED BY <3>1, <1>1 DEF TickInv
  <2>3. CASE push' = [[push EXCEPT !.phase = "connected", !.receiving = r.receiving, !.seenRound = r.seen]
                         EXCEPT !.phase = "waiting"]
    <3>1. push'.phase = "waiting"
      BY <2>3, <1>1 DEF PushType
    <3> QED BY <3>1, <1>4
  <2> QED BY <2>1, <2>2, <2>3, <1>6, <1>13 DEF Handshake
<1>14. CASE RetryEnds
  <2>1. push'.phase = "waiting"
    BY <1>1, <1>14 DEF RetryEnds, PushType
  <2> QED BY <2>1, <1>4
<1>15. CASE PumpTick
  <2>1. CASE Due # "stale" /\ link' = Ticked
    <3>1. Fresh
      BY <2>1 DEF Due
    <3>2. link'.tickAt = clock + PushTick /\ snapshot' = snapshot
      BY <2>1, <1>1, <1>15 DEF Ticked, LinkType, PumpTick
    <3> QED BY <3>1, <3>2, <1>1, <1>2 DEF TickInv, Fresh
  <2> QED BY <2>1, <1>5, <1>15 DEF PumpTick
<1>16. CASE PumpPing
  <2>1. CASE link' = [link EXCEPT !.pingAt = clock + PingEvery] /\ push' = push
    <3>1. link'.tickAt = link.tickAt
      BY <2>1, <1>1 DEF LinkType
    <3> QED BY <3>1, <2>1, <1>16 DEF TickInv, PumpPing
  <2> QED BY <2>1, <1>5, <1>16 DEF PumpPing
<1>17. CASE PumpRound
  <2>1. PICK r : r = NextRound
    OBVIOUS
  <2>2. CASE push' = [push EXCEPT !.receiving = r.receiving, !.seenRound = r.seen] /\ link' = link
    <3>1. push'.phase = push.phase
      BY <2>2, <1>1 DEF PushType
    <3> QED BY <3>1, <2>2, <1>17 DEF TickInv, PumpRound
  <2>3. CASE push' = [[push EXCEPT !.receiving = r.receiving, !.seenRound = r.seen] EXCEPT !.phase = "waiting"]
    <3>1. push'.phase = "waiting"
      BY <2>3, <1>1 DEF PushType
    <3> QED BY <3>1, <1>4
  <2> QED BY <2>1, <2>2, <2>3, <1>17 DEF PumpRound
<1>18. CASE PumpHungUp
  BY <1>18, <1>5 DEF PumpHungUp
<1>19. CASE HubHangsUp
  <2>1. link'.tickAt = link.tickAt
    BY <1>19, <1>1 DEF HubHangsUp, LinkType
  <2> QED BY <2>1, <1>19 DEF TickInv, HubHangsUp
<1> QED BY <1>7, <1>8, <1>9, <1>10, <1>11, <1>12, <1>13, <1>14, <1>15, <1>16, <1>17, <1>18, <1>19 DEF ReadersNext

\* The type of a stream somebody watches.
StreamType == [told : {"live", "stale"}, tickAt : Nat, lastAt : Nat, notices : Nat]

\* What the stream last said was right when it said it.
LEMMA StreamStep ==
  ASSUME RdTypes, StreamInv, ReadersNext
  PROVE  StreamInv'
<1>1. clock \in Nat /\ snapshot.readAt \in Nat /\ snapshot.readAt <= clock /\ clock <= MaxReaderTime
  BY ReadersBounds DEF RdTypes
<1>2. StaleAfter \in Nat /\ StreamTick \in Nat /\ MaxReaderTime \in Nat
  BY ReadersBounds
<1>3. NoStream' = NoStream
  BY DEF NoStream, Watching
<1>4. CASE StreamTicks
  <2>1. stream.tickAt <= clock /\ clock' = clock /\ snapshot' = snapshot
    BY <1>4 DEF StreamTicks
  <2>2. stream # NoStream
    <3>1. NoStream.tickAt = MaxReaderTime + 1
      BY DEF NoStream, Watching
    <3> QED BY <3>1, <2>1, <1>1, <1>2
  <2>3. /\ stream \in StreamType /\ clock <= stream.tickAt
        /\ stream.notices = IF stream.told = "stale" THEN 1 ELSE 0
    BY <2>2 DEF StreamInv, StreamType
  <2>4. stream.told \in {"live", "stale"} /\ stream.lastAt \in Nat /\ stream.notices \in Nat
    BY <2>3 DEF StreamType
  <2>5. PICK at \in Nat : at = clock + StreamTick
    BY <1>1, <1>2
  <2>6. CASE Fresh
    <3>1. Emit = "snapshot"
      BY <2>6 DEF Emit
    <3>2. stream' = [told |-> "live", tickAt |-> at, lastAt |-> snapshot.readAt, notices |-> 0]
      BY <3>1, <2>5, <1>4 DEF StreamTicks
    <3>3. stream' \in StreamType
      BY <3>2, <1>1 DEF StreamType
    <3>4. /\ clock' <= stream'.tickAt /\ stream'.told = "live" /\ stream'.notices = 0
          /\ stream'.tickAt - stream'.lastAt <= StaleAfter + StreamTick
      BY <3>2, <2>1, <2>5, <2>6, <1>1, <1>2 DEF Fresh
    <3> QED BY <3>3, <3>4 DEF StreamInv, StreamType
  <2>7. CASE ~Fresh
    <3>1. Emit = IF stream.told = "live" THEN "notice" ELSE "nothing"
      BY <2>7 DEF Emit
    <3>2. stream' = [told |-> "stale", tickAt |-> at, lastAt |-> stream.lastAt, notices |-> 1]
      BY <3>1, <2>3, <2>4, <2>5, <1>4 DEF StreamTicks
    <3>3. stream' \in StreamType
      BY <3>2, <2>4 DEF StreamType
    <3>4. /\ clock' <= stream'.tickAt /\ stream'.told = "stale" /\ stream'.notices = 1
          /\ stream'.tickAt - StreamTick <= clock'
          /\ stream'.tickAt - StreamTick - snapshot'.readAt > StaleAfter
      BY <3>2, <2>1, <2>5, <2>7, <1>1, <1>2 DEF Fresh
    <3> QED BY <3>3, <3>4 DEF StreamInv, StreamType
  <2> QED BY <2>6, <2>7
<1>5. CASE ~StreamTicks
  <2>1. stream' = stream
    BY <1>5 DEF ReadersNext, ReadersClock, PublishSnapshot, CollectorEnds, PublishRound, ScrapeLoopEnds, AwaitFresh,
                Connect, Handshake, RetryEnds, PumpTick, PumpPing, PumpRound, PumpHungUp, HubHangsUp
  <2>2. CASE stream = NoStream
    BY <2>1, <2>2, <1>3 DEF StreamInv
  <2>3. CASE stream # NoStream
    <3>1. /\ stream \in StreamType /\ clock <= stream.tickAt
          /\ stream.told = "live" => stream.tickAt - stream.lastAt <= StaleAfter + StreamTick
          /\ stream.told = "stale" =>
                /\ stream.tickAt - StreamTick <= clock
                /\ \/ stream.tickAt - StreamTick - snapshot.readAt > StaleAfter
                   \/ snapshot.readAt >= stream.tickAt - StreamTick
          /\ stream.notices = IF stream.told = "stale" THEN 1 ELSE 0
      BY <2>3 DEF StreamInv, StreamType
    <3>2. stream.tickAt \in Int
      BY <3>1 DEF StreamType
    <3>3. /\ clock' \in Nat /\ clock' >= clock /\ clock' <= stream.tickAt
          /\ snapshot'.readAt = snapshot.readAt \/ snapshot'.readAt = clock
      <4>1. CASE ReadersClock
        BY <4>1, <3>2, <1>1 DEF ReadersClock, TimerDue
      <4>2. CASE PublishSnapshot
        BY <4>2, <3>1, <1>1 DEF PublishSnapshot, RdTypes
      <4>3. CASE CollectorEnds
        BY <4>3, <3>1, <1>1 DEF CollectorEnds, RdTypes
      <4>4. CASE ~(ReadersClock \/ PublishSnapshot \/ CollectorEnds)
        <5>1. clock' = clock /\ snapshot' = snapshot
          BY <4>4, <1>5 DEF ReadersNext, PublishRound, ScrapeLoopEnds, AwaitFresh, Connect, Handshake, RetryEnds,
                            PumpTick, PumpPing, PumpRound, PumpHungUp, HubHangsUp
        <5> QED BY <5>1, <3>1, <1>1
      <4> QED BY <4>1, <4>2, <4>3, <4>4
    <3>4. stream.told = "stale" =>
                /\ stream.tickAt - StreamTick <= clock'
                /\ \/ stream.tickAt - StreamTick - snapshot'.readAt > StaleAfter
                   \/ snapshot'.readAt >= stream.tickAt - StreamTick
      BY <3>1, <3>2, <3>3, <1>1, <1>2
    <3> QED BY <2>1, <3>1, <3>3, <3>4 DEF StreamInv, StreamType
  <2> QED BY <2>2, <2>3
<1> QED BY <1>4, <1>5

\* The invariant gives what the run checks.
LEMMA RdInvServes ==
  ASSUME RdInv
  PROVE  ReadersServed
<1>1. RdTypes /\ RingInv /\ TickInv /\ StreamInv /\ SnapshotsSentOnce /\ RoundsInOrder
  BY DEF RdInv
<1>2. ReadersTypeOK
  <2>1. snapshot.seq \in Nat /\ rings \in Seq(Int) /\ MaxHistory \in Nat
    BY <1>1, ReadersBounds DEF RdTypes, RingInv
  <2>2. \A limit \in 0..(MaxHistory + 1) :
          HistoryTail(rings, limit)
            = [i \in 1..Min({limit, Len(rings)}) |-> snapshot.seq - Min({limit, Len(rings)}) + i]
    <3> TAKE limit \in 0..(MaxHistory + 1)
    <3>1. limit \in Nat /\ snapshot.seq \in Int
      BY <2>1
    <3>2. \A k \in 1..Len(rings) : rings[k] = snapshot.seq - Len(rings) + k
      BY <1>1 DEF RingInv
    <3> QED BY <3>1, <3>2, <2>1, HistoryTailIs
  <2>3. SystemAnswer.seq \in -1..snapshot.seq
    BY <2>1 DEF SystemAnswer
  <2>4. rounds.seq \in 0..MaxRounds /\ push.seenRound \in 0..rounds.seq /\ ApplicationsAnswer \in 0..rounds.seq
    BY <1>1, ReadersBounds DEF RdTypes, ApplicationsAnswer
  <2>5. clock \in 0..MaxReaderTime /\ snapshot.readAt \in 0..clock /\ Len(rings) <= MaxHistory
    BY <1>1, ReadersBounds DEF RdTypes, RingInv
  <2>6. push.phase \in Phases /\ (push.phase \in {"handshake", "connected"} <=> link.state # "none")
    BY <1>1 DEF RdTypes
  <2> QED BY <2>2, <2>3, <2>4, <2>5, <2>6 DEF ReadersTypeOK, Phases
<1>3. StaleGoesOffline
  <2>1. clock \in Int /\ snapshot.readAt \in Int /\ link.tickAt \in Int
    BY <1>1, ReadersBounds DEF RdTypes
  <2> QED BY <2>1, <1>1, ReadersBounds DEF StaleGoesOffline, TickInv
<1>4. StreamNeverMisleads
  <2> SUFFICES ASSUME stream # NoStream
               PROVE  /\ stream.told = "live" => clock - stream.lastAt <= StaleAfter + StreamTick
                      /\ stream.told = "stale" => \/ stream.tickAt - StreamTick - snapshot.readAt > StaleAfter
                                                  \/ snapshot.readAt >= stream.tickAt - StreamTick
                      /\ stream.notices = IF stream.told = "stale" THEN 1 ELSE 0
    BY DEF StreamNeverMisleads
  <2>1. clock \in Int
    BY <1>1, ReadersBounds DEF RdTypes
  <2>2. /\ stream \in StreamType /\ clock <= stream.tickAt
        /\ stream.told = "live" => stream.tickAt - stream.lastAt <= StaleAfter + StreamTick
        /\ stream.told = "stale" => \/ stream.tickAt - StreamTick - snapshot.readAt > StaleAfter
                                    \/ snapshot.readAt >= stream.tickAt - StreamTick
        /\ stream.notices = IF stream.told = "stale" THEN 1 ELSE 0
    BY <1>1 DEF StreamInv, StreamType
  <2>3. stream.tickAt \in Int /\ stream.lastAt \in Int
    BY <2>2 DEF StreamType
  <2> QED BY <2>1, <2>2, <2>3, ReadersBounds
<1> QED BY <1>1, <1>2, <1>3, <1>4 DEF ReadersServed

\* The readers start with nothing sent and nothing owed.
LEMMA RdInvInit ==
  ASSUME ReadersInit
  PROVE  RdInv
<1>1. PICK on \in BOOLEAN, pushes \in BOOLEAN :
          /\ rounds = [seq |-> 0, open |-> on]
          /\ push = [phase |-> IF pushes THEN "waiting" ELSE "over", lastSent |-> -1,
                     receiving |-> on, seenRound |-> 0, wakeAt |-> 0, conns |-> 0]
          /\ stream = IF pushes THEN NoStream ELSE Watching
  BY DEF ReadersInit
<1>2. /\ clock = 0 /\ snapshot = [seq |-> 0, readAt |-> 0, ended |-> FALSE]
      /\ rings = <<>> /\ link = NoLink /\ sent = <<>>
  BY DEF ReadersInit
<1>3. push \in PushType /\ push.phase \in {"waiting", "over"} /\ push.lastSent = -1 /\ push.seenRound = 0
  BY <1>1 DEF PushType, Phases
<1>4. RdTypes
  <2>1. rounds \in [seq : 0..MaxRounds, open : BOOLEAN] /\ rounds.seq = 0
    BY <1>1, ReadersBounds
  <2>2. link \in LinkType /\ link.state = "none"
    BY <1>2 DEF NoLink, LinkType
  <2>3. snapshot \in [seq : Nat, readAt : Nat, ended : BOOLEAN] /\ snapshot.readAt <= clock /\ snapshot.seq = 0
    BY <1>2
  <2>4. clock \in 0..MaxReaderTime /\ sent \in Seq(FrameType)
    BY <1>2, ReadersBounds
  <2>5. push.lastSent <= snapshot.seq /\ push.seenRound <= rounds.seq
    BY <1>3, <2>1, <2>3
  <2>6. push.phase \in {"handshake", "connected"} <=> link.state # "none"
    BY <1>3, <2>2
  <2> QED BY <1>3, <2>1, <2>2, <2>3, <2>4, <2>5, <2>6, Zenon DEF RdTypes, PushType, LinkType
<1>5. RingInv /\ FramesInv /\ SnapshotsSentOnce /\ RoundsInOrder
  BY <1>2, ReadersBounds DEF RingInv, FramesInv, SnapshotsSentOnce, RoundsInOrder
<1>6. TickInv
  BY <1>3 DEF TickInv
<1>7. StreamInv
  <2>1. CASE pushes
    BY <2>1, <1>1 DEF StreamInv
  <2>2. CASE ~pushes
    BY <2>2, <1>1, <1>2, ReadersBounds DEF StreamInv, Watching
  <2> QED BY <2>1, <2>2
<1> QED BY <1>4, <1>5, <1>6, <1>7 DEF RdInv

\* For any bounds and any hung, ended or refused party: the readers of what the agent publishes
\* are served right.
THEOREM ReadersAlwaysServed == ReadersSpec => []ReadersServed
<1>1. ReadersInit => RdInv
  BY RdInvInit
<1>2. RdInv /\ [ReadersNext]_readerVars => RdInv'
  <2>1. ASSUME RdInv, ReadersNext PROVE RdInv'
    BY <2>1, TypesStep, RingStep, FramesStep, TickStep, StreamStep DEF RdInv
  <2>2. ASSUME RdInv, UNCHANGED readerVars PROVE RdInv'
    <3>1. /\ clock' = clock /\ snapshot' = snapshot /\ rings' = rings /\ rounds' = rounds
          /\ push' = push /\ link' = link /\ stream' = stream /\ sent' = sent
      BY <2>2 DEF readerVars
    <3>2. RdTypes'
      BY <2>2, <3>1, Zenon DEF RdInv, RdTypes
    <3>3. RingInv' /\ TickInv'
      BY <2>2, <3>1, Zenon DEF RdInv, RingInv, TickInv
    <3>4. FramesInv'
      BY <2>2, <3>1, Zenon DEF RdInv, FramesInv
    <3>5. StreamInv'
      BY <2>2, <3>1, Zenon DEF RdInv, StreamInv, NoStream, Watching
    <3>6. SnapshotsSentOnce' /\ RoundsInOrder'
      BY <2>2, <3>1 DEF RdInv, SnapshotsSentOnce, RoundsInOrder, Follows
    <3> QED BY <3>2, <3>3, <3>4, <3>5, <3>6 DEF RdInv
  <2> QED BY <2>1, <2>2
<1>3. RdInv => ReadersServed
  BY RdInvServes
<1> QED BY <1>1, <1>2, <1>3, PTL DEF ReadersSpec

-----------------------------------------------------------------------------
(* The mail client's reports. *)

\* The types of a report, a batch, the outbox, and what has become of incidents and reports.
ReportType == [seq : Nat, createdAt : Nat, reason : {"scheduled", "incident"},
               samples : Seq(Nat), alerts : Seq(Incidents)]
BatchType == [nextSeq : Nat \ {0}, lastKept : Nat \cup {Never}, samples : Seq(Nat), alerts : Seq(Incidents), active : SUBSET Incidents]
OutboxType == [queue : Seq(ReportType), dropped : Nat, backoff : 0..MailInterval]
FateType == [noted : SUBSET Incidents, pending : SUBSET Incidents, missed : SUBSET Incidents, skipped : SUBSET Nat,
             lost : SUBSET Nat, logged : Nat, readyAt : Nat]

\* The mail client's types.
MailTypes ==
    /\ mailNow \in 0..MaxMailTime /\ snapshotAt \in 0..mailNow /\ activeNow \subseteq Incidents
    /\ batch \in BatchType /\ nextReport \in Nat
    /\ channel \in Seq(ReportType) /\ outbox \in OutboxType /\ Len(outbox.queue) <= MaxQueued
    /\ wait \in 0..MailInterval /\ relay \in Seq(Nat) /\ fate \in FateType
    /\ (sending # Never => HasFront)

\* Samples in order, none past `now`, none older than `oldest`, at most the cap.
Gathers(samples, oldest, now) ==
    /\ Len(samples) <= MaxSamples
    /\ \A k \in DOMAIN samples : samples[k] >= oldest /\ samples[k] <= now
    /\ \A k \in DOMAIN samples : k > 1 => samples[k - 1] < samples[k]

\* A list of incidents, each once, no longer than a report holds.
NotedOnce(s) == /\ s \in Seq(Incidents) /\ Len(s) <= MaxAlerts
                /\ \A i, j \in 1..Len(s) : i # j => s[i] # s[j]

\* What holds of the batch at `now`, the next scheduled report being due at `next`.
BatchOK(b, next, now) ==
    /\ b \in BatchType
    /\ Gathers(b.samples, next - MailInterval - Staleness, b.lastKept)
    /\ b.lastKept <= now /\ NotedOnce(b.alerts)

\* A report the hub takes.
Fits(r) == r.samples # <<>> /\ Gathers(r.samples, r.createdAt - MailInterval - Staleness, r.createdAt)

\* The batch, and the scheduled report within an interval.
BatchInv == /\ mailNow <= nextReport /\ nextReport <= mailNow + MailInterval
            /\ BatchOK(batch, nextReport, mailNow)

\* Every report that waits, the hub takes.
FitInv == \A i \in DOMAIN Waiting : Fits(Waiting[i])

\* Where the reports up to `next` are: W waits, R was taken by the relay, some were lost or skipped;
\* what is lost is behind all that waits, and what was taken is not ahead of it.
InOrder(W, R, lost, skipped, next) ==
    /\ \A i \in DOMAIN W : W[i].seq \in 1..(next - 1)
    /\ \A i, j \in DOMAIN W : i < j => W[i].seq < W[j].seq
    /\ \A i \in DOMAIN R : R[i] \in 1..(next - 1)
    /\ \A i \in DOMAIN R, j \in DOMAIN W : R[i] <= W[j].seq
    /\ \A i, j \in DOMAIN R : i < j => R[i] <= R[j]
    /\ \A n \in lost : n \in 1..(next - 1) /\ \A j \in DOMAIN W : n < W[j].seq
    /\ \A n \in skipped : n \in 1..(next - 1)

\* No report is unaccounted for.
Placed(W, R, lost, skipped, next) ==
    \A n \in 1..(next - 1) : \/ \E i \in DOMAIN W : W[i].seq = n
                             \/ \E i \in DOMAIN R : R[i] = n
                             \/ n \in lost \/ n \in skipped

\* Every report in one place, in order.
Accounted(W, R, lost, skipped, next) ==
    InOrder(W, R, lost, skipped, next) /\ Placed(W, R, lost, skipped, next)

\* Every report of this client is accounted for, and what was lost has been counted.
AccountInv == Accounted(Waiting, relay, fate.lost, fate.skipped, batch.nextSeq)
CountInv == IsFiniteSet(fate.lost) /\ Cardinality(fate.lost) = outbox.dropped + fate.logged

\* The mail client's inductive invariant.
MailInv == MailTypes /\ BatchInv /\ FitInv /\ NoIncidentForgotten /\ AccountInv /\ CountInv

\* s is seq with one more element x, less its first when it was full.
Grown(S, s, seq, x, max) ==
    /\ s \in Seq(S)
    /\ Len(s) = IF Len(seq) < max THEN Len(seq) + 1 ELSE max
    /\ \A k \in 1..Len(s) : s[k] = IF k = Len(s) THEN x ELSE seq[k + Len(seq) + 1 - Len(s)]

\* An appended element, and one appended to the rest.
LEMMA BoundedIs ==
  ASSUME NEW S, NEW seq \in Seq(S), NEW x \in S, NEW max \in Nat, max > 0, Len(seq) <= max,
         NEW s, s = IF Len(seq) = max THEN Append(Tail(seq), x) ELSE Append(seq, x)
  PROVE  Grown(S, s, seq, x, max)
<1>1. PICK n \in Nat : n = Len(seq)
  BY LenProperties
<1>2. CASE n = max
  <2>1. seq # <<>>
    <3>1. Len(<<>>) = 0
      OBVIOUS
    <3>2. n # 0
      BY <1>2
    <3> QED BY <3>1, <3>2, <1>1, Zenon
  <2>2. PICK t : t = Tail(seq)
    OBVIOUS
  <2>3. t \in Seq(S) /\ Len(t) = n - 1 /\ \A i \in 1..Len(t) : t[i] = seq[i + 1]
    BY <2>1, <2>2, <1>1, HeadTailProperties
  <2>4. s = Append(t, x)
    BY <2>2, <1>1, <1>2
  <2>5. /\ s \in Seq(S) /\ Len(s) = Len(t) + 1
        /\ \A i \in 1..Len(t) : s[i] = t[i]
        /\ s[Len(t) + 1] = x
    <3>1. t \in Seq(S)
      BY <2>3
    <3>2. /\ Append(t, x) \in Seq(S) /\ Len(Append(t, x)) = Len(t) + 1
          /\ \A i \in 1..Len(t) : Append(t, x)[i] = t[i]
          /\ Append(t, x)[Len(t) + 1] = x
      BY <3>1, AppendProperties
    <3> QED BY <3>2, <2>4, Zenon
  <2>6. Len(s) = n /\ Len(s) = max
    BY <2>3, <2>5, <1>1, <1>2
  <2>7. \A k \in 1..n : s[k] = IF k = n THEN x ELSE seq[k + n + 1 - n]
    <3> TAKE k \in 1..n
    <3>1. CASE k = n
      BY <3>1, <2>3, <2>5, <1>1
    <3>2. CASE k # n
      <4>1. k \in 1..Len(t) /\ k + n + 1 - n = k + 1
        BY <3>2, <2>3, <1>1
      <4> QED BY <4>1, <3>2, <2>3, <2>5
    <3> QED BY <3>1, <3>2
  <2> QED BY <2>5, <2>6, <2>7, <1>1, <1>2 DEF Grown
<1>3. CASE n # max
  <2>1. s = Append(seq, x) /\ n < max
    BY <1>1, <1>3
  <2>2. /\ s \in Seq(S) /\ Len(s) = n + 1
        /\ \A i \in 1..n : s[i] = seq[i]
        /\ s[n + 1] = x
    BY <2>1, <1>1, AppendProperties
  <2>3. \A k \in 1..(n + 1) : s[k] = IF k = n + 1 THEN x ELSE seq[k + n + 1 - (n + 1)]
    BY <2>2
  <2> QED BY <2>1, <2>2, <2>3, <1>1 DEF Grown
<1> QED BY <1>2, <1>3

\* The first of a queue goes over from c to the end of q.
LEMMA MovedOver ==
  ASSUME NEW S, NEW q \in Seq(S), NEW c \in Seq(S), c # <<>>
  PROVE  Append(q, Head(c)) \o Tail(c) = q \o c
<1>1. PICK h, t : h = Head(c) /\ t = Tail(c)
  OBVIOUS
<1>2. h \in S /\ t \in Seq(S) /\ Len(t) = Len(c) - 1 /\ (\A i \in 1..Len(t) : t[i] = c[i + 1]) /\ h = c[1]
  BY <1>1, HeadTailProperties
<1>3. PICK a : a = Append(q, h)
  OBVIOUS
<1>4. /\ a \in Seq(S) /\ Len(a) = Len(q) + 1
      /\ \A i \in 1..Len(q) : a[i] = q[i]
      /\ a[Len(q) + 1] = h
  BY <1>2, <1>3, AppendProperties
<1>5. PICK m \in Nat, n \in Nat : m = Len(q) /\ n = Len(c)
  BY LenProperties
<1>6. n >= 1
  BY <1>5, EmptySeq
<1>7. PICK u, v : u = a \o t /\ v = q \o c
  OBVIOUS
<1>8. /\ u \in Seq(S) /\ Len(u) = Len(a) + Len(t)
      /\ \A i \in 1..(Len(a) + Len(t)) : u[i] = IF i <= Len(a) THEN a[i] ELSE t[i - Len(a)]
  BY <1>2, <1>4, <1>7, ConcatProperties
<1>9. /\ v \in Seq(S) /\ Len(v) = m + n
      /\ \A i \in 1..(m + n) : v[i] = IF i <= m THEN q[i] ELSE c[i - m]
  BY <1>5, <1>7, ConcatProperties
<1>10. /\ Len(u) = m + n /\ Len(a) = m + 1 /\ Len(t) = n - 1
       /\ \A i \in 1..(m + n) : u[i] = IF i <= m + 1 THEN a[i] ELSE t[i - (m + 1)]
  BY <1>2, <1>4, <1>5, <1>8
<1>11. \A i \in 1..(m + n) : u[i] = v[i]
  <2> TAKE i \in 1..(m + n)
  <2>1. CASE i <= m
    BY <2>1, <1>4, <1>5, <1>9, <1>10
  <2>2. CASE i = m + 1
    BY <2>2, <1>2, <1>4, <1>5, <1>9, <1>10
  <2>3. CASE i > m + 1
    <3>1. i - (m + 1) \in 1..Len(t) /\ i - (m + 1) + 1 = i - m
      BY <2>3, <1>10
    <3>2. t[i - (m + 1)] = c[i - m]
      BY <3>1, <1>2
    <3>3. u[i] = t[i - (m + 1)] /\ v[i] = c[i - m]
      BY <2>3, <1>9, <1>10
    <3> QED BY <3>2, <3>3
  <2> QED BY <2>1, <2>2, <2>3
<1>12. u = v
  BY <1>8, <1>9, <1>10, <1>11, SeqEqual
<1> QED BY <1>1, <1>3, <1>7, <1>12

\* w is v without its first.
Shifted(S, v, w) ==
    /\ v \in Seq(S) /\ w \in Seq(S) /\ Len(v) >= 1 /\ Len(w) = Len(v) - 1
    /\ \A i \in 1..Len(w) : w[i] = v[i + 1]

\* The front of the first of two queues leaves: the two have one fewer.
LEMMA FrontLeaves ==
  ASSUME NEW S, NEW q \in Seq(S), NEW c \in Seq(S), q # <<>>
  PROVE  Shifted(S, q \o c, Tail(q) \o c) /\ Head(q) = (q \o c)[1] /\ Tail(q) \in Seq(S)
<1>1. PICK t : t = Tail(q)
  OBVIOUS
<1>2. t \in Seq(S) /\ Len(t) = Len(q) - 1 /\ (\A i \in 1..Len(t) : t[i] = q[i + 1]) /\ Head(q) = q[1]
  BY <1>1, HeadTailProperties
<1>3. PICK m \in Nat, n \in Nat : m = Len(q) /\ n = Len(c)
  BY LenProperties
<1>4. m >= 1
  BY <1>3, EmptySeq
<1>5. PICK u, v : u = t \o c /\ v = q \o c
  OBVIOUS
<1>6. /\ u \in Seq(S) /\ Len(u) = Len(t) + n
      /\ \A i \in 1..(Len(t) + n) : u[i] = IF i <= Len(t) THEN t[i] ELSE c[i - Len(t)]
  BY <1>2, <1>3, <1>5, ConcatProperties
<1>7. /\ v \in Seq(S) /\ Len(v) = m + n
      /\ \A i \in 1..(m + n) : v[i] = IF i <= m THEN q[i] ELSE c[i - m]
  BY <1>3, <1>5, ConcatProperties
<1>8. /\ Len(u) = m + n - 1 /\ Len(t) = m - 1
      /\ \A i \in 1..(m + n - 1) : u[i] = IF i <= m - 1 THEN t[i] ELSE c[i - (m - 1)]
  BY <1>2, <1>3, <1>6
<1>9. \A i \in 1..(m + n - 1) : u[i] = v[i + 1]
  <2> TAKE i \in 1..(m + n - 1)
  <2>1. CASE i <= m - 1
    BY <2>1, <1>2, <1>4, <1>7, <1>8
  <2>2. CASE i > m - 1
    <3>1. i + 1 \in 1..(m + n) /\ ~(i + 1 <= m) /\ i + 1 - m = i - (m - 1)
      BY <2>2, <1>4
    <3>2. v[i + 1] = c[i + 1 - m] /\ u[i] = c[i - (m - 1)]
      BY <2>2, <3>1, <1>7, <1>8
    <3> QED BY <3>1, <3>2
  <2> QED BY <2>1, <2>2
<1>10. v[1] = q[1]
  BY <1>4, <1>7
<1>11. Shifted(S, v, u)
  BY <1>4, <1>6, <1>7, <1>8, <1>9 DEF Shifted
<1> QED BY <1>1, <1>2, <1>5, <1>10, <1>11

\* One more at the end of the second of two queues.
LEMMA AddedLast ==
  ASSUME NEW S, NEW q \in Seq(S), NEW c \in Seq(S), NEW x \in S
  PROVE  q \o Append(c, x) = Append(q \o c, x)
<1>1. Append(c, x) = c \o <<x>> /\ <<x>> \in Seq(S)
  BY AppendIsConcat
<1>2. q \o c \in Seq(S)
  BY ConcatProperties
<1>3. Append(q \o c, x) = (q \o c) \o <<x>>
  BY <1>2, AppendIsConcat
<1>4. (q \o c) \o <<x>> = q \o (c \o <<x>>)
  BY <1>1, ConcatAssociative
<1> QED BY <1>1, <1>3, <1>4

\* A report that is not sealed is skipped.
LEMMA SkipAccounted ==
  ASSUME NEW W, NEW R, NEW lost, NEW skipped, NEW next \in Nat \ {0},
         \A i \in DOMAIN W : W[i].seq \in Nat, Accounted(W, R, lost, skipped, next)
  PROVE  Accounted(W, R, lost, skipped \cup {next}, next + 1)
<1>1. InOrder(W, R, lost, skipped \cup {next}, next + 1)
  BY DEF Accounted, InOrder
<1>2. Placed(W, R, lost, skipped \cup {next}, next + 1)
  <2> SUFFICES ASSUME NEW n \in 1..next
               PROVE  \/ \E i \in DOMAIN W : W[i].seq = n
                      \/ \E i \in DOMAIN R : R[i] = n
                      \/ n \in lost \/ n \in skipped \cup {next}
    BY DEF Placed
  <2>1. n \in 1..(next - 1) \/ n = next
    OBVIOUS
  <2> QED BY <2>1 DEF Accounted, Placed
<1> QED BY <1>1, <1>2 DEF Accounted

\* A closed report waits, last.
LEMMA AddAccounted ==
  ASSUME NEW S, NEW W \in Seq(S), NEW R, NEW lost, NEW skipped, NEW next \in Nat \ {0}, NEW r \in S, r.seq = next,
         Accounted(W, R, lost, skipped, next)
  PROVE  Accounted(Append(W, r), R, lost, skipped, next + 1)
<1>1. PICK V : V = Append(W, r)
  OBVIOUS
<1>2. PICK m \in Nat : m = Len(W)
  BY LenProperties
<1>3. /\ V \in Seq(S) /\ Len(V) = m + 1
      /\ \A i \in 1..m : V[i] = W[i]
      /\ V[m + 1] = r
  BY <1>1, <1>2, AppendProperties
<1>4. DOMAIN W = 1..m /\ DOMAIN V = 1..(m + 1)
  BY <1>2, <1>3, LenProperties
<1>5. /\ \A i \in 1..m : W[i].seq \in 1..(next - 1)
      /\ \A i, j \in 1..m : i < j => W[i].seq < W[j].seq
      /\ \A i \in DOMAIN R : R[i] \in 1..(next - 1)
      /\ \A i \in DOMAIN R, j \in 1..m : R[i] <= W[j].seq
      /\ \A i, j \in DOMAIN R : i < j => R[i] <= R[j]
      /\ \A n \in lost : n \in 1..(next - 1) /\ \A j \in 1..m : n < W[j].seq
      /\ \A n \in skipped : n \in 1..(next - 1)
  BY <1>4 DEF Accounted, InOrder
<1>6. \A i \in 1..(m + 1) : i \in 1..m \/ (i = m + 1 /\ V[i].seq = next)
  BY <1>3
<1>7. InOrder(V, R, lost, skipped, next + 1)
  BY <1>3, <1>4, <1>5, <1>6 DEF InOrder
<1>8. Placed(V, R, lost, skipped, next + 1)
  <2> SUFFICES ASSUME NEW n \in 1..next
               PROVE  \/ \E i \in DOMAIN V : V[i].seq = n
                      \/ \E i \in DOMAIN R : R[i] = n
                      \/ n \in lost \/ n \in skipped
    BY DEF Placed
  <2>1. CASE n = next
    <3>1. m + 1 \in DOMAIN V /\ V[m + 1].seq = n
      BY <2>1, <1>3, <1>4
    <3> QED BY <3>1
  <2>2. CASE n # next
    <3>1. n \in 1..(next - 1)
      BY <2>2
    <3>2. ASSUME NEW i \in DOMAIN W, W[i].seq = n PROVE \E k \in DOMAIN V : V[k].seq = n
      <4>1. i \in DOMAIN V /\ V[i].seq = n
        BY <3>2, <1>3, <1>4
      <4> QED BY <4>1
    <3> QED BY <3>1, <3>2 DEF Accounted, Placed
  <2> QED BY <2>1, <2>2
<1> QED BY <1>1, <1>7, <1>8 DEF Accounted

\* The oldest report that waits is lost.
LEMMA LoseAccounted ==
  ASSUME NEW S, NEW W, NEW V, Shifted(S, W, V), NEW R, NEW lost, NEW skipped, NEW next \in Nat \ {0},
         Accounted(W, R, lost, skipped, next)
  PROVE  Accounted(V, R, lost \cup {W[1].seq}, skipped, next)
<1>1. PICK m \in Nat : m = Len(V)
  BY LenProperties DEF Shifted
<1>2. DOMAIN W = 1..(m + 1) /\ DOMAIN V = 1..m /\ \A i \in 1..m : V[i] = W[i + 1]
  <2>1. W \in Seq(S) /\ V \in Seq(S) /\ Len(W) = m + 1 /\ \A i \in 1..m : V[i] = W[i + 1]
    BY <1>1, LenProperties DEF Shifted
  <2> QED BY <1>1, <2>1, LenProperties
<1>3. /\ \A i \in 1..(m + 1) : W[i].seq \in 1..(next - 1)
      /\ \A i, j \in 1..(m + 1) : i < j => W[i].seq < W[j].seq
      /\ \A i \in DOMAIN R : R[i] \in 1..(next - 1)
      /\ \A i \in DOMAIN R, j \in 1..(m + 1) : R[i] <= W[j].seq
      /\ \A i, j \in DOMAIN R : i < j => R[i] <= R[j]
      /\ \A n \in lost : n \in 1..(next - 1) /\ \A j \in 1..(m + 1) : n < W[j].seq
      /\ \A n \in skipped : n \in 1..(next - 1)
  BY <1>2 DEF Accounted, InOrder
<1>4. \A i \in 1..m : i + 1 \in 1..(m + 1) /\ 1 < i + 1 /\ V[i].seq = W[i + 1].seq /\ W[1].seq < V[i].seq
  <2> TAKE i \in 1..m
  <2>1. i + 1 \in 1..(m + 1) /\ 1 \in 1..(m + 1) /\ 1 < i + 1
    OBVIOUS
  <2> QED BY <2>1, <1>2, <1>3
<1>5. InOrder(V, R, lost \cup {W[1].seq}, skipped, next)
  <2>1. /\ \A i \in 1..m : V[i].seq \in 1..(next - 1)
        /\ \A i, j \in 1..m : i < j => V[i].seq < V[j].seq
        /\ \A i \in DOMAIN R, j \in 1..m : R[i] <= V[j].seq
    BY <1>3, <1>4
  <2>2. \A n \in lost \cup {W[1].seq} : n \in 1..(next - 1) /\ \A j \in 1..m : n < V[j].seq
    <3>1. W[1].seq \in 1..(next - 1)
      BY <1>3
    <3>2. \A n \in lost : n \in 1..(next - 1) /\ \A j \in 1..m : n < V[j].seq
      BY <1>3, <1>4
    <3> QED BY <3>1, <3>2, <1>4
  <2> QED BY <2>1, <2>2, <1>2, <1>3 DEF InOrder
<1>6. Placed(V, R, lost \cup {W[1].seq}, skipped, next)
  <2> SUFFICES ASSUME NEW n \in 1..(next - 1), NEW i \in 1..(m + 1), W[i].seq = n, i # 1
               PROVE  \E k \in DOMAIN V : V[k].seq = n
    BY <1>2 DEF Placed, Accounted
  <2>1. i - 1 \in 1..m /\ i - 1 + 1 = i
    OBVIOUS
  <2>2. V[i - 1].seq = n
    BY <2>1, <1>2
  <2> QED BY <2>1, <2>2, <1>2
<1> QED BY <1>5, <1>6 DEF Accounted

\* The relay takes the oldest report that waits, which stays until it is known.
LEMMA RelayAccounted ==
  ASSUME NEW W, 1 \in DOMAIN W, NEW R \in Seq(Nat), NEW lost, NEW skipped, NEW next \in Nat \ {0},
         \A i \in DOMAIN W : i \in Nat /\ i >= 1,
         Accounted(W, R, lost, skipped, next), W[1].seq \in Nat
  PROVE  Accounted(W, Append(R, W[1].seq), lost, skipped, next)
<1>1. PICK x \in Nat : x = W[1].seq
  OBVIOUS
<1>2. PICK m \in Nat : m = Len(R)
  BY LenProperties
<1>3. PICK Q : Q = Append(R, x)
  OBVIOUS
<1>4. /\ Q \in Seq(Nat) /\ Len(Q) = m + 1
      /\ \A i \in 1..m : Q[i] = R[i]
      /\ Q[m + 1] = x
  BY <1>2, <1>3, AppendProperties
<1>5. DOMAIN R = 1..m /\ DOMAIN Q = 1..(m + 1)
  BY <1>2, <1>4, LenProperties
<1>6. /\ \A i \in DOMAIN W : W[i].seq \in 1..(next - 1)
      /\ \A i, j \in DOMAIN W : i < j => W[i].seq < W[j].seq
      /\ \A i \in 1..m : R[i] \in 1..(next - 1)
      /\ \A i \in 1..m, j \in DOMAIN W : R[i] <= W[j].seq
      /\ \A i, j \in 1..m : i < j => R[i] <= R[j]
  BY <1>5 DEF Accounted, InOrder
<1>7. /\ x \in 1..(next - 1) /\ \A i \in 1..m : R[i] <= x
      /\ \A j \in DOMAIN W : x <= W[j].seq
  <2>1. x \in 1..(next - 1) /\ \A i \in 1..m : R[i] <= x
    BY <1>1, <1>6
  <2>2. ASSUME NEW j \in DOMAIN W PROVE x <= W[j].seq
    <3>1. j = 1 \/ 1 < j
      OBVIOUS
    <3>2. W[j].seq \in Int
      BY <1>6
    <3> QED BY <3>1, <3>2, <1>1, <1>6
  <2> QED BY <2>1, <2>2
<1>8. \A i \in 1..(m + 1) : i \in 1..m \/ (i = m + 1 /\ Q[i] = x)
  BY <1>4
<1>9. InOrder(W, Q, lost, skipped, next)
  <2>1. /\ \A i \in 1..(m + 1) : Q[i] \in 1..(next - 1)
        /\ \A i \in 1..(m + 1), j \in DOMAIN W : Q[i] <= W[j].seq
    BY <1>4, <1>6, <1>7, <1>8
  <2>2. \A i, j \in 1..(m + 1) : i < j => Q[i] <= Q[j]
    <3> SUFFICES ASSUME NEW i \in 1..(m + 1), NEW j \in 1..(m + 1), i < j PROVE Q[i] <= Q[j]
      OBVIOUS
    <3>1. i \in 1..m /\ Q[i] = R[i]
      BY <1>4
    <3>2. CASE j \in 1..m
      BY <3>1, <3>2, <1>4, <1>6
    <3>3. CASE j = m + 1
      BY <3>1, <3>3, <1>4, <1>7
    <3> QED BY <3>2, <3>3, <1>8
  <2> QED BY <2>1, <2>2, <1>5 DEF Accounted, InOrder
<1>10. Placed(W, Q, lost, skipped, next)
  <2> SUFFICES ASSUME NEW n \in 1..(next - 1), NEW i \in 1..m, R[i] = n
               PROVE  \E k \in DOMAIN Q : Q[k] = n
    BY <1>5 DEF Placed, Accounted
  <2>1. i \in DOMAIN Q /\ Q[i] = n
    BY <1>4, <1>5
  <2> QED BY <2>1
<1> QED BY <1>1, <1>3, <1>9, <1>10 DEF Accounted

\* A report the relay took need not wait.
LEMMA TakenAccounted ==
  ASSUME NEW S, NEW W, NEW V, Shifted(S, W, V), NEW R, NEW lost, NEW skipped, NEW next \in Nat \ {0},
         Accounted(W, R, lost, skipped, next), NEW k \in DOMAIN R, R[k] = W[1].seq
  PROVE  Accounted(V, R, lost, skipped, next)
<1>1. Accounted(V, R, lost \cup {W[1].seq}, skipped, next)
  BY LoseAccounted
<1>2. InOrder(V, R, lost, skipped, next)
  BY <1>1 DEF Accounted, InOrder
<1>3. Placed(V, R, lost, skipped, next)
  BY <1>1 DEF Accounted, Placed
<1> QED BY <1>2, <1>3 DEF Accounted

\* The mail client's bounds are numbers.
LEMMA MailBounds ==
  /\ MailInterval \in Nat /\ MailInterval >= 1 /\ FirstRetry <= MailInterval /\ SampleInterval \in Nat /\ SampleInterval > 0 /\ FirstRetry \in Nat
  /\ MaxSamples \in Nat /\ MaxSamples > 0 /\ MaxAlerts \in Nat /\ MaxAlerts > 0 /\ MaxQueued \in Nat /\ MaxQueued > 0
  /\ Staleness \in Nat /\ WindowSlack \in Nat /\ Staleness <= WindowSlack /\ MaxMailTime \in Nat
  /\ IsFiniteSet(Incidents) /\ Cardinality(Incidents) \in Nat /\ Incidents = 1..Cardinality(Incidents)
<1>1. IsFiniteSet(Incidents) /\ Incidents = 1..Cardinality(Incidents)
  BY MailClientAssumption
<1>2. Cardinality(Incidents) \in Nat
  BY <1>1, FS_CardinalityType
<1>3. /\ MailInterval \in Nat \ {0} /\ SampleInterval \in Nat \ {0} /\ FirstRetry \in Nat \ {0}
  BY MailClientAssumption
<1>4. MaxSamples \in Nat \ {0} /\ MaxAlerts \in Nat \ {0} /\ MaxQueued \in Nat \ {0}
  BY MailClientAssumption
<1>5. Staleness \in Nat /\ WindowSlack \in Nat /\ MaxMailTime \in Nat
  BY MailClientAssumption
<1>6. FirstRetry <= MailInterval /\ Staleness + 1 <= WindowSlack
  BY MailClientAssumption
<1> QED BY <1>1, <1>2, <1>3, <1>4, <1>5, <1>6

\* The walk over the active incidents, as a function of how far it is.
IsWalk(w, n, noted, alerts) == w = [i \in 0..n |-> IF i = 0 THEN noted ELSE NoteOne(w[i - 1], i, alerts)]

\* There is one, of any length.
LEMMA WalkExists ==
  ASSUME NEW noted, NEW alerts
  PROVE  \A n \in Nat : \E w : IsWalk(w, n, noted, alerts)
<1> DEFINE T == {n \in Nat : \E w : IsWalk(w, n, noted, alerts)}
<1>1. 0 \in T
  <2>1. PICK w : w = [i \in 0..0 |-> noted]
    OBVIOUS
  <2>2. w = [i \in 0..0 |-> IF i = 0 THEN noted ELSE NoteOne(w[i - 1], i, alerts)]
    BY <2>1
  <2> QED BY <2>2 DEF IsWalk
<1>2. ASSUME NEW n \in Nat, n \in T PROVE n + 1 \in T
  <2>1. PICK w : IsWalk(w, n, noted, alerts)
    BY <1>2
  <2>2. PICK v : v = [i \in 0..(n + 1) |-> IF i = n + 1 THEN NoteOne(w[n], n + 1, alerts) ELSE w[i]]
    OBVIOUS
  <2>3. \A i \in 0..n : w[i] = IF i = 0 THEN noted ELSE NoteOne(w[i - 1], i, alerts)
    BY <2>1 DEF IsWalk
  <2>4. \A i \in 0..(n + 1) : v[i] = IF i = 0 THEN noted ELSE NoteOne(v[i - 1], i, alerts)
    <3> TAKE i \in 0..(n + 1)
    <3>1. CASE i = n + 1
      <4>1. v[i] = NoteOne(w[n], n + 1, alerts) /\ i # 0
        BY <3>1, <2>2
      <4>2. v[i - 1] = w[n]
        <5>1. i - 1 = n /\ n \in 0..(n + 1) /\ n # n + 1
          BY <3>1
        <5> QED BY <5>1, <2>2
      <4> QED BY <4>1, <4>2, <3>1
    <3>2. CASE i = 0
      BY <3>2, <2>2, <2>3
    <3>3. CASE i # n + 1 /\ i # 0
      <4>1. i \in 0..n /\ i - 1 \in 0..(n + 1) /\ i - 1 # n + 1
        BY <3>3
      <4>2. v[i] = w[i] /\ v[i - 1] = w[i - 1]
        BY <3>3, <4>1, <2>2
      <4> QED BY <4>1, <4>2, <3>3, <2>3
    <3> QED BY <3>1, <3>2, <3>3
  <2>5. v = [i \in 0..(n + 1) |-> v[i]]
    BY <2>2
  <2>6. IsWalk(v, n + 1, noted, alerts)
    BY <2>4, <2>5 DEF IsWalk
  <2> QED BY <2>6
<1> HIDE DEF T
<1>3. \A n \in Nat : n \in T
  BY <1>1, <1>2, SetInduction
<1> QED BY <1>3 DEF T

\* What is noted is where the walk ends.
LEMMA NotedWalks ==
  ASSUME NEW noted, NEW alerts
  PROVE  \E w : IsWalk(w, Cardinality(Incidents), noted, alerts) /\ Noted(noted, alerts) = w[Cardinality(Incidents)]
<1>1. \E w : IsWalk(w, Cardinality(Incidents), noted, alerts)
  BY WalkExists, MailBounds
<1>2. PICK v : v = CHOOSE w : IsWalk(w, Cardinality(Incidents), noted, alerts)
  OBVIOUS
<1>3. IsWalk(v, Cardinality(Incidents), noted, alerts)
  BY <1>1, <1>2
<1>4. Noted(noted, alerts) = v[Cardinality(Incidents)]
  BY <1>2, Zenon DEF Noted, IsWalk
<1> QED BY <1>3, <1>4

\* A list that lacks an incident is shorter than all of them.
LEMMA RoomLeft ==
  ASSUME NEW s, NotedOnce(s), NEW i \in Incidents, i \notin ToSet(s)
  PROVE  Len(s) < Cardinality(Incidents)
<1>1. PICK n \in Nat : n = Len(s)
  BY LenProperties DEF NotedOnce
<1>2. s \in [1..n -> Incidents] /\ DOMAIN s = 1..n
  BY <1>1, LenProperties DEF NotedOnce
<1>3. s \in Injection(1..n, Incidents)
  BY <1>1, <1>2 DEF Injection, IsInjective, NotedOnce
<1>4. s \notin Surjection(1..n, Incidents)
  BY <1>2 DEF Surjection, ToSet
<1>5. /\ Cardinality(1..n) <= Cardinality(Incidents)
      /\ Cardinality(1..n) = Cardinality(Incidents) <=> s \in Surjection(1..n, Incidents)
  BY <1>3, MailBounds, FS_Injection
<1>6. Cardinality(1..n) = n
  <2>1. 1 \in Int /\ n \in Int
    BY <1>1
  <2>2. Cardinality(1..n) = IF 1 > n THEN 0 ELSE n - 1 + 1
    BY <2>1, FS_Interval
  <2> QED BY <2>2, <1>1
<1> QED BY <1>1, <1>4, <1>5, <1>6, MailBounds

\* One incident is noted; none is pushed out while a report has room for all.
LEMMA NoteOneIs ==
  ASSUME NEW s, NotedOnce(s), NEW i \in Incidents, NEW alerts
  PROVE  LET t == NoteOne(s, i, alerts)
         IN  /\ NotedOnce(t)
             /\ Cardinality(Incidents) <= MaxAlerts =>
                   ToSet(s) \subseteq ToSet(t) /\ (i \in alerts => i \in ToSet(t))
<1>1. CASE i \notin alerts \/ i \in ToSet(s)
  BY <1>1 DEF NoteOne
<1>2. CASE i \in alerts /\ i \notin ToSet(s)
  <2>1. PICK t : t = NoteOne(s, i, alerts)
    OBVIOUS
  <2>2. t = IF Len(s) = MaxAlerts THEN Append(Tail(s), i) ELSE Append(s, i)
    BY <2>1, <1>2 DEF NoteOne, Bounded
  <2>3. s \in Seq(Incidents) /\ Len(s) <= MaxAlerts /\ \A j, k \in 1..Len(s) : j # k => s[j] # s[k]
    BY DEF NotedOnce
  <2>4. Grown(Incidents, t, s, i, MaxAlerts)
    BY <2>2, <2>3, BoundedIs, MailBounds
  <2>5. PICK n \in Nat : n = Len(s)
    BY <2>3, LenProperties
  <2>6. PICK m \in Nat : m = Len(t)
    BY <2>4, LenProperties DEF Grown
  <2>7. /\ t \in Seq(Incidents) /\ m = (IF n < MaxAlerts THEN n + 1 ELSE MaxAlerts)
        /\ \A k \in 1..m : t[k] = IF k = m THEN i ELSE s[k + n + 1 - m]
    BY <2>4, <2>5, <2>6 DEF Grown
  <2>8. n <= MaxAlerts /\ m <= n + 1 /\ m >= 1 /\ m <= MaxAlerts
    BY <2>3, <2>5, <2>7, MailBounds
  <2>9. DOMAIN s = 1..n /\ DOMAIN t = 1..m
    BY <2>3, <2>5, <2>6, <2>7, LenProperties
  <2>10. \A k \in 1..n : s[k] # i
    BY <2>9, <1>2 DEF ToSet
  <2>11. NotedOnce(t)
    <3> SUFFICES ASSUME NEW j \in 1..m, NEW k \in 1..m, j # k PROVE t[j] # t[k]
      BY <2>6, <2>7, <2>8 DEF NotedOnce
    <3>1. \A l \in 1..m : l # m => l + n + 1 - m \in 1..n /\ t[l] = s[l + n + 1 - m]
      <4> SUFFICES ASSUME NEW l \in 1..m, l # m PROVE l + n + 1 - m \in 1..n /\ t[l] = s[l + n + 1 - m]
        OBVIOUS
      <4>1. m <= n + 1
        BY <2>8
      <4>2. l + n + 1 - m \in 1..n
        BY <4>1
      <4> QED BY <4>2, <2>7
    <3>2. t[m] = i
      BY <2>7, <2>8
    <3>3. CASE j = m
      BY <3>1, <3>2, <3>3, <2>10
    <3>4. CASE k = m
      BY <3>1, <3>2, <3>4, <2>10
    <3>5. CASE j # m /\ k # m
      <4>1. j + n + 1 - m # k + n + 1 - m
        OBVIOUS
      <4>2. PICK a, b : a = j + n + 1 - m /\ b = k + n + 1 - m
        OBVIOUS
      <4>3. a \in 1..n /\ b \in 1..n /\ t[j] = s[a] /\ t[k] = s[b] /\ a # b
        BY <3>1, <3>5, <4>1, <4>2
      <4> QED BY <4>3, <2>3, <2>5
    <3> QED BY <3>3, <3>4, <3>5
  <2>12. ASSUME Cardinality(Incidents) <= MaxAlerts
         PROVE  ToSet(s) \subseteq ToSet(t) /\ i \in ToSet(t)
    <3>1. n < MaxAlerts
      BY <2>5, <2>12, <1>2, RoomLeft, MailBounds
    <3>2. m = n + 1
      BY <3>1, <2>7
    <3>3. \A k \in 1..n : k \in DOMAIN t /\ t[k] = s[k]
      <4> TAKE k \in 1..n
      <4>1. k \in 1..m /\ k # m /\ k + n + 1 - m = k
        BY <3>2
      <4> QED BY <4>1, <2>7, <2>9
    <3>4. m \in DOMAIN t /\ t[m] = i
      BY <2>7, <2>8, <2>9
    <3> QED BY <3>3, <3>4, <2>9 DEF ToSet
  <2> QED BY <2>1, <2>11, <2>12
<1> QED BY <1>1, <1>2

\* What a walk of length n has noted.
Walked(s, t, n, alerts) ==
    /\ NotedOnce(t)
    /\ Cardinality(Incidents) <= MaxAlerts => ToSet(s) \subseteq ToSet(t) /\ \A i \in 1..n : i \in alerts => i \in ToSet(t)

\* Each active incident is noted once, and none is pushed out while a report has room for all.
LEMMA NotedIs ==
  ASSUME NEW s, NotedOnce(s), NEW alerts, alerts \subseteq Incidents
  PROVE  /\ NotedOnce(Noted(s, alerts))
         /\ Cardinality(Incidents) <= MaxAlerts => ToSet(s) \cup alerts \subseteq ToSet(Noted(s, alerts))
<1>1. PICK c \in Nat : c = Cardinality(Incidents)
  BY MailBounds
<1>2. PICK w : IsWalk(w, c, s, alerts) /\ Noted(s, alerts) = w[c]
  BY <1>1, NotedWalks
<1>3. \A i \in 0..c : w[i] = IF i = 0 THEN s ELSE NoteOne(w[i - 1], i, alerts)
  BY <1>2 DEF IsWalk
<1> DEFINE T == {n \in Nat : n <= c => Walked(s, w[n], n, alerts)}
<1>4. 0 \in T
  BY <1>3 DEF Walked
<1>5. ASSUME NEW n \in Nat, n \in T PROVE n + 1 \in T
  <2> SUFFICES ASSUME n + 1 <= c PROVE Walked(s, w[n + 1], n + 1, alerts)
    OBVIOUS
  <2>1. Walked(s, w[n], n, alerts)
    BY <1>5, <1>1
  <2>2. n + 1 \in Incidents
    BY <1>1, MailBounds
  <2>3. w[n + 1] = NoteOne(w[n], n + 1, alerts)
    <3>1. n + 1 \in 0..c /\ n + 1 # 0 /\ n + 1 - 1 = n
      BY <1>1
    <3> QED BY <3>1, <1>3
  <2>4. NotedOnce(w[n])
    BY <2>1 DEF Walked
  <2>5. /\ NotedOnce(w[n + 1])
        /\ Cardinality(Incidents) <= MaxAlerts =>
              ToSet(w[n]) \subseteq ToSet(w[n + 1]) /\ (n + 1 \in alerts => n + 1 \in ToSet(w[n + 1]))
    BY <2>2, <2>3, <2>4, NoteOneIs
  <2>6. \A i \in 1..(n + 1) : i \in 1..n \/ i = n + 1
    OBVIOUS
  <2> QED BY <2>1, <2>5, <2>6 DEF Walked
<1> HIDE DEF T
<1>6. c \in T
  BY <1>1, <1>4, <1>5, SetInduction
<1>7. Walked(s, w[c], c, alerts)
  BY <1>1, <1>6 DEF T
<1>8. alerts \subseteq 1..c
  BY <1>1, MailBounds
<1> QED BY <1>2, <1>7, <1>8 DEF Walked

\* The samples stay in order when one more is kept.
LEMMA SampleKept ==
  ASSUME NEW s \in Seq(Nat), NEW x \in Nat, NEW oldest \in Int, NEW last \in Int, NEW t,
         Gathers(s, oldest, last), last < x, oldest <= x, t = Bounded(s, x, MaxSamples)
  PROVE  t \in Seq(Nat) /\ Gathers(t, oldest, x) /\ t # <<>>
<1>1. Len(s) <= MaxSamples /\ t = IF Len(s) = MaxSamples THEN Append(Tail(s), x) ELSE Append(s, x)
  BY DEF Gathers, Bounded
<1>2. Grown(Nat, t, s, x, MaxSamples)
  BY <1>1, BoundedIs, MailBounds
<1>3. PICK n \in Nat : n = Len(s)
  BY LenProperties
<1>4. PICK m \in Nat : m = Len(t)
  BY <1>2, LenProperties DEF Grown
<1>5. /\ t \in Seq(Nat) /\ m = (IF n < MaxSamples THEN n + 1 ELSE MaxSamples)
      /\ \A k \in 1..m : t[k] = IF k = m THEN x ELSE s[k + n + 1 - m]
  BY <1>2, <1>3, <1>4 DEF Grown
<1>6. n <= MaxSamples /\ m <= n + 1 /\ m >= 1 /\ m <= MaxSamples
  BY <1>1, <1>3, <1>5, MailBounds
<1>7. DOMAIN s = 1..n /\ DOMAIN t = 1..m
  BY <1>3, <1>4, <1>5, LenProperties
<1>8. /\ \A k \in 1..n : s[k] \in Nat /\ s[k] >= oldest /\ s[k] <= last
      /\ \A k \in 1..n : k > 1 => s[k - 1] < s[k]
  BY <1>3, <1>7, ElementOfSeq DEF Gathers
<1>9. \A l \in 1..m : l # m => l + n + 1 - m \in 1..n /\ t[l] = s[l + n + 1 - m]
  <2> SUFFICES ASSUME NEW l \in 1..m, l # m PROVE l + n + 1 - m \in 1..n /\ t[l] = s[l + n + 1 - m]
    OBVIOUS
  <2>1. m <= n + 1
    BY <1>6
  <2>2. l + n + 1 - m \in 1..n
    BY <2>1
  <2> QED BY <2>2, <1>5
<1>10. t[m] = x
  BY <1>5, <1>6
<1>11. \A k \in 1..m : t[k] >= oldest /\ t[k] <= x
  <2> TAKE k \in 1..m
  <2>1. CASE k = m
    BY <2>1, <1>10
  <2>2. CASE k # m
    <3>1. PICK a \in 1..n : t[k] = s[a]
      BY <2>2, <1>9
    <3> QED BY <3>1, <1>8
  <2> QED BY <2>1, <2>2
<1>12. ASSUME NEW k \in 1..m, k > 1 PROVE t[k - 1] < t[k]
  <2>1. k - 1 \in 1..m /\ k - 1 # m
    BY <1>12
  <2>2. PICK a : a = k - 1 + n + 1 - m
    OBVIOUS
  <2>3. a \in 1..n /\ t[k - 1] = s[a]
    BY <2>1, <2>2, <1>9
  <2>4. CASE k = m
    BY <2>3, <2>4, <1>8, <1>10
  <2>5. CASE k # m
    <3>1. a + 1 = k + n + 1 - m
      BY <2>2
    <3>2. a + 1 \in 1..n /\ t[k] = s[a + 1]
      BY <3>1, <2>5, <1>9
    <3>3. PICK c : c = a + 1
      OBVIOUS
    <3>4. c \in 1..n /\ c > 1 /\ c - 1 = a /\ t[k] = s[c]
      BY <2>3, <3>2, <3>3
    <3>5. s[c - 1] < s[c]
      BY <3>4, <1>8
    <3> QED BY <2>3, <3>4, <3>5
  <2> QED BY <2>4, <2>5
<1>13. Gathers(t, oldest, x)
  BY <1>4, <1>6, <1>7, <1>11, <1>12 DEF Gathers
<1>14. t # <<>>
  <2>1. Len(<<>>) = 0
    OBVIOUS
  <2> QED BY <2>1, <1>4, <1>6
<1> QED BY <1>5, <1>13, <1>14

\* Samples gathered before are gathered under a wider window.
LEMMA GathersWiden ==
  ASSUME NEW s \in Seq(Nat), NEW o \in Int, NEW p \in Int, NEW last \in Int, NEW now \in Int,
         Gathers(s, o, last), p <= o, last <= now
  PROVE  Gathers(s, p, now)
<1>1. \A k \in DOMAIN s : s[k] \in Nat
  BY ElementOfSeq, LenProperties
<1> QED BY <1>1 DEF Gathers

\* What one tick gathers: a sample that is not too old and not too soon, and the incidents.
LEMMA GatherBatch ==
  ASSUME MailTypes, BatchInv, snapshotAt' \in snapshotAt..mailNow, activeNow' \in SUBSET Incidents
  PROVE  /\ BatchOK(Gathered, nextReport, mailNow) /\ Gathered.nextSeq = batch.nextSeq
         /\ Cardinality(Incidents) <= MaxAlerts => ToSet(batch.alerts) \cup activeNow' \subseteq ToSet(Gathered.alerts)
<1>1. PICK at \in Nat : at = snapshotAt' /\ at <= mailNow
  BY MailBounds DEF MailTypes
<1>2. /\ mailNow \in Nat /\ nextReport \in Nat /\ mailNow <= nextReport /\ nextReport <= mailNow + MailInterval
      /\ BatchOK(batch, nextReport, mailNow)
  BY MailBounds DEF MailTypes, BatchInv
<1>3. /\ batch \in BatchType /\ Gathers(batch.samples, nextReport - MailInterval - Staleness, batch.lastKept)
      /\ batch.lastKept <= mailNow /\ NotedOnce(batch.alerts)
  BY <1>2 DEF BatchOK
<1>4. PICK o : o = IF mailNow - at <= Staleness THEN Offer(batch, at) ELSE batch
  OBVIOUS
<1>5. /\ o \in BatchType /\ o.nextSeq = batch.nextSeq /\ o.alerts = batch.alerts
      /\ Gathers(o.samples, nextReport - MailInterval - Staleness, o.lastKept) /\ o.lastKept <= mailNow
  <2>1. CASE o = batch
    BY <2>1, <1>3
  <2>2. CASE o # batch
    <3>1. /\ mailNow - at <= Staleness /\ (batch.lastKept = Never \/ ~(at - batch.lastKept < SampleInterval))
          /\ o = [batch EXCEPT !.samples = Bounded(@, at, MaxSamples), !.lastKept = at]
      BY <2>2, <1>4 DEF Offer
    <3>2. PICK t : t = Bounded(batch.samples, at, MaxSamples)
      OBVIOUS
    <3>3. PICK last \in Int : last = batch.lastKept /\ batch.samples \in Seq(Nat)
      BY <1>3 DEF BatchType, Never
    <3>4. last < at
      <4>1. PICK apart \in Nat : apart = SampleInterval /\ apart > 0
        BY MailBounds
      <4>2. last = -1 \/ at - last >= apart
        BY <4>1, <3>1, <3>3 DEF Never
      <4> QED BY <4>1, <4>2
    <3>5. PICK oldest \in Int : oldest = nextReport - MailInterval - Staleness
      BY <1>2, MailBounds
    <3>6. oldest <= at
      <4>1. PICK now \in Nat, due \in Nat, stale \in Nat, length \in Nat :
              now = mailNow /\ due = nextReport /\ stale = Staleness /\ length = MailInterval
        BY <1>2, MailBounds
      <4>2. now - at <= stale /\ due <= now + length /\ oldest = due - length - stale
        BY <4>1, <3>1, <3>5, <1>2
      <4> QED BY <4>2
    <3>7. t \in Seq(Nat) /\ Gathers(t, oldest, at)
      BY <3>2, <3>3, <3>4, <3>5, <3>6, <1>1, <1>3, SampleKept
    <3>8. o = [batch EXCEPT !.samples = t, !.lastKept = at]
      BY <3>1, <3>2
    <3>9. o.nextSeq = batch.nextSeq /\ o.alerts = batch.alerts /\ o.samples = t /\ o.lastKept = at
      BY <3>8, <1>3 DEF BatchType
    <3>10. o \in BatchType
      BY <3>7, <3>8, <1>1, <1>3 DEF BatchType
    <3> QED BY <3>5, <3>7, <3>9, <3>10, <1>1
  <2> QED BY <2>1, <2>2
<1>6. PICK b : b = Gathered
  OBVIOUS
<1>7. b = [o EXCEPT !.active = activeNow', !.alerts = Noted(@, activeNow')]
  BY <1>1, <1>4, <1>6 DEF Gathered, NoteAlerts
<1>8. PICK a : a = Noted(o.alerts, activeNow')
  OBVIOUS
<1>9. /\ NotedOnce(a)
      /\ Cardinality(Incidents) <= MaxAlerts => ToSet(batch.alerts) \cup activeNow' \subseteq ToSet(a)
  BY <1>3, <1>5, <1>8, NotedIs
<1>10. b = [o EXCEPT !.active = activeNow', !.alerts = a]
  BY <1>7, <1>8
<1>11. b.nextSeq = o.nextSeq /\ b.alerts = a /\ b.samples = o.samples /\ b.lastKept = o.lastKept
  BY <1>5, <1>10 DEF BatchType
<1>12. b \in BatchType
  <2>1. a \in Seq(Incidents)
    BY <1>9 DEF NotedOnce
  <2> QED BY <2>1, <1>5, <1>10 DEF BatchType
<1>13. BatchOK(b, nextReport, mailNow)
  BY <1>5, <1>9, <1>11, <1>12 DEF BatchOK
<1> QED BY <1>5, <1>6, <1>9, <1>11, <1>13

\* A tick keeps its batch, or closes it into a report that is sealed or skipped.
Keeps(b) ==
    /\ batch' = b /\ channel' = channel
    /\ fate' = [fate EXCEPT !.noted = @ \cup activeNow', !.pending = @ \cup activeNow']
Closes(b, reason, sealed) ==
    /\ b.samples # <<>> /\ batch' = Closed(b)
    /\ channel' = IF sealed THEN Append(channel, Report(b, reason)) ELSE channel
    /\ fate' = [fate EXCEPT !.noted = @ \cup activeNow', !.pending = {},
                            !.missed = @ \cup ((fate.pending \cup activeNow') \ ToSet(b.alerts)),
                            !.skipped = IF sealed THEN @ ELSE @ \cup {b.nextSeq}]

\* A batch that is closed was empty, or makes a report that is sealed or skipped.
LEMMA CloseCases ==
  ASSUME NEW b, NEW reason, CloseBatch(b, reason)
  PROVE  (b.samples = <<>> /\ Keeps(b)) \/ Closes(b, reason, TRUE) \/ Closes(b, reason, FALSE)
<1>1. CASE b.samples = <<>>
  BY <1>1 DEF CloseBatch, Keeps
<1>2. CASE b.samples # <<>>
  <2>1. PICK sealed \in BOOLEAN : Closes(b, reason, sealed)
    BY <1>2 DEF CloseBatch, Closes
  <2> QED BY <2>1
<1> QED BY <1>1, <1>2

\* A tick before the next scheduled report, and the tick of it.
ClosesBatch(b) == Closes(b, "scheduled", TRUE) \/ Closes(b, "scheduled", FALSE)
                  \/ Closes(b, "incident", TRUE) \/ Closes(b, "incident", FALSE)
GathersOn == nextReport' = nextReport /\ mailNow < nextReport /\ (Keeps(Gathered) \/ ClosesBatch(Gathered))
GathersDue == /\ nextReport' = mailNow + MailInterval
              /\ (Gathered.samples = <<>> /\ Keeps(Gathered)) \/ ClosesBatch(Gathered)

\* A tick of the gathering task comes before the scheduled report or is that of it.
LEMMA GatherCases ==
  ASSUME MailTypes, Gather
  PROVE  GathersOn \/ GathersDue
<1>1. PICK b : b = Gathered
  OBVIOUS
<1>2. mailNow \in Int /\ nextReport \in Int
  BY MailBounds DEF MailTypes
<1>3. CASE mailNow >= nextReport
  <2>1. nextReport' = mailNow + MailInterval /\ CloseBatch(b, "scheduled")
    BY <1>1, <1>3 DEF Gather
  <2>2. (b.samples = <<>> /\ Keeps(b)) \/ Closes(b, "scheduled", TRUE) \/ Closes(b, "scheduled", FALSE)
    BY <2>1, CloseCases
  <2> QED BY <2>1, <2>2, <1>1 DEF GathersDue, ClosesBatch
<1>4. CASE ~(mailNow >= nextReport)
  <2>1. nextReport' = nextReport /\ mailNow < nextReport
    BY <1>2, <1>4 DEF Gather
  <2>2. CloseBatch(b, "incident") \/ Keeps(b)
    BY <1>1, <1>4 DEF Gather, Keeps
  <2>3. Keeps(b) \/ Closes(b, "incident", TRUE) \/ Closes(b, "incident", FALSE)
    BY <2>2, CloseCases
  <2> QED BY <2>1, <2>3, <1>1 DEF GathersOn, ClosesBatch
<1> QED BY <1>3, <1>4

\* A batch that is closed has no samples and no alerts left.
LEMMA ClosedOK ==
  ASSUME NEW b, NEW next \in Nat, NEW due \in Int, NEW now \in Nat, BatchOK(b, due, now)
  PROVE  BatchOK(Closed(b), next, now) /\ Closed(b).nextSeq = b.nextSeq + 1 /\ Closed(b).samples = <<>>
         /\ Closed(b).alerts = <<>>
<1>1. b \in BatchType /\ b.lastKept <= now
  BY DEF BatchOK
<1>2. PICK c : c = Closed(b)
  OBVIOUS
<1>3. PICK n \in Nat \ {0} : n = b.nextSeq + 1
  BY <1>1 DEF BatchType
<1>4. c = [b EXCEPT !.nextSeq = n, !.samples = <<>>, !.alerts = <<>>]
  BY <1>2, <1>3 DEF Closed
<1>5. c.nextSeq = n /\ c.samples = <<>> /\ c.alerts = <<>> /\ c.lastKept = b.lastKept
  BY <1>1, <1>4 DEF BatchType
<1>6. c \in BatchType
  <2>1. PICK e : e = <<>>
    OBVIOUS
  <2>2. e \in Seq(Nat) /\ e \in Seq(Incidents)
    BY <2>1
  <2>3. c = [b EXCEPT !.nextSeq = n, !.samples = e, !.alerts = e]
    BY <1>4, <2>1
  <2> QED BY <2>2, <2>3, <1>1 DEF BatchType
<1>7. NotedOnce(<<>>)
  BY MailBounds DEF NotedOnce
<1>8. Gathers(<<>>, next - MailInterval - Staleness, b.lastKept)
  BY MailBounds DEF Gathers
<1>9. BatchOK(c, next, now)
  BY <1>1, <1>5, <1>6, <1>7, <1>8 DEF BatchOK
<1> QED BY <1>2, <1>3, <1>5, <1>9

\* A later tick knows no less of a batch.
LEMMA BatchLater ==
  ASSUME NEW b, NEW due \in Int, NEW now \in Nat, BatchOK(b, due, now)
  PROVE  BatchOK(b, due, now + 1)
<1>1. b.lastKept \in Int
  BY DEF BatchOK, BatchType, Never
<1> QED BY <1>1 DEF BatchOK

\* A batch without samples fits any schedule.
LEMMA BatchEmpty ==
  ASSUME NEW b, NEW due \in Int, NEW next \in Int, NEW now \in Nat, BatchOK(b, due, now), b.samples = <<>>
  PROVE  BatchOK(b, next, now)
<1>1. Gathers(<<>>, next - MailInterval - Staleness, b.lastKept)
  BY MailBounds DEF Gathers
<1> QED BY <1>1 DEF BatchOK

\* The gathering task's state after a tick.
LEMMA GatherStep ==
  ASSUME MailTypes, BatchInv, Gather
  PROVE  BatchInv' /\ nextReport' \in Nat /\ mailNow' = mailNow + 1 /\ mailNow' \in 0..MaxMailTime
<1>1. /\ mailNow \in Nat /\ nextReport \in Nat /\ mailNow <= nextReport /\ nextReport <= mailNow + MailInterval
  BY MailBounds DEF MailTypes, BatchInv
<1>2. /\ mailNow' = mailNow + 1 /\ mailNow < MaxMailTime
      /\ snapshotAt' \in snapshotAt..mailNow /\ activeNow' \in SUBSET Incidents
  BY DEF Gather
<1>3. PICK b : b = Gathered
  OBVIOUS
<1>4. BatchOK(b, nextReport, mailNow)
  BY <1>2, <1>3, GatherBatch
<1>5. PICK due \in Nat : due = nextReport'
  BY <1>1, GatherCases, MailBounds DEF GathersOn, GathersDue
<1>6. mailNow + 1 <= due /\ due <= mailNow + 1 + MailInterval
  BY <1>1, <1>5, GatherCases, MailBounds DEF GathersOn, GathersDue
<1>7. BatchOK(batch', due, mailNow)
  <2>1. CASE Keeps(b) /\ (b.samples = <<>> \/ due = nextReport)
    BY <2>1, <1>1, <1>4, BatchEmpty DEF Keeps
  <2>2. CASE ClosesBatch(b)
    <3>1. batch' = Closed(b)
      BY <2>2 DEF ClosesBatch, Closes
    <3> QED BY <3>1, <1>1, <1>4, ClosedOK
  <2> QED BY <2>1, <2>2, <1>3, <1>5, GatherCases DEF GathersOn, GathersDue
<1>8. BatchOK(batch', due, mailNow + 1)
  BY <1>1, <1>7, BatchLater
<1> QED BY <1>1, <1>2, <1>5, <1>6, <1>8, MailBounds DEF BatchInv

\* No incident of a tick is forgotten, as long as a report has room for all.
LEMMA GatherIncidents ==
  ASSUME MailTypes, BatchInv, NoIncidentForgotten, Gather
  PROVE  NoIncidentForgotten'
<1> SUFFICES ASSUME Cardinality(Incidents) <= MaxAlerts
             PROVE  fate'.missed = {} /\ fate'.pending \subseteq ToSet(batch'.alerts)
  BY DEF NoIncidentForgotten
<1>1. fate.missed = {} /\ fate.pending \subseteq ToSet(batch.alerts) /\ fate \in FateType
  BY DEF NoIncidentForgotten, MailTypes
<1>2. snapshotAt' \in snapshotAt..mailNow /\ activeNow' \in SUBSET Incidents
  BY DEF Gather
<1>3. PICK b : b = Gathered
  OBVIOUS
<1>4. ToSet(batch.alerts) \cup activeNow' \subseteq ToSet(b.alerts)
  BY <1>2, <1>3, GatherBatch
<1>5. CASE Keeps(b)
  <2>1. fate'.missed = fate.missed /\ fate'.pending = fate.pending \cup activeNow'
    BY <1>1, <1>5 DEF Keeps, FateType
  <2> QED BY <2>1, <1>1, <1>4, <1>5 DEF Keeps
<1>6. CASE ClosesBatch(b)
  <2>1. PICK sealed \in BOOLEAN, reason \in {"scheduled", "incident"} : Closes(b, reason, sealed)
    BY <1>6 DEF ClosesBatch
  <2>2. /\ fate'.missed = fate.missed \cup ((fate.pending \cup activeNow') \ ToSet(b.alerts))
        /\ fate'.pending = {}
    BY <2>1, <1>1 DEF Closes, FateType
  <2> QED BY <2>2, <1>1, <1>4
<1> QED BY <1>3, <1>5, <1>6, GatherCases DEF GathersOn, GathersDue

\* The types of the delivery task's state.
LEMMA DeliveryTypes ==
  ASSUME MailTypes
  PROVE  /\ channel \in Seq(ReportType) /\ outbox \in OutboxType /\ outbox.queue \in Seq(ReportType)
         /\ Waiting \in Seq(ReportType) /\ relay \in Seq(Nat) /\ fate \in FateType
         /\ outbox.dropped \in Nat /\ fate.logged \in Nat /\ batch.nextSeq \in Nat \ {0}
         /\ \A i \in DOMAIN Waiting : Waiting[i].seq \in Nat /\ i \in Nat /\ i >= 1
         /\ DOMAIN Waiting = 1..Len(Waiting)
<1>1. channel \in Seq(ReportType) /\ outbox \in OutboxType /\ relay \in Seq(Nat) /\ fate \in FateType
  BY DEF MailTypes
<1>2. outbox.queue \in Seq(ReportType) /\ outbox.dropped \in Nat /\ fate.logged \in Nat
  BY <1>1 DEF OutboxType, FateType
<1>3. Waiting \in Seq(ReportType)
  BY <1>1, <1>2, ConcatProperties DEF Waiting
<1>4. DOMAIN Waiting = 1..Len(Waiting) /\ Len(Waiting) \in Nat
  BY <1>3, LenProperties
<1>5. \A i \in DOMAIN Waiting : Waiting[i] \in ReportType
  BY <1>3, <1>4, ElementOfSeq
<1>6. \A i \in DOMAIN Waiting : Waiting[i].seq \in Nat
  BY <1>5 DEF ReportType
<1>7. batch.nextSeq \in Nat \ {0}
  BY DEF MailTypes, BatchType
<1> QED BY <1>1, <1>2, <1>3, <1>4, <1>6, <1>7

\* A report lost is one more: it had not been lost before.
LEMMA LostCounted ==
  ASSUME NEW S, NEW W, NEW V, Shifted(S, W, V), NEW R, NEW lost, NEW skipped, NEW next \in Nat \ {0},
         Accounted(W, R, lost, skipped, next), IsFiniteSet(lost)
  PROVE  IsFiniteSet(lost \cup {W[1].seq}) /\ Cardinality(lost \cup {W[1].seq}) = Cardinality(lost) + 1
<1>1. 1 \in DOMAIN W
  BY LenProperties DEF Shifted
<1>2. W[1].seq \notin lost
  <2>1. W[1].seq \in 1..(next - 1) /\ \A n \in lost : n < W[1].seq
    BY <1>1 DEF Accounted, InOrder
  <2> QED BY <2>1
<1> QED BY <1>2, FS_AddElement

\* Where the reports are after a tick of the gathering task.
LEMMA GatherAccounts ==
  ASSUME MailTypes, BatchInv, AccountInv, CountInv, FitInv, Gather
  PROVE  AccountInv' /\ CountInv' /\ FitInv' /\ channel' \in Seq(ReportType)
<1>1. PICK b : b = Gathered
  OBVIOUS
<1>2. snapshotAt' \in snapshotAt..mailNow /\ activeNow' \in SUBSET Incidents /\ outbox' = outbox /\ relay' = relay
  BY DEF Gather, delivery
<1>3. BatchOK(b, nextReport, mailNow) /\ b.nextSeq = batch.nextSeq
  BY <1>1, <1>2, GatherBatch
<1>4. fate \in FateType /\ batch.nextSeq \in Nat \ {0} /\ channel \in Seq(ReportType) /\ Waiting \in Seq(ReportType)
      /\ outbox.queue \in Seq(ReportType)
  BY DeliveryTypes
<1>5. CASE Keeps(b)
  <2>1. fate'.lost = fate.lost /\ fate'.skipped = fate.skipped /\ fate'.logged = fate.logged
    BY <1>4, <1>5 DEF Keeps, FateType
  <2>2. batch'.nextSeq = batch.nextSeq /\ channel' = channel /\ Waiting' = Waiting
    BY <1>2, <1>3, <1>5 DEF Keeps, Waiting
  <2> QED BY <2>1, <2>2, <1>2, <1>4 DEF AccountInv, CountInv, FitInv
<1>6. ASSUME NEW reason \in {"scheduled", "incident"}, NEW sealed \in BOOLEAN, Closes(b, reason, sealed)
      PROVE  AccountInv' /\ CountInv' /\ FitInv' /\ channel' \in Seq(ReportType)
  <2>1. /\ fate'.lost = fate.lost /\ fate'.logged = fate.logged
        /\ fate'.skipped = IF sealed THEN fate.skipped ELSE fate.skipped \cup {batch.nextSeq}
    BY <1>3, <1>4, <1>6 DEF Closes, FateType
  <2>2. mailNow \in Nat /\ nextReport \in Nat /\ mailNow <= nextReport
    BY MailBounds DEF MailTypes, BatchInv
  <2>3. batch'.nextSeq = batch.nextSeq + 1
    <3>1. batch' = Closed(b)
      BY <1>6 DEF Closes
    <3> QED BY <3>1, <2>2, <1>3, ClosedOK
  <2>4. CountInv'
    BY <2>1, <1>2 DEF CountInv
  <2>5. CASE ~sealed
    <3>1. channel' = channel /\ Waiting' = Waiting
      BY <2>5, <1>2, <1>6 DEF Closes, Waiting
    <3>2. Accounted(Waiting, relay, fate.lost, fate.skipped \cup {batch.nextSeq}, batch.nextSeq + 1)
      BY SkipAccounted, DeliveryTypes DEF AccountInv
    <3>3. AccountInv'
      BY <3>1, <3>2, <2>1, <2>3, <2>5, <1>2 DEF AccountInv
    <3> QED BY <3>1, <3>3, <2>4, <1>4 DEF FitInv
  <2>6. CASE sealed
    <3>1. PICK r : r = Report(b, reason)
      OBVIOUS
    <3>2. /\ r.seq = batch.nextSeq /\ r.createdAt = mailNow /\ r.samples = b.samples
          /\ r = [seq |-> batch.nextSeq, createdAt |-> mailNow, reason |-> reason, samples |-> b.samples, alerts |-> b.alerts]
      BY <3>1, <1>3 DEF Report
    <3>3. b.samples \in Seq(Nat) /\ b.alerts \in Seq(Incidents) /\ b.lastKept \in Int
          /\ Gathers(b.samples, nextReport - MailInterval - Staleness, b.lastKept) /\ b.lastKept <= mailNow
      BY <1>3 DEF BatchOK, BatchType, Never
    <3>4. r \in ReportType
      BY <3>2, <3>3, <2>2, <1>4 DEF ReportType
    <3>5. Fits(r)
      <4>1. PICK o \in Int, p \in Int : o = nextReport - MailInterval - Staleness /\ p = mailNow - MailInterval - Staleness
        BY <2>2, MailBounds
      <4>2. p <= o
        BY <4>1, <2>2, MailBounds
      <4>3. Gathers(b.samples, p, mailNow)
        BY <4>1, <4>2, <3>3, <2>2, GathersWiden
      <4> QED BY <4>1, <4>3, <3>2, <1>6 DEF Fits, Closes
    <3>6. channel' = Append(channel, r)
      BY <3>1, <2>6, <1>6 DEF Closes
    <3>7. Waiting' = Append(Waiting, r)
      <4>1. Waiting' = outbox.queue \o Append(channel, r)
        BY <3>6, <1>2 DEF Waiting
      <4>2. outbox.queue \o Append(channel, r) = Append(outbox.queue \o channel, r)
        <5>1. PICK q \in Seq(ReportType), c \in Seq(ReportType) : q = outbox.queue /\ c = channel
          BY <1>4
        <5>2. q \o Append(c, r) = Append(q \o c, r)
          BY <3>4, AddedLast
        <5> QED BY <5>1, <5>2
      <4> QED BY <4>1, <4>2 DEF Waiting
    <3>8. channel' \in Seq(ReportType)
      BY <3>4, <3>6, <1>4, AppendProperties
    <3>9. AccountInv'
      <4>1. Accounted(Append(Waiting, r), relay, fate.lost, fate.skipped, batch.nextSeq + 1)
        BY <3>2, <3>4, <1>4, AddAccounted DEF AccountInv
      <4> QED BY <4>1, <3>7, <2>1, <2>3, <2>6, <1>2 DEF AccountInv
    <3>10. FitInv'
      <4>1. PICK V : V = Waiting'
        OBVIOUS
      <4>2. PICK m \in Nat : m = Len(Waiting)
        BY <1>4, LenProperties
      <4>3. /\ V \in Seq(ReportType) /\ Len(V) = m + 1
            /\ \A i \in 1..m : V[i] = Waiting[i]
            /\ V[m + 1] = r
        BY <4>1, <4>2, <3>4, <3>7, <1>4, AppendProperties
      <4>4. DOMAIN V = 1..(m + 1) /\ DOMAIN Waiting = 1..m
        BY <4>2, <4>3, <1>4, LenProperties
      <4>5. \A i \in 1..(m + 1) : i \in 1..m \/ i = m + 1
        OBVIOUS
      <4>6. \A i \in DOMAIN V : Fits(V[i])
        BY <4>3, <4>4, <4>5, <3>5 DEF FitInv
      <4> QED BY <4>1, <4>6 DEF FitInv
    <3> QED BY <3>8, <3>9, <3>10, <2>4
  <2> QED BY <2>5, <2>6
<1> QED BY <1>1, <1>5, <1>6, GatherCases DEF GathersOn, GathersDue, ClosesBatch

\* What the front of the outbox leaves behind.
LEMMA FitsAfter ==
  ASSUME NEW W, NEW V, Shifted(ReportType, W, V), \A i \in DOMAIN W : Fits(W[i])
  PROVE  \A i \in DOMAIN V : Fits(V[i])
<1>1. PICK m \in Nat : m = Len(V)
  BY LenProperties DEF Shifted
<1>2. W \in Seq(ReportType) /\ V \in Seq(ReportType) /\ Len(W) = m + 1 /\ \A i \in 1..m : V[i] = W[i + 1]
  BY <1>1, LenProperties DEF Shifted
<1>3. DOMAIN W = 1..(m + 1) /\ DOMAIN V = 1..m
  BY <1>1, <1>2, LenProperties
<1>4. \A i \in 1..m : i + 1 \in 1..(m + 1)
  OBVIOUS
<1> QED BY <1>2, <1>3, <1>4

\* A received report is still waiting, or it pushed the oldest one out, which is counted.
LEMMA ReceiveAccounts ==
  ASSUME MailTypes, AccountInv, CountInv, FitInv, Receive
  PROVE  AccountInv' /\ CountInv' /\ FitInv'
<1>1. PICK q, c : q = outbox.queue /\ c = channel
  OBVIOUS
<1>2. /\ q \in Seq(ReportType) /\ c \in Seq(ReportType) /\ c # <<>> /\ outbox \in OutboxType /\ fate \in FateType
      /\ Waiting = q \o c /\ outbox.dropped \in Nat /\ fate.logged \in Nat /\ batch.nextSeq \in Nat \ {0}
  BY <1>1, DeliveryTypes DEF Receive, Waiting
<1>3. /\ outbox' = OutboxPush(outbox, Head(c)) /\ channel' = Tail(c) /\ relay' = relay /\ batch' = batch
      /\ fate' = [fate EXCEPT !.lost = @ \cup Dropped, !.readyAt = IF HasFront THEN @ ELSE Larger(@, mailNow)]
  BY <1>1 DEF Receive, client
<1>4. fate'.lost = fate.lost \cup Dropped /\ fate'.skipped = fate.skipped /\ fate'.logged = fate.logged
  BY <1>2, <1>3 DEF FateType
<1>5. CASE Len(q) # MaxQueued
  <2>1. outbox' = [outbox EXCEPT !.queue = Append(q, Head(c))]
    BY <1>1, <1>3, <1>5 DEF OutboxPush
  <2>2. outbox'.queue = Append(q, Head(c)) /\ outbox'.dropped = outbox.dropped
    BY <2>1, <1>2 DEF OutboxType
  <2>3. Waiting' = Waiting
    BY <2>2, <1>2, <1>3, MovedOver DEF Waiting
  <2>4. Dropped = {}
    BY <2>2, <1>2 DEF Dropped
  <2> QED BY <2>2, <2>3, <2>4, <1>3, <1>4 DEF AccountInv, CountInv, FitInv
<1>6. CASE Len(q) = MaxQueued
  <2>1. outbox' = [outbox EXCEPT !.queue = Append(Tail(q), Head(c)), !.dropped = @ + 1]
    BY <1>1, <1>3, <1>6 DEF OutboxPush
  <2>2. outbox'.queue = Append(Tail(q), Head(c)) /\ outbox'.dropped = outbox.dropped + 1
    BY <2>1, <1>2 DEF OutboxType
  <2>3. q # <<>>
    <3>1. Len(<<>>) = 0 /\ MaxQueued # 0
      BY MailBounds
    <3> QED BY <3>1, <1>6
  <2>4. Shifted(ReportType, Waiting, Tail(q) \o c) /\ Head(q) = Waiting[1] /\ Tail(q) \in Seq(ReportType)
    BY <2>3, <1>2, FrontLeaves
  <2>5. Waiting' = Tail(q) \o c
    BY <2>2, <2>4, <1>2, <1>3, MovedOver DEF Waiting
  <2>6. Dropped = {Waiting[1].seq}
    BY <2>2, <2>4, <1>1, <1>2 DEF Dropped
  <2>7. Shifted(ReportType, Waiting, Waiting')
    BY <2>4, <2>5
  <2>8. AccountInv'
    <3>1. Accounted(Waiting', relay, fate.lost \cup {Waiting[1].seq}, fate.skipped, batch.nextSeq)
      BY <2>7, <1>2, LoseAccounted DEF AccountInv
    <3> QED BY <3>1, <2>6, <1>3, <1>4 DEF AccountInv
  <2>9. CountInv'
    <3>1. /\ IsFiniteSet(fate.lost \cup {Waiting[1].seq})
          /\ Cardinality(fate.lost \cup {Waiting[1].seq}) = Cardinality(fate.lost) + 1
      BY <2>7, <1>2, LostCounted DEF AccountInv, CountInv
    <3>2. fate'.lost = fate.lost \cup {Waiting[1].seq} /\ outbox'.dropped = outbox.dropped + 1 /\ fate'.logged = fate.logged
      BY <2>2, <2>6, <1>4
    <3>3. Cardinality(fate.lost) = outbox.dropped + fate.logged
      BY DEF CountInv
    <3>4. Cardinality(fate'.lost) = outbox.dropped + fate.logged + 1
      BY <3>1, <3>2, <3>3
    <3>5. outbox'.dropped + fate'.logged = outbox.dropped + fate.logged + 1
      BY <3>2, <1>2
    <3>6. IsFiniteSet(fate'.lost)
      BY <3>1, <3>2
    <3> QED BY <3>4, <3>5, <3>6 DEF CountInv
  <2>10. FitInv'
    <3>1. \A i \in DOMAIN Waiting' : Fits(Waiting'[i])
      BY <2>7, FitsAfter DEF FitInv
    <3> QED BY <3>1 DEF FitInv
  <2> QED BY <2>8, <2>9, <2>10
<1> QED BY <1>5, <1>6

\* What a send came to: the relay took the front or not, and the front stays, leaves, or is lost.
LEMMA SendAccounts ==
  ASSUME MailTypes, AccountInv, CountInv, FitInv, SendEnd
  PROVE  AccountInv' /\ CountInv' /\ FitInv' /\ relay' \in Seq(Nat)
<1>1. PICK q, c : q = outbox.queue /\ c = channel
  OBVIOUS
<1>2. /\ q \in Seq(ReportType) /\ c \in Seq(ReportType) /\ q # <<>> /\ outbox \in OutboxType /\ fate \in FateType
      /\ Waiting = q \o c /\ outbox.dropped \in Nat /\ fate.logged \in Nat /\ batch.nextSeq \in Nat \ {0}
      /\ relay \in Seq(Nat)
  BY <1>1, DeliveryTypes DEF SendEnd, Waiting, MailTypes, HasFront
<1>3. PICK result \in {"sent", "temporary", "permanent"}, took \in BOOLEAN :
          /\ result = "sent" => took
          /\ result = "permanent" => ~took
          /\ relay' = IF took THEN Append(relay, Head(q).seq) ELSE relay
          /\ outbox' = OutboxAfter(outbox, result)
          /\ fate' = [fate EXCEPT !.lost = @ \cup Dropped, !.readyAt = wakeAt']
  BY <1>1 DEF SendEnd
<1>4. channel' = c /\ batch' = batch
  BY <1>1 DEF SendEnd, client
<1>5. fate'.lost = fate.lost \cup Dropped /\ fate'.skipped = fate.skipped /\ fate'.logged = fate.logged
  BY <1>2, <1>3 DEF FateType
<1>6. Shifted(ReportType, Waiting, Tail(q) \o c) /\ Head(q) = Waiting[1]
  BY <1>2, FrontLeaves
<1>7. 1 \in DOMAIN Waiting /\ Waiting[1].seq \in Nat
  <2>1. 1 \in DOMAIN Waiting
    BY <1>6, LenProperties DEF Shifted
  <2> QED BY <2>1, DeliveryTypes
<1>8. relay' \in Seq(Nat)
  BY <1>2, <1>3, <1>6, <1>7, AppendProperties
<1>9. Accounted(Waiting, relay', fate.lost, fate.skipped, batch.nextSeq)
  <2>1. CASE took
    <3>1. relay' = Append(relay, Waiting[1].seq)
      BY <2>1, <1>3, <1>6
    <3>2. Accounted(Waiting, Append(relay, Waiting[1].seq), fate.lost, fate.skipped, batch.nextSeq)
      BY <1>2, <1>7, DeliveryTypes, RelayAccounted DEF AccountInv
    <3> QED BY <3>1, <3>2
  <2>2. CASE ~took
    BY <2>2, <1>3 DEF AccountInv
  <2> QED BY <2>1, <2>2
<1>10. CASE result = "temporary"
  <2>1. outbox' = [outbox EXCEPT !.backoff = NextBackoff(outbox)]
    BY <1>3, <1>10 DEF OutboxAfter
  <2>2. outbox'.queue = q /\ outbox'.dropped = outbox.dropped
    BY <2>1, <1>1, <1>2 DEF OutboxType
  <2>3. Waiting' = Waiting /\ Dropped = {}
    BY <2>2, <1>2, <1>4 DEF Waiting, Dropped
  <2> QED BY <2>2, <2>3, <1>4, <1>5, <1>8, <1>9 DEF AccountInv, CountInv, FitInv
<1>11. CASE result = "sent"
  <2>1. outbox' = [outbox EXCEPT !.queue = Tail(q), !.backoff = 0]
    BY <1>1, <1>3, <1>11 DEF OutboxAfter
  <2>2. outbox'.queue = Tail(q) /\ outbox'.dropped = outbox.dropped
    BY <2>1, <1>1, <1>2 DEF OutboxType
  <2>3. Waiting' = Tail(q) \o c /\ Dropped = {}
    BY <2>2, <1>2, <1>4 DEF Waiting, Dropped
  <2>4. Shifted(ReportType, Waiting, Waiting')
    BY <2>3, <1>6
  <2>5. relay' = Append(relay, Waiting[1].seq)
    BY <1>3, <1>6, <1>11
  <2>6. PICK k \in DOMAIN relay' : relay'[k] = Waiting[1].seq
    <3>1. PICK n \in Nat : n = Len(relay)
      BY <1>2, LenProperties
    <3>2. Len(relay') = n + 1 /\ relay'[n + 1] = Waiting[1].seq
      BY <3>1, <2>5, <1>2, <1>7, AppendProperties
    <3>3. DOMAIN relay' = 1..(n + 1)
      BY <3>2, <1>8, LenProperties
    <3> QED BY <3>2, <3>3
  <2>7. Accounted(Waiting', relay', fate.lost, fate.skipped, batch.nextSeq)
    BY <2>4, <2>6, <1>2, <1>9, TakenAccounted
  <2>8. AccountInv' /\ CountInv'
    BY <2>2, <2>3, <2>7, <1>4, <1>5 DEF AccountInv, CountInv
  <2>9. FitInv'
    <3>1. \A i \in DOMAIN Waiting' : Fits(Waiting'[i])
      BY <2>4, FitsAfter DEF FitInv
    <3> QED BY <3>1 DEF FitInv
  <2> QED BY <2>8, <2>9, <1>8
<1>12. CASE result = "permanent"
  <2>1. outbox' = [outbox EXCEPT !.queue = Tail(q), !.backoff = 0, !.dropped = @ + 1]
    BY <1>1, <1>3, <1>12 DEF OutboxAfter
  <2>2. outbox'.queue = Tail(q) /\ outbox'.dropped = outbox.dropped + 1
    BY <2>1, <1>1, <1>2 DEF OutboxType
  <2>3. Waiting' = Tail(q) \o c
    BY <2>2, <1>4 DEF Waiting
  <2>4. Dropped = {Waiting[1].seq}
    BY <2>2, <1>1, <1>2, <1>6 DEF Dropped
  <2>5. Shifted(ReportType, Waiting, Waiting')
    BY <2>3, <1>6
  <2>6. AccountInv'
    <3>1. Accounted(Waiting', relay', fate.lost \cup {Waiting[1].seq}, fate.skipped, batch.nextSeq)
      BY <2>5, <1>2, <1>9, LoseAccounted
    <3> QED BY <3>1, <2>4, <1>4, <1>5 DEF AccountInv
  <2>7. CountInv'
    <3>1. /\ IsFiniteSet(fate.lost \cup {Waiting[1].seq})
          /\ Cardinality(fate.lost \cup {Waiting[1].seq}) = Cardinality(fate.lost) + 1
      BY <2>5, <1>2, LostCounted DEF AccountInv, CountInv
    <3>2. fate'.lost = fate.lost \cup {Waiting[1].seq} /\ outbox'.dropped = outbox.dropped + 1 /\ fate'.logged = fate.logged
      BY <2>2, <2>4, <1>5
    <3>3. Cardinality(fate.lost) = outbox.dropped + fate.logged
      BY DEF CountInv
    <3>4. Cardinality(fate'.lost) = outbox.dropped + fate.logged + 1
      BY <3>1, <3>2, <3>3
    <3>5. outbox'.dropped + fate'.logged = outbox.dropped + fate.logged + 1
      BY <3>2, <1>2
    <3>6. IsFiniteSet(fate'.lost)
      BY <3>1, <3>2
    <3> QED BY <3>4, <3>5, <3>6 DEF CountInv
  <2>8. FitInv'
    <3>1. \A i \in DOMAIN Waiting' : Fits(Waiting'[i])
      BY <2>5, FitsAfter DEF FitInv
    <3> QED BY <3>1 DEF FitInv
  <2> QED BY <2>6, <2>7, <2>8, <1>8
<1> QED BY <1>10, <1>11, <1>12

\* The backoff doubles up to the mail interval.
LEMMA BackoffIs ==
  ASSUME NEW o, o.backoff \in 0..MailInterval
  PROVE  NextBackoff(o) \in 0..MailInterval
  BY MailBounds DEF NextBackoff, Smaller

\* The types of the outbox after each result of a send.
LEMMA AfterTyped ==
  ASSUME NEW o \in OutboxType, o.queue # <<>>, NEW result, Len(o.queue) <= MaxQueued
  PROVE  OutboxAfter(o, result) \in OutboxType /\ Len(OutboxAfter(o, result).queue) <= MaxQueued
<1>1. o.queue \in Seq(ReportType) /\ o.backoff \in 0..MailInterval /\ o.dropped \in Nat
  BY DEF OutboxType
<1>2. PICK t : t = Tail(o.queue)
  OBVIOUS
<1>3. t \in Seq(ReportType) /\ Len(t) <= MaxQueued
  <2>1. t \in Seq(ReportType) /\ Len(t) = Len(o.queue) - 1
    BY <1>1, <1>2, HeadTailProperties
  <2>2. Len(o.queue) \in Nat
    BY <1>1, LenProperties
  <2> QED BY <2>1, <2>2, MailBounds
<1>4. NextBackoff(o) \in 0..MailInterval /\ 0 \in 0..MailInterval
  BY <1>1, BackoffIs, MailBounds
<1>5. PICK d \in Nat : d = o.dropped + 1
  BY <1>1
<1>6. PICK a : a = OutboxAfter(o, result)
  OBVIOUS
<1>7. CASE result = "sent"
  <2>1. a = [o EXCEPT !.queue = t, !.backoff = 0]
    BY <1>2, <1>6, <1>7 DEF OutboxAfter
  <2>2. a \in OutboxType
    BY <2>1, <1>3, <1>4 DEF OutboxType
  <2>3. a.queue = t
    BY <2>1 DEF OutboxType
  <2> QED BY <2>2, <2>3, <1>3, <1>6
<1>8. CASE result = "permanent"
  <2>1. a = [o EXCEPT !.queue = t, !.backoff = 0, !.dropped = d]
    BY <1>2, <1>5, <1>6, <1>8 DEF OutboxAfter
  <2>2. a \in OutboxType
    BY <2>1, <1>3, <1>4 DEF OutboxType
  <2>3. a.queue = t
    BY <2>1 DEF OutboxType
  <2> QED BY <2>2, <2>3, <1>3, <1>6
<1>9. CASE result # "sent" /\ result # "permanent"
  <2>1. a = [o EXCEPT !.backoff = NextBackoff(o)]
    BY <1>6, <1>9 DEF OutboxAfter
  <2>2. a \in OutboxType
    BY <2>1, <1>4 DEF OutboxType
  <2>3. a.queue = o.queue
    BY <2>1 DEF OutboxType
  <2> QED BY <2>2, <2>3, <1>6
<1> QED BY <1>7, <1>8, <1>9

\* The types of the outbox after a report is received.
LEMMA PushTyped ==
  ASSUME NEW o \in OutboxType, NEW r \in ReportType, Len(o.queue) <= MaxQueued
  PROVE  OutboxPush(o, r) \in OutboxType /\ Len(OutboxPush(o, r).queue) <= MaxQueued
<1>1. o.queue \in Seq(ReportType) /\ o.dropped \in Nat
  BY DEF OutboxType
<1>2. PICK t : t = IF Len(o.queue) = MaxQueued THEN Append(Tail(o.queue), r) ELSE Append(o.queue, r)
  OBVIOUS
<1>3. Grown(ReportType, t, o.queue, r, MaxQueued)
  BY <1>1, <1>2, BoundedIs, MailBounds
<1>4. t \in Seq(ReportType) /\ Len(t) <= MaxQueued
  <2>1. PICK n \in Nat : n = Len(o.queue)
    BY <1>1, LenProperties
  <2>2. t \in Seq(ReportType) /\ Len(t) = IF n < MaxQueued THEN n + 1 ELSE MaxQueued
    BY <1>3, <2>1 DEF Grown
  <2> QED BY <2>1, <2>2, MailBounds
<1>5. PICK d \in Nat : d = o.dropped + 1
  BY <1>1
<1>6. PICK a : a = OutboxPush(o, r)
  OBVIOUS
<1>7. a = [o EXCEPT !.queue = t, !.dropped = d] \/ a = [o EXCEPT !.queue = t]
  BY <1>2, <1>5, <1>6 DEF OutboxPush
<1>8. a.queue = t
  BY <1>7 DEF OutboxType
<1>9. a \in OutboxType
  BY <1>4, <1>7 DEF OutboxType
<1> QED BY <1>4, <1>6, <1>8, <1>9

\* What a step writes on the reports' fate keeps its type.
LEMMA FateTyped ==
  ASSUME MailTypes, NEW f \in FateType, NEW noted, NEW pending, NEW missed, NEW skipped, NEW lost, NEW ready,
         noted \subseteq Incidents, pending \subseteq Incidents, missed \subseteq Incidents,
         skipped \subseteq Nat, lost \subseteq Nat, ready \in Nat
  PROVE  /\ [f EXCEPT !.noted = noted, !.pending = pending] \in FateType
         /\ [f EXCEPT !.noted = noted, !.pending = pending, !.missed = missed, !.skipped = skipped] \in FateType
         /\ [f EXCEPT !.lost = lost, !.readyAt = ready] \in FateType
  BY DEF FateType

\* Every step keeps the types.
LEMMA MailTypesStep ==
  ASSUME MailTypes, BatchInv, AccountInv, CountInv, FitInv, MailClientNext
  PROVE  MailTypes'
<1>1. /\ mailNow \in Nat /\ mailNow \in 0..MaxMailTime /\ snapshotAt \in 0..mailNow /\ activeNow \subseteq Incidents
      /\ batch \in BatchType /\ nextReport \in Nat
      /\ channel \in Seq(ReportType) /\ outbox \in OutboxType /\ Len(outbox.queue) <= MaxQueued
      /\ wait \in 0..MailInterval /\ relay \in Seq(Nat) /\ fate \in FateType
      /\ (sending # Never => outbox.queue # <<>>)
  BY MailBounds DEF MailTypes, HasFront
<1>2. /\ fate.noted \subseteq Incidents /\ fate.pending \subseteq Incidents /\ fate.missed \subseteq Incidents
      /\ fate.skipped \subseteq Nat /\ fate.lost \subseteq Nat /\ fate.readyAt \in Nat /\ fate.logged \in Nat
  BY <1>1 DEF FateType
<1>3. CASE Gather
  <2>1. /\ mailNow' \in 0..MaxMailTime /\ mailNow' = mailNow + 1 /\ BatchInv' /\ nextReport' \in Nat
    BY <1>3, GatherStep
  <2>2. batch' \in BatchType
    BY <2>1 DEF BatchInv, BatchOK
  <2>3. channel' \in Seq(ReportType)
    BY <1>3, GatherAccounts
  <2>4. snapshotAt' \in snapshotAt..mailNow /\ activeNow' \subseteq Incidents /\ UNCHANGED delivery
    BY <1>3 DEF Gather
  <2>5. snapshotAt' \in 0..mailNow'
    BY <2>1, <2>4, <1>1
  <2>6. PICK b : b = Gathered
    OBVIOUS
  <2>7. fate' \in FateType
    <3>1. CASE Keeps(b)
      <4>1. PICK n, p : n = fate.noted \cup activeNow' /\ p = fate.pending \cup activeNow'
        OBVIOUS
      <4>2. fate' = [fate EXCEPT !.noted = n, !.pending = p]
        BY <3>1, <4>1 DEF Keeps
      <4>3. n \subseteq Incidents /\ p \subseteq Incidents
        BY <4>1, <2>4, <1>2
      <4> QED BY <4>2, <4>3, <1>1, <1>2, FateTyped
    <3>2. ASSUME NEW reason, NEW sealed \in BOOLEAN, Closes(b, reason, sealed) PROVE fate' \in FateType
      <4>1. PICK n, m, s : /\ n = fate.noted \cup activeNow'
                           /\ m = fate.missed \cup ((fate.pending \cup activeNow') \ ToSet(b.alerts))
                           /\ s = IF sealed THEN fate.skipped ELSE fate.skipped \cup {b.nextSeq}
        OBVIOUS
      <4>2. fate' = [fate EXCEPT !.noted = n, !.pending = {}, !.missed = m, !.skipped = s]
        BY <3>2, <4>1 DEF Closes
      <4>3. n \subseteq Incidents /\ m \subseteq Incidents
        BY <4>1, <2>4, <1>2
      <4>4. s \subseteq Nat
        <5>1. b.nextSeq \in Nat
          BY <2>4, <2>6, <1>1, GatherBatch DEF BatchType
        <5> QED BY <5>1, <4>1, <1>2
      <4> QED BY <4>2, <4>3, <4>4, <1>1, <1>2, FateTyped
    <3> QED BY <3>1, <3>2, <2>6, <1>3, GatherCases DEF GathersOn, GathersDue, ClosesBatch
  <2>8. outbox' = outbox /\ wait' = wait /\ sending' = sending /\ relay' = relay
    BY <2>4 DEF delivery
  <2> QED BY <2>1, <2>2, <2>3, <2>4, <2>5, <2>7, <2>8, <1>1, Zenon DEF MailTypes, HasFront
<1>4. CASE Receive
  <2>1. /\ channel # <<>> /\ outbox' = OutboxPush(outbox, Head(channel)) /\ channel' = Tail(channel) /\ sending = Never
        /\ fate' = [fate EXCEPT !.lost = @ \cup Dropped, !.readyAt = IF HasFront THEN @ ELSE Larger(@, mailNow)]
        /\ mailNow' = mailNow /\ wait' = wait /\ sending' = sending /\ relay' = relay
    BY <1>4 DEF Receive
  <2>2. snapshotAt' = snapshotAt /\ activeNow' = activeNow /\ batch' = batch /\ nextReport' = nextReport
    BY <1>4 DEF Receive, client
  <2>3. Head(channel) \in ReportType /\ Tail(channel) \in Seq(ReportType)
    BY <2>1, <1>1, HeadTailProperties
  <2>4. outbox' \in OutboxType /\ Len(outbox'.queue) <= MaxQueued
    BY <2>1, <2>3, <1>1, PushTyped
  <2>5. fate' \in FateType
    <3>1. PICK l, y : l = fate.lost \cup Dropped /\ y = IF HasFront THEN fate.readyAt ELSE Larger(fate.readyAt, mailNow)
      OBVIOUS
    <3>2. fate' = [fate EXCEPT !.lost = l, !.readyAt = y]
      BY <2>1, <3>1
    <3>3. y \in Nat
      BY <3>1, <1>1, <1>2 DEF Larger
    <3>4. l \subseteq Nat
      <4>1. AccountInv'
        BY <1>4, ReceiveAccounts
      <4>2. fate'.lost = l
        BY <3>2, <1>1 DEF FateType
      <4> QED BY <4>1, <4>2 DEF AccountInv, Accounted, InOrder
    <3> QED BY <3>2, <3>3, <3>4, <1>1, <1>2, FateTyped
  <2> QED BY <2>1, <2>2, <2>3, <2>4, <2>5, <1>1, Zenon DEF MailTypes, HasFront
<1>5. CASE SendBegin
  <2>1. /\ mailNow' = mailNow /\ channel' = channel /\ outbox' = outbox /\ wait' = wait /\ relay' = relay /\ fate' = fate
        /\ outbox.queue # <<>>
    BY <1>5 DEF SendBegin, HasFront
  <2>2. snapshotAt' = snapshotAt /\ activeNow' = activeNow /\ batch' = batch /\ nextReport' = nextReport
    BY <1>5 DEF SendBegin, client
  <2> QED BY <2>1, <2>2, <1>1, Zenon DEF MailTypes, HasFront
<1>6. CASE SendEnd
  <2>1. outbox.queue # <<>> /\ sending' = Never /\ mailNow' = mailNow /\ channel' = channel
    BY <1>1, <1>6 DEF SendEnd
  <2>2. snapshotAt' = snapshotAt /\ activeNow' = activeNow /\ batch' = batch /\ nextReport' = nextReport
    BY <1>6 DEF SendEnd, client
  <2>3. PICK result : /\ outbox' = OutboxAfter(outbox, result) /\ wait' = WaitAfter(outbox, result)
                      /\ wakeAt' = mailNow + wait'
                      /\ fate' = [fate EXCEPT !.lost = @ \cup Dropped, !.readyAt = wakeAt']
    BY <1>6 DEF SendEnd
  <2>4. outbox' \in OutboxType /\ Len(outbox'.queue) <= MaxQueued
    BY <2>1, <2>3, <1>1, AfterTyped
  <2>5. wait' \in 0..MailInterval
    <3>1. outbox.backoff \in 0..MailInterval
      BY <1>1 DEF OutboxType
    <3> QED BY <3>1, <2>3, BackoffIs, MailBounds DEF WaitAfter
  <2>6. relay' \in Seq(Nat) /\ AccountInv'
    BY <1>6, SendAccounts
  <2>7. fate' \in FateType
    <3>1. PICK l, y : l = fate.lost \cup Dropped /\ y = wakeAt'
      OBVIOUS
    <3>2. fate' = [fate EXCEPT !.lost = l, !.readyAt = y]
      BY <2>3, <3>1
    <3>3. y \in Nat
      <4>1. mailNow \in Nat /\ wait' \in Nat
        BY <2>5, <1>1, MailBounds
      <4> QED BY <4>1, <3>1, <2>3
    <3>4. l \subseteq Nat
      <4>1. fate'.lost = l
        BY <3>2, <1>1 DEF FateType
      <4> QED BY <2>6, <4>1 DEF AccountInv, Accounted, InOrder
    <3> QED BY <3>2, <3>3, <3>4, <1>1, <1>2, FateTyped
  <2> QED BY <2>1, <2>2, <2>4, <2>5, <2>6, <2>7, <1>1, Zenon DEF MailTypes, HasFront
<1>7. CASE LogDropped
  <2>1. /\ outbox' = [outbox EXCEPT !.dropped = 0] /\ fate' = [fate EXCEPT !.logged = @ + outbox.dropped]
        /\ mailNow' = mailNow /\ channel' = channel /\ wait' = wait /\ sending' = sending /\ relay' = relay
    BY <1>7 DEF LogDropped
  <2>2. snapshotAt' = snapshotAt /\ activeNow' = activeNow /\ batch' = batch /\ nextReport' = nextReport
    BY <1>7 DEF LogDropped, client
  <2>3. outbox' \in OutboxType
    BY <2>1, <1>1 DEF OutboxType
  <2>4. outbox'.queue = outbox.queue /\ outbox.dropped \in Nat
    BY <2>1, <1>1 DEF OutboxType
  <2>5. fate' \in FateType
    <3>1. PICK n \in Nat : n = fate.logged + outbox.dropped
      BY <2>4, <1>2
    <3>2. fate' = [fate EXCEPT !.logged = n]
      BY <2>1, <3>1
    <3> QED BY <3>2, <1>1 DEF FateType
  <2> QED BY <2>1, <2>2, <2>3, <2>4, <2>5, <1>1, Zenon DEF MailTypes, HasFront
<1> QED BY <1>3, <1>4, <1>5, <1>6, <1>7 DEF MailClientNext

\* Every step keeps the invariant.
LEMMA MailInvStep ==
  ASSUME MailInv, MailClientNext
  PROVE  MailInv'
<1>1. MailTypes /\ BatchInv /\ FitInv /\ NoIncidentForgotten /\ AccountInv /\ CountInv
  BY DEF MailInv
<1>2. MailTypes'
  BY <1>1, MailTypesStep
<1>3. ASSUME batch' = batch, nextReport' = nextReport, mailNow' = mailNow PROVE BatchInv'
  BY <1>1, <1>3 DEF BatchInv
<1>4. ASSUME batch' = batch, fate'.missed = fate.missed, fate'.pending = fate.pending PROVE NoIncidentForgotten'
  BY <1>1, <1>4 DEF NoIncidentForgotten
<1>5. CASE Gather
  <2>1. BatchInv' /\ NoIncidentForgotten' /\ AccountInv' /\ CountInv' /\ FitInv'
    BY <1>1, <1>5, GatherStep, GatherIncidents, GatherAccounts
  <2> QED BY <2>1, <1>2 DEF MailInv
<1>6. CASE Receive
  <2>1. batch' = batch /\ nextReport' = nextReport /\ mailNow' = mailNow
    BY <1>6 DEF Receive, client
  <2>2. fate'.missed = fate.missed /\ fate'.pending = fate.pending
    BY <1>1, <1>6 DEF Receive, MailTypes, FateType
  <2>3. AccountInv' /\ CountInv' /\ FitInv'
    BY <1>1, <1>6, ReceiveAccounts
  <2> QED BY <2>1, <2>2, <2>3, <1>2, <1>3, <1>4 DEF MailInv
<1>7. CASE SendBegin
  <2>1. /\ batch' = batch /\ nextReport' = nextReport /\ mailNow' = mailNow /\ fate' = fate /\ outbox' = outbox
        /\ channel' = channel /\ relay' = relay
    BY <1>7 DEF SendBegin, client
  <2>2. Waiting' = Waiting
    BY <2>1 DEF Waiting
  <2>3. AccountInv' /\ CountInv' /\ FitInv'
    BY <2>1, <2>2, <1>1 DEF AccountInv, CountInv, FitInv
  <2> QED BY <2>1, <2>3, <1>2, <1>3, <1>4 DEF MailInv
<1>8. CASE SendEnd
  <2>1. batch' = batch /\ nextReport' = nextReport /\ mailNow' = mailNow
    BY <1>8 DEF SendEnd, client
  <2>2. fate'.missed = fate.missed /\ fate'.pending = fate.pending
    BY <1>1, <1>8 DEF SendEnd, MailTypes, FateType
  <2>3. AccountInv' /\ CountInv' /\ FitInv'
    BY <1>1, <1>8, SendAccounts
  <2> QED BY <2>1, <2>2, <2>3, <1>2, <1>3, <1>4 DEF MailInv
<1>9. CASE LogDropped
  <2>1. /\ batch' = batch /\ nextReport' = nextReport /\ mailNow' = mailNow /\ channel' = channel /\ relay' = relay
        /\ outbox' = [outbox EXCEPT !.dropped = 0] /\ fate' = [fate EXCEPT !.logged = @ + outbox.dropped]
    BY <1>9 DEF LogDropped, client
  <2>2. outbox \in OutboxType /\ fate \in FateType
    BY <1>1 DEF MailTypes
  <2>3. outbox'.queue = outbox.queue /\ outbox'.dropped = 0 /\ outbox.dropped \in Nat
    BY <2>1, <2>2 DEF OutboxType
  <2>4. /\ fate'.logged = fate.logged + outbox.dropped /\ fate'.lost = fate.lost /\ fate'.skipped = fate.skipped
        /\ fate'.missed = fate.missed /\ fate'.pending = fate.pending /\ fate.logged \in Nat
    BY <2>1, <2>2 DEF FateType
  <2>5. Waiting' = Waiting
    BY <2>1, <2>3 DEF Waiting
  <2>6. AccountInv' /\ FitInv'
    BY <2>1, <2>4, <2>5, <1>1 DEF AccountInv, FitInv
  <2>7. CountInv'
    <3>1. outbox'.dropped + fate'.logged = outbox.dropped + fate.logged
      BY <2>3, <2>4
    <3> QED BY <3>1, <2>4, <1>1 DEF CountInv
  <2> QED BY <2>1, <2>4, <2>6, <2>7, <1>2, <1>3, <1>4 DEF MailInv
<1> QED BY <1>5, <1>6, <1>7, <1>8, <1>9 DEF MailClientNext

\* The client starts with nothing gathered.
LEMMA MailInvInit ==
  ASSUME MailClientInit
  PROVE  MailInv
<1>1. /\ mailNow = 0 /\ snapshotAt = 0 /\ activeNow = {} /\ batch = EmptyBatch
      /\ nextReport = MailInterval /\ channel = <<>> /\ outbox = EmptyOutbox /\ wait = 0 /\ sending = Never
      /\ relay = <<>> /\ fate = NothingFated
  BY DEF MailClientInit
<1>2. batch \in BatchType /\ batch.nextSeq = 1 /\ batch.samples = <<>> /\ batch.alerts = <<>> /\ batch.lastKept = Never
  <2>1. PICK e : e = <<>>
    OBVIOUS
  <2>2. e \in Seq(Nat) /\ e \in Seq(Incidents)
    BY <2>1
  <2>3. batch = [nextSeq |-> 1, lastKept |-> Never, samples |-> e, alerts |-> e, active |-> {}]
    BY <1>1, <2>1 DEF EmptyBatch
  <2> QED BY <2>1, <2>2, <2>3 DEF BatchType
<1>3. outbox \in OutboxType /\ outbox.queue = <<>> /\ outbox.dropped = 0
  <2>1. PICK e : e = <<>>
    OBVIOUS
  <2>2. e \in Seq(ReportType)
    BY <2>1
  <2>3. outbox = [queue |-> e, dropped |-> 0, backoff |-> 0]
    BY <1>1, <2>1 DEF EmptyOutbox
  <2> QED BY <2>1, <2>2, <2>3, MailBounds DEF OutboxType
<1>4. fate \in FateType /\ fate.lost = {} /\ fate.skipped = {} /\ fate.logged = 0 /\ fate.missed = {} /\ fate.pending = {}
  BY <1>1 DEF NothingFated, FateType
<1>5. MailTypes
  <2>1. mailNow \in 0..MaxMailTime /\ snapshotAt \in 0..mailNow /\ activeNow \subseteq Incidents /\ nextReport \in Nat
        /\ wait \in 0..MailInterval
    BY <1>1, MailBounds
  <2>2. channel \in Seq(ReportType) /\ relay \in Seq(Nat) /\ Len(outbox.queue) <= MaxQueued
    BY <1>1, <1>3, MailBounds
  <2>3. sending = Never
    BY <1>1
  <2> QED BY <2>1, <2>2, <2>3, <1>2, <1>3, <1>4, Zenon DEF MailTypes
<1>6. BatchInv
  <2>1. NotedOnce(<<>>)
    BY MailBounds DEF NotedOnce
  <2>2. Gathers(<<>>, nextReport - MailInterval - Staleness, batch.lastKept)
    BY MailBounds DEF Gathers
  <2>3. batch.lastKept <= mailNow
    BY <1>1, <1>2 DEF Never
  <2>4. BatchOK(batch, nextReport, mailNow)
    BY <2>1, <2>2, <2>3, <1>2 DEF BatchOK
  <2> QED BY <2>4, <1>1, MailBounds DEF BatchInv
<1>7. Waiting = <<>> /\ DOMAIN Waiting = {} /\ DOMAIN relay = {}
  BY <1>1, <1>3 DEF Waiting
<1>8. FitInv
  BY <1>7 DEF FitInv
<1>9. AccountInv
  <2>1. \A n \in 1..(batch.nextSeq - 1) : FALSE
    BY <1>2
  <2> QED BY <2>1, <1>4, <1>7 DEF AccountInv, Accounted, InOrder, Placed
<1>10. CountInv
  BY <1>3, <1>4, FS_EmptySet DEF CountInv
<1>11. NoIncidentForgotten
  BY <1>4 DEF NoIncidentForgotten
<1> QED BY <1>5, <1>6, <1>8, <1>9, <1>10, <1>11 DEF MailInv

\* The invariant gives what the run checks.
LEMMA MailInvSound ==
  ASSUME MailInv
  PROVE  ReportsSound
<1>1. MailTypes /\ BatchInv /\ FitInv /\ NoIncidentForgotten /\ AccountInv /\ CountInv
  BY DEF MailInv
<1>2. MailClientTypeOK
  <2>1. batch.nextSeq \in Nat \ {0} /\ Len(batch.samples) <= MaxSamples /\ Len(batch.alerts) <= MaxAlerts
    BY <1>1 DEF BatchInv, BatchOK, BatchType, Gathers, NotedOnce
  <2>2. outbox.backoff \in 0..MailInterval
    BY <1>1 DEF MailTypes, OutboxType
  <2> QED BY <2>1, <2>2, <1>1 DEF MailClientTypeOK, MailTypes
<1>3. /\ Waiting \in Seq(ReportType) /\ DOMAIN Waiting = 1..Len(Waiting) /\ relay \in Seq(Nat)
  BY <1>1, DeliveryTypes
<1>4. ReportsFit
  <2> SUFFICES ASSUME NEW i \in DOMAIN Waiting, NEW r, r = Waiting[i]
               PROVE  /\ Len(r.samples) \in 1..MaxSamples
                      /\ \A k \in DOMAIN r.samples :
                            /\ r.samples[k] \in (r.createdAt - MailInterval - WindowSlack)..r.createdAt
                            /\ k > 1 => r.samples[k - 1] < r.samples[k]
    BY DEF ReportsFit
  <2>1. r \in ReportType
    BY <1>3, ElementOfSeq
  <2>2. r.samples \in Seq(Nat) /\ r.createdAt \in Nat
    BY <2>1 DEF ReportType
  <2>3. /\ r.samples # <<>> /\ Len(r.samples) <= MaxSamples
        /\ \A k \in DOMAIN r.samples : r.samples[k] >= r.createdAt - MailInterval - Staleness /\ r.samples[k] <= r.createdAt
        /\ \A k \in DOMAIN r.samples : k > 1 => r.samples[k - 1] < r.samples[k]
    BY <1>1 DEF FitInv, Fits, Gathers
  <2>4. Len(r.samples) \in Nat \ {0}
    BY <2>2, <2>3, EmptySeq
  <2>5. \A k \in DOMAIN r.samples : r.samples[k] \in Nat
    BY <2>2, ElementOfSeq, LenProperties
  <2>6. Len(r.samples) \in 1..MaxSamples
    BY <2>3, <2>4, MailBounds
  <2>7. \A k \in DOMAIN r.samples : r.samples[k] \in (r.createdAt - MailInterval - WindowSlack)..r.createdAt
    <3> SUFFICES ASSUME NEW k \in DOMAIN r.samples
                 PROVE  r.samples[k] \in (r.createdAt - MailInterval - WindowSlack)..r.createdAt
      OBVIOUS
    <3>1. PICK x \in Int, c \in Int, length \in Int, stale \in Int, slack \in Int :
            x = r.samples[k] /\ c = r.createdAt /\ length = MailInterval /\ stale = Staleness /\ slack = WindowSlack
      BY <2>2, <2>5, MailBounds
    <3>2. x >= c - length - stale /\ x <= c /\ stale <= slack
      BY <3>1, <2>3, MailBounds
    <3>3. x \in (c - length - slack)..c
      BY <3>2
    <3> QED BY <3>1, <3>3
  <2> QED BY <2>3, <2>6, <2>7
<1>5. NoReportVanishes
  <2>1. PICK next \in Nat \ {0} : next = batch.nextSeq
    BY <1>1, DeliveryTypes
  <2>2. InOrder(Waiting, relay, fate.lost, fate.skipped, next) /\ Placed(Waiting, relay, fate.lost, fate.skipped, next)
    BY <1>1, <2>1 DEF AccountInv, Accounted
  <2>3. 1..(next - 1) = {r.seq : r \in ToSet(Waiting)} \cup ToSet(relay) \cup fate.lost \cup fate.skipped
    <3>1. \A n \in 1..(next - 1) : n \in {r.seq : r \in ToSet(Waiting)} \cup ToSet(relay) \cup fate.lost \cup fate.skipped
      BY <2>2 DEF Placed, ToSet
    <3>2. \A n \in {r.seq : r \in ToSet(Waiting)} : n \in 1..(next - 1)
      BY <2>2 DEF InOrder, ToSet
    <3>3. \A n \in ToSet(relay) \cup fate.lost \cup fate.skipped : n \in 1..(next - 1)
      BY <2>2 DEF InOrder, ToSet
    <3> QED BY <3>1, <3>2, <3>3
  <2>4. \A i \in 2..Len(relay) : relay[i - 1] <= relay[i]
    <3> TAKE i \in 2..Len(relay)
    <3>1. DOMAIN relay = 1..Len(relay) /\ Len(relay) \in Nat
      BY <1>3, LenProperties
    <3>2. i - 1 \in DOMAIN relay /\ i \in DOMAIN relay /\ i - 1 < i
      BY <3>1
    <3> QED BY <3>2, <2>2 DEF InOrder
  <2>5. \A i \in 2..Len(Waiting) : Waiting[i - 1].seq < Waiting[i].seq
    <3> TAKE i \in 2..Len(Waiting)
    <3>1. Len(Waiting) \in Nat
      BY <1>3, LenProperties
    <3>2. i - 1 \in DOMAIN Waiting /\ i \in DOMAIN Waiting /\ i - 1 < i
      BY <3>1, <1>3
    <3> QED BY <3>2, <2>2 DEF InOrder
  <2>6. Cardinality(fate.lost) = outbox.dropped + fate.logged
    BY <1>1 DEF CountInv
  <2> QED BY <2>1, <2>3, <2>4, <2>5, <2>6 DEF NoReportVanishes
<1> QED BY <1>1, <1>2, <1>4, <1>5 DEF ReportsSound

\* For any bounds and any answers of the relay: the mail client's reports fit, no incident is
\* forgotten, and no report vanishes uncounted.
THEOREM ReportsAlwaysSound == MailClientSpec => []ReportsSound
<1>1. MailClientInit => MailInv
  BY MailInvInit
<1>2. MailInv /\ [MailClientNext]_mailVars => MailInv'
  <2>1. ASSUME MailInv, MailClientNext PROVE MailInv'
    BY <2>1, MailInvStep
  <2>2. ASSUME MailInv, UNCHANGED mailVars PROVE MailInv'
    <3>1. /\ mailNow' = mailNow /\ snapshotAt' = snapshotAt /\ activeNow' = activeNow /\ batch' = batch
          /\ nextReport' = nextReport /\ channel' = channel /\ outbox' = outbox /\ wait' = wait /\ sending' = sending
          /\ relay' = relay /\ fate' = fate
      BY <2>2 DEF mailVars, client, delivery
    <3>2. Waiting' = Waiting
      BY <3>1 DEF Waiting
    <3>3. MailTypes' /\ BatchInv'
      BY <2>2, <3>1, Zenon DEF MailInv, MailTypes, BatchInv, HasFront
    <3>4. FitInv' /\ NoIncidentForgotten' /\ AccountInv' /\ CountInv'
      BY <2>2, <3>1, <3>2 DEF MailInv, FitInv, NoIncidentForgotten, AccountInv, CountInv
    <3> QED BY <3>3, <3>4 DEF MailInv
  <2> QED BY <2>1, <2>2
<1>3. MailInv => ReportsSound
  BY MailInvSound
<1> QED BY <1>1, <1>2, <1>3, PTL DEF MailClientSpec

-----------------------------------------------------------------------------
(* The id file. *)

\* The types of the sources and of an agent.
SourceTexts == [machine : {Missing, "empty"} \cup SourceIds, dbus : {Missing} \cup SourceIds,
                host : {Missing, NotUtf8}]
Steps == {"stopped", "resolved", "written", "durable", "linked", "taken", "failed", "running", "refused"}
AgentType == [at : Steps, id : Ids \cup {Missing}, temp : {Missing, "written", "partial", "durable"}]

\* A file in place has its content on the disk: it was flushed before it was linked.
FileOK == /\ DOMAIN idFile = {"content", "synced", "entry"}
          /\ idFile.content \in Contents \cup {Missing}
          /\ idFile.content # Missing => idFile.synced

\* What an agent holds at each step of its start.
Holds(m, content) ==
    /\ m.at \in {"resolved", "written", "durable"} => m.id \in Ids
    /\ m.at = "durable" => m.temp = "durable"
    /\ m.at \in {"linked", "running"} => m.id \in Ids /\ m.id = content

IdentityInv ==
    /\ FileOK /\ sources \in SourceTexts /\ used \subseteq RandomIds /\ outages \in Nat
    /\ agent \in [Agents -> AgentType]
    /\ \A a \in Agents : Holds(agent[a], idFile.content)

\* What the sources give is an id: a usable text, a lossy one, or a random one.
LEMMA FromSourcesIds ==
  ASSUME sources \in SourceTexts
  PROVE  FromSources \subseteq Ids
<1>1. /\ sources.machine \in {Missing, "empty"} \cup SourceIds /\ sources.dbus \in {Missing} \cup SourceIds
      /\ sources.host \in {Missing, NotUtf8}
  BY DEF SourceTexts
<1>2. Lossy \in SourceIds
  BY IdentityAssumption DEF Lossy
<1>3. NotUtf8 \notin Ids /\ Missing \notin Ids /\ "empty" \notin Ids
  BY IdentityAssumption DEF BadTexts
<1>4. Usable("machine", sources.machine) => sources.machine \in Ids
  BY DEF Usable
<1>5. Usable("dbus", sources.dbus) => sources.dbus \in Ids
  BY DEF Usable
<1>6. Usable("host", sources.host) => sources.host = NotUtf8
  BY <1>1, <1>3 DEF Usable
<1>7. SourceIds \subseteq Ids /\ RandomIds \ used \subseteq Ids
  BY DEF Ids
<1> QED
  BY <1>2, <1>4, <1>5, <1>6, <1>7 DEF FromSources

\* Flushing the directory leaves the file as it is.
LEMMA EntryFlushed ==
  ASSUME FileOK, NEW v
  PROVE  LET flushed == [idFile EXCEPT !.entry = v]
         IN  flushed.content = idFile.content /\ flushed.synced = idFile.synced /\ DOMAIN flushed = DOMAIN idFile
  BY DEF FileOK

\* The fields of a file.
LEMMA NewFile ==
  ASSUME NEW c, NEW v, NEW w
  PROVE  LET file == [content |-> c, synced |-> v, entry |-> w]
         IN  file.content = c /\ file.synced = v /\ file.entry = w /\ DOMAIN file = {"content", "synced", "entry"}
  OBVIOUS

\* The states an agent passes through.
LEMMA Shapes ==
         /\ Stopped \in AgentType /\ \A c : Holds(Stopped, c)
         /\ [Stopped EXCEPT !.at = "refused"] \in AgentType
         /\ \A c : Holds([Stopped EXCEPT !.at = "refused"], c)
         /\ \A id \in Ids : /\ [Stopped EXCEPT !.at = "running", !.id = id] \in AgentType
                            /\ Holds([Stopped EXCEPT !.at = "running", !.id = id], id)
                            /\ [Stopped EXCEPT !.at = "resolved", !.id = id] \in AgentType
                            /\ \A c : Holds([Stopped EXCEPT !.at = "resolved", !.id = id], c)
  BY DEF Stopped, AgentType, Steps, Holds

\* A step of one agent that leaves the file alone keeps what the others hold.
LEMMA OneMoves ==
  ASSUME IdentityInv, NEW a \in Agents, NEW m \in AgentType, Holds(m, idFile.content),
         agent' = [agent EXCEPT ![a] = m], UNCHANGED <<idFile, sources, outages>>, used' \subseteq RandomIds
  PROVE  IdentityInv'
  BY DEF IdentityInv, FileOK

\* Every step of an agent, and a power loss, keeps the invariant.  A link finds no agent running or
\* linked: such an agent has an id that the file holds, and the file is missing.
LEMMA IdentityStep ==
  ASSUME IdentityInv, [IdentityNext]_identityVars
  PROVE  IdentityInv'
<1>1. ASSUME NEW a \in Agents, ReadIdFile(a) PROVE IdentityInv'
  <2>1. CASE idFile.content # Missing /\ UNCHANGED used /\
             agent' = [agent EXCEPT ![a] =
                IF ParseIdFile(idFile.content) = "id"
                THEN [Stopped EXCEPT !.at = "running", !.id = idFile.content]
                ELSE [Stopped EXCEPT !.at = "refused"]]
    <3>1. CASE idFile.content \in Ids
      <4>1. agent' = [agent EXCEPT ![a] = [Stopped EXCEPT !.at = "running", !.id = idFile.content]]
        BY <2>1, <3>1 DEF ParseIdFile
      <4> QED
        BY <1>1, <2>1, <3>1, <4>1, Shapes, OneMoves DEF ReadIdFile, IdentityInv
    <3>2. CASE idFile.content \notin Ids
      <4>1. agent' = [agent EXCEPT ![a] = [Stopped EXCEPT !.at = "refused"]]
        BY <2>1, <3>2 DEF ParseIdFile
      <4> QED
        BY <1>1, <2>1, <3>2, <4>1, Shapes, OneMoves DEF ReadIdFile, IdentityInv
    <3> QED
      BY <3>1, <3>2
  <2>2. CASE \E id \in FromSources :
                /\ agent' = [agent EXCEPT ![a] = [Stopped EXCEPT !.at = "resolved", !.id = id]]
                /\ used' = used \cup ({id} \cap RandomIds)
    <3>1. PICK id \in Ids :
                /\ agent' = [agent EXCEPT ![a] = [Stopped EXCEPT !.at = "resolved", !.id = id]]
                /\ used' = used \cup ({id} \cap RandomIds)
      BY <2>2, FromSourcesIds DEF IdentityInv
    <3> QED
      BY <1>1, <3>1, Shapes, OneMoves DEF ReadIdFile, IdentityInv
  <2>3. CASE Moves(a, "refused") /\ UNCHANGED used
    <3>1. [agent[a] EXCEPT !.at = "refused"] \in AgentType /\ Holds([agent[a] EXCEPT !.at = "refused"], idFile.content)
      BY DEF IdentityInv, AgentType, Holds, Steps
    <3>2. agent' = [agent EXCEPT ![a] = [agent[a] EXCEPT !.at = "refused"]]
      BY <2>3 DEF Moves, IdentityInv
    <3> QED
      BY <1>1, <2>3, <3>1, <3>2, OneMoves DEF ReadIdFile, IdentityInv
  <2> QED
    BY <1>1, <2>1, <2>2, <2>3 DEF ReadIdFile
<1>2. ASSUME NEW a \in Agents, WriteTemp(a) PROVE IdentityInv'
  <2>1. ASSUME NEW at \in {"written", "failed"}, NEW temp \in {"written", "partial"},
               agent' = [agent EXCEPT ![a].at = at, ![a].temp = temp],
               at = "written" => temp = "written"
        PROVE  IdentityInv'
    <3>1. PICK m : m = [agent[a] EXCEPT !.at = at, !.temp = temp]
      OBVIOUS
    <3>2. m \in AgentType /\ Holds(m, idFile.content)
      BY <1>2, <3>1 DEF IdentityInv, AgentType, Holds, Steps, WriteTemp
    <3>3. agent' = [agent EXCEPT ![a] = m]
      BY <2>1, <3>1 DEF IdentityInv
    <3> QED
      BY <1>2, <3>2, <3>3, OneMoves DEF WriteTemp, IdentityInv
  <2> QED
    BY <1>2, <2>1 DEF WriteTemp
<1>3. ASSUME NEW a \in Agents, SyncTemp(a) PROVE IdentityInv'
  <2>1. CASE agent' = [agent EXCEPT ![a].at = "durable", ![a].temp = "durable"]
    <3>1. PICK m : m = [agent[a] EXCEPT !.at = "durable", !.temp = "durable"]
      OBVIOUS
    <3>2. m \in AgentType /\ Holds(m, idFile.content)
      BY <1>3, <3>1 DEF IdentityInv, AgentType, Holds, Steps, SyncTemp
    <3>3. agent' = [agent EXCEPT ![a] = m]
      BY <2>1, <3>1 DEF IdentityInv
    <3> QED
      BY <1>3, <3>2, <3>3, OneMoves DEF SyncTemp, IdentityInv
  <2>2. CASE agent' = [agent EXCEPT ![a].at = "failed"]
    <3>1. PICK m : m = [agent[a] EXCEPT !.at = "failed"]
      OBVIOUS
    <3>2. m \in AgentType /\ Holds(m, idFile.content)
      BY <1>3, <3>1 DEF IdentityInv, AgentType, Holds, Steps
    <3>3. agent' = [agent EXCEPT ![a] = m]
      BY <2>2, <3>1 DEF IdentityInv
    <3> QED
      BY <1>3, <3>2, <3>3, OneMoves DEF SyncTemp, IdentityInv
  <2> QED
    BY <1>3, <2>1, <2>2 DEF SyncTemp
<1>4. ASSUME NEW a \in Agents, LinkTemp(a) PROVE IdentityInv'
  <2>1. ASSUME NEW at \in {"taken", "failed"}, Moves(a, at), UNCHANGED idFile PROVE IdentityInv'
    <3>1. PICK m : m = [agent[a] EXCEPT !.at = at]
      OBVIOUS
    <3>2. m \in AgentType /\ Holds(m, idFile.content)
      BY <3>1 DEF IdentityInv, AgentType, Holds, Steps
    <3>3. agent' = [agent EXCEPT ![a] = m]
      BY <2>1, <3>1 DEF IdentityInv, Moves
    <3> QED
      BY <1>4, <2>1, <3>2, <3>3, OneMoves DEF LinkTemp, IdentityInv
  <2>2. CASE /\ idFile.content = Missing /\ Moves(a, "linked")
             /\ idFile' = [content |-> agent[a].id, synced |-> agent[a].temp = "durable", entry |-> FALSE]
    <3>1. agent[a].at = "durable" /\ agent[a] \in AgentType
      BY <1>4 DEF LinkTemp, IdentityInv
    <3>2. agent[a].id \in Ids /\ agent[a].temp = "durable"
      BY <3>1 DEF IdentityInv, Holds
    <3>3. idFile'.content = agent[a].id /\ idFile'.synced /\ DOMAIN idFile' = {"content", "synced", "entry"}
      BY <2>2, <3>2, NewFile, Zenon
    <3>4. Missing \notin Ids
      BY IdentityAssumption
    <3>5. \A b \in Agents : agent[b].at \notin {"linked", "running"}
      BY <2>2, <3>4 DEF IdentityInv, Holds
    <3>6. /\ agent' \in [Agents -> AgentType] /\ agent'[a].at = "linked" /\ agent'[a].id = agent[a].id
          /\ \A b \in Agents : b # a => agent'[b] = agent[b]
      BY <2>2, <3>1 DEF Moves, IdentityInv, AgentType, Steps
    <3>7. FileOK'
      BY <3>2, <3>3 DEF FileOK, Contents
    <3>8. \A b \in Agents : Holds(agent'[b], idFile'.content)
      BY <3>2, <3>3, <3>5, <3>6 DEF Holds, IdentityInv
    <3> QED
      BY <1>4, <3>6, <3>7, <3>8 DEF LinkTemp, IdentityInv
  <2> QED
    BY <1>4, <2>1, <2>2 DEF LinkTemp
<1>5. ASSUME NEW a \in Agents, Settle(a) PROVE IdentityInv'
  <2>1. CASE /\ agent[a].at = "linked"
             /\ agent' = [agent EXCEPT ![a].at = "running", ![a].temp = Missing]
             /\ idFile' \in {idFile, [idFile EXCEPT !.entry = TRUE]}
    <3>1. PICK m : m = [agent[a] EXCEPT !.at = "running", !.temp = Missing]
      OBVIOUS
    <3>2. m \in AgentType /\ Holds(m, idFile.content)
      BY <2>1, <3>1 DEF IdentityInv, AgentType, Holds, Steps
    <3>3. agent' = [agent EXCEPT ![a] = m]
      BY <2>1, <3>1 DEF IdentityInv
    <3>4. /\ idFile'.content = idFile.content /\ idFile'.synced = idFile.synced
          /\ DOMAIN idFile' = DOMAIN idFile
      BY <2>1, EntryFlushed, Zenon DEF IdentityInv
    <3>5. /\ agent' \in [Agents -> AgentType]
          /\ \A b \in Agents : Holds(agent'[b], idFile.content)
      BY <3>2, <3>3 DEF IdentityInv
    <3>6. FileOK'
      BY <3>4, Zenon DEF FileOK, IdentityInv
    <3> QED
      BY <1>5, <3>4, <3>5, <3>6 DEF Settle, IdentityInv
  <2>2. CASE agent' = [agent EXCEPT ![a] = [Stopped EXCEPT !.at = "refused"]] /\ UNCHANGED idFile
    BY <1>5, <2>2, Shapes, OneMoves DEF Settle, IdentityInv
  <2>3. CASE agent' = [agent EXCEPT ![a] = [Stopped EXCEPT !.at = "running", !.id = idFile.content]]
             /\ idFile.content \in Ids /\ UNCHANGED idFile
    BY <1>5, <2>3, Shapes, OneMoves DEF Settle, IdentityInv
  <2> QED
    BY <1>5, <2>1, <2>2, <2>3 DEF Settle, ParseIdFile
<1>6. ASSUME NEW a \in Agents, AgentStops(a) PROVE IdentityInv'
  BY <1>6, Shapes, OneMoves DEF AgentStops, IdentityInv
<1>7. CASE PowerLoss
  <2>1. agent' \in [Agents -> AgentType] /\ \A a \in Agents : \A c : Holds(agent'[a], c)
    <3>1. agent' = [a \in Agents |-> Stopped]
      BY <1>7 DEF PowerLoss
    <3> QED
      BY <3>1, Shapes
  <2>2. idFile' = idFile \/ idFile' = NoFile
    BY <1>7, Zenon DEF PowerLoss, IdentityInv, FileOK
  <2>3. FileOK'
    <3>1. NoFile.content = Missing /\ DOMAIN NoFile = {"content", "synced", "entry"}
      BY NewFile, Zenon DEF NoFile
    <3> QED
      BY <2>2, <3>1 DEF FileOK, IdentityInv
  <2> QED
    BY <1>7, <2>1, <2>3 DEF PowerLoss, IdentityInv
<1>8. CASE UNCHANGED identityVars
  BY <1>8 DEF identityVars, IdentityInv, FileOK
<1> QED
  BY <1>1, <1>2, <1>3, <1>4, <1>5, <1>6, <1>7, <1>8 DEF IdentityNext

\* A file an operator wrote is on the disk, and no agent runs yet.
LEMMA IdentityInitially == IdentityInit => IdentityInv
<1> SUFFICES ASSUME IdentityInit PROVE IdentityInv
  OBVIOUS
<1>1. FileOK
  <2>1. CASE idFile = NoFile
    <3>1. NoFile.content = Missing /\ DOMAIN NoFile = {"content", "synced", "entry"}
      BY NewFile, Zenon DEF NoFile
    <3> QED
      BY <2>1, <3>1 DEF FileOK
  <2>2. CASE idFile \in [content : Contents, synced : {TRUE}, entry : {TRUE}]
    <3>1. \A S : \A file \in [content : Contents, synced : S, entry : S] :
            /\ DOMAIN file = {"content", "synced", "entry"} /\ file.content \in Contents
            /\ file.synced \in S
      OBVIOUS
    <3>2. /\ DOMAIN idFile = {"content", "synced", "entry"} /\ idFile.content \in Contents
          /\ idFile.synced \in {TRUE}
      BY <2>2, <3>1, Zenon
    <3> QED
      BY <3>2, Zenon DEF FileOK
  <2> QED
    BY <2>1, <2>2 DEF IdentityInit
<1>2. Stopped \in AgentType /\ \A c : Holds(Stopped, c)
  BY DEF Stopped, AgentType, Steps, Holds
<1> QED
  BY <1>1, <1>2 DEF IdentityInit, IdentityInv, SourceTexts

\* The invariant has the types, and one id for all that run.
LEMMA IdentityInvSays == IdentityInv => IdentityTypeOK /\ OneIdPerFile
  BY DEF IdentityInv, IdentityTypeOK, OneIdPerFile, Holds, AgentType, Steps, FileOK

\* Only a link and a power loss change the file: from nothing to an id, or to nothing.
LEMMA FileStep ==
  ASSUME IdentityInv, IdentityNext
  PROVE  NeverLeavesABadFile /\ IdKept
<1>1. ASSUME NEW a \in Agents, LinkTemp(a) PROVE NeverLeavesABadFile /\ IdKept
  <2>1. CASE UNCHANGED idFile
    BY <2>1 DEF NeverLeavesABadFile, IdKept
  <2>2. CASE idFile.content = Missing /\ idFile'.content = agent[a].id
    BY <1>1, <2>2 DEF NeverLeavesABadFile, IdKept, LinkTemp, IdentityInv, Holds
  <2> QED
    BY <1>1, <2>1, <2>2 DEF LinkTemp
<1>2. CASE PowerLoss
  <2>1. outages' > outages
    BY <1>2 DEF PowerLoss, IdentityInv
  <2>2. idFile' = idFile \/ (idFile' = NoFile /\ ~idFile.entry)
    BY <1>2, Zenon DEF PowerLoss, IdentityInv, FileOK
  <2>3. NoFile.content = Missing
    BY NewFile, Zenon DEF NoFile
  <2> QED
    BY <2>1, <2>2, <2>3 DEF NeverLeavesABadFile, IdKept
<1>3. ASSUME idFile'.content = idFile.content PROVE NeverLeavesABadFile /\ IdKept
  BY <1>3 DEF NeverLeavesABadFile, IdKept
<1>4. ASSUME NEW a \in Agents, Settle(a) PROVE idFile'.content = idFile.content
  <2>1. FileOK
    BY DEF IdentityInv
  <2>2. idFile' = idFile \/ idFile' = [idFile EXCEPT !.entry = TRUE]
    BY <1>4, Zenon DEF Settle
  <2> QED
    BY <2>1, <2>2, EntryFlushed, Zenon
<1> QED
  BY <1>1, <1>2, <1>3, <1>4 DEF IdentityNext, ReadIdFile, WriteTemp, SyncTemp, AgentStops

\* However many agents share the id file and whenever they start, crash or lose power, their running
\* ones present the id in the file, no step leaves a file that is not an id, and an id once in it
\* stays until a power loss takes a file whose directory was never flushed.
THEOREM IdentityAlwaysKept == IdentitySpec => IdentityKept
<1>1. IdentityInv /\ [IdentityNext]_identityVars => IdentityInv'
  BY IdentityStep
<1>2. IdentityInv' => (IdentityTypeOK /\ OneIdPerFile)'
  BY IdentityInvSays, PTL
<1>3. IdentityInv /\ IdentityInv' /\ [IdentityNext]_identityVars
        => [(IdentityTypeOK /\ OneIdPerFile)' /\ NeverLeavesABadFile /\ IdKept]_identityVars
  BY <1>2, FileStep
<1> QED
  BY <1>1, <1>3, IdentityInitially, PTL DEF IdentitySpec, IdentityKept
=============================================================================
