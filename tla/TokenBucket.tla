---------------------------- MODULE TokenBucket -----------------------------
(***************************************************************************)
(* The hub's token bucket: a value, refilled and spent by `take`, which     *)
(* returns the bucket that remains.  A round source's pace and a push       *)
(* connection's decode budget each are one.                                 *)
(***************************************************************************)
EXTENDS Naturals

Full(capacity, period, now) ==
    [capacity |-> capacity, period |-> period, tokens |-> capacity, last |-> now]

RefilledAtNow(b, now) ==  \* mutant: the remainder of a period is not kept
    IF b.period # 0 /\ (now - b.last) \div b.period < b.capacity - b.tokens
    THEN [b EXCEPT !.tokens = @ + (now - b.last) \div b.period, !.last = now]
    ELSE [b EXCEPT !.tokens = b.capacity, !.last = now]

RefilledBanking(b, now) ==  \* mutant: a full bucket keeps its old clock, and banks the time
    IF b.period # 0 /\ (now - b.last) \div b.period < b.capacity - b.tokens
    THEN [b EXCEPT !.tokens = @ + (now - b.last) \div b.period,
                   !.last = @ + b.period * ((now - b.last) \div b.period)]
    ELSE [b EXCEPT !.tokens = b.capacity]

\* TokenBucket::refill: one token per whole period, the remainder kept.  A bucket filled up
\* banks nothing: its clock restarts.  With a zero period it is full at every take.
Refilled(b, now) ==
    LET elapsed == IF now < b.last THEN 0 ELSE now - b.last
    IN  IF b.period # 0 /\ elapsed \div b.period < b.capacity - b.tokens
        THEN [b EXCEPT !.tokens = @ + elapsed \div b.period,
                       !.last = @ + b.period * (elapsed \div b.period)]
        ELSE [b EXCEPT !.tokens = b.capacity, !.last = IF now < @ THEN @ ELSE now]

\* `take` succeeds; a refused take leaves the caller the bucket it had.
CanTake(b, now) == Refilled(b, now).tokens > 0

Taken(b, now) == [Refilled(b, now) EXCEPT !.tokens = @ - 1]
=============================================================================
