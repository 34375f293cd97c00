--------------------------- MODULE StoreLifecycle ---------------------------
(***************************************************************************)
(* The callers of a store against its one writer thread: requests through  *)
(* a bounded queue, answers at once or after the group commit, the commit  *)
(* hook, closes, drops, failed commits and panics (RFC 0010 §6).           *)
(*                                                                         *)
(* A caller makes one call.  What it writes is itself: `pend` is what the  *)
(* writer's open transaction holds and `dur` what commits have landed.     *)
(* The data's own tables are StoreLog's.                                   *)
(***************************************************************************)
EXTENDS Naturals, Sequences, FiniteSets

CONSTANTS Callers,   \* every call of a behaviour
          None,      \* no caller
          Kinds,     \* what the callers may ask for
          QueueCap,  \* REQUEST_QUEUE
          MaxFaults  \* bound: panics, failed commits, redb errors

AllKinds == {"append",   \* Store::append: points, answered before they are committed
             "durable",  \* a catalog write, Commit::Durable
             "batched",  \* a catalog write, Commit::Batched
             "points",   \* a batched transaction that only stages points
             "read",     \* writes nothing, Answer::AfterCommit
             "peek",     \* writes nothing, Answer::AtOnce
             "abort",    \* refuses before its first write
             "misuse",   \* refuses after a write
             "close"}

ASSUME LifecycleAssumption ==
    /\ None \notin Callers /\ Kinds \subseteq AllKinds
    /\ QueueCap \in Nat \ {0} /\ MaxFaults \in Nat

VARIABLES
    life,    \* Lifecycle: "running", "closed" or "failed"
    kind,    \* what each caller asks for
    phase,   \* where each caller is
    answer,  \* what it was answered
    saw,     \* the catalog writes its transaction read
    queue,   \* the request channel
    writer,  \* where the writer thread is
    closer,  \* the caller whose Close the writer is finishing, or None
    waiters, \* Writer.waiters: answered by the next commit
    pend,    \* writes in the open transaction and the interval
    dirty,   \* Core.catalog_dirty: "clean" or "dirty"
    changes, \* Core.changes: for the hook, with the next commit
    dur,     \* writes that a commit landed
    hooked,  \* changes the hook was given
    joiner,  \* the close that took the thread handles, or None
    dropped, \* "held", or "dropped" once Store::drop sent Abandon
    faults   \* failures so far (MaxFaults)

callers == <<kind, phase, answer, saw>>
data == <<pend, dirty, changes, dur, hooked>>
vars == <<life, callers, queue, writer, closer, waiters, data, joiner, dropped, faults>>

Catalog == {"durable", "batched"}
Writes == Catalog \cup {"append", "points"}
Waits == Catalog \cup {"points"}    \* answered only after their commit
Phases == {"new", "asking", "sending", "waiting", "dropped", "joining", "done"}
WriterStates == {"idle", "settled", "forced", "landed", "unwinding", "ending", "gone"}

TypeOK ==
    /\ life \in {"running", "closed", "failed"}
    /\ kind \in [Callers -> AllKinds] /\ phase \in [Callers -> Phases]
    /\ answer \in [Callers -> {"none", "ok", "aborted", "closed", "failed"}]
    /\ saw \in [Callers -> SUBSET Callers]
    /\ queue \in Seq(Callers) /\ writer \in WriterStates
    /\ closer \in Callers \cup {None} /\ joiner \in Callers \cup {None}
    /\ waiters \in SUBSET Callers /\ pend \in SUBSET Callers /\ changes \in SUBSET Callers
    /\ dur \in SUBSET Callers /\ hooked \in SUBSET Callers
    /\ dirty \in {"clean", "dirty"} /\ dropped \in {"held", "dropped"}
    /\ faults \in Nat

Init ==
    /\ life = "running" /\ kind \in [Callers -> Kinds]
    /\ phase = [c \in Callers |-> "new"] /\ answer = [c \in Callers |-> "none"]
    /\ saw = [c \in Callers |-> {}]
    /\ queue = <<>> /\ writer = "idle" /\ closer = None /\ waiters = {}
    /\ pend = {} /\ dirty = "clean" /\ changes = {} /\ dur = {} /\ hooked = {}
    /\ joiner = None /\ dropped = "held" /\ faults = 0

Fault == faults < MaxFaults /\ faults' = faults + 1
NoFault == UNCHANGED faults

Goes(c, to) == phase' = [phase EXCEPT ![c] = to]
Returned(c) == IF kind[c] = "close" THEN "joining" ELSE "done"

\* The replies of the callers in `some` carry `a`; those in `lost` are dropped unsent.
Replies(some, a, lost) ==
    /\ answer' = [c \in Callers |-> IF c \in some THEN a ELSE answer[c]]
    /\ phase' = [c \in Callers |-> IF c \in some THEN Returned(c)
                                   ELSE IF c \in lost THEN "dropped" ELSE phase[c]]

-----------------------------------------------------------------------------
(* Lifecycle, and the callers' side of Store::ask and Store::close.        *)

Failed == life' = "failed"
ClosedNow == life' = IF life = "running" THEN "closed" ELSE life
GoneLife == IF life = "running" THEN "failed" ELSE life

\* The call begins; a close of a closed store answers Ok without asking or joining.
Begin(c) ==
    /\ phase[c] = "new" /\ dropped = "held"
    /\ IF kind[c] = "close" /\ life = "closed"
       THEN Goes(c, "done") /\ answer' = [answer EXCEPT ![c] = "ok"]
       ELSE Goes(c, "asking") /\ UNCHANGED answer
    /\ NoFault
    /\ UNCHANGED <<life, kind, saw, queue, writer, closer, waiters, data, joiner, dropped>>

\* ask, Lifecycle::check.
Check(c) ==
    /\ phase[c] = "asking"
    /\ IF life = "running" THEN Goes(c, "sending") /\ UNCHANGED answer
                           ELSE Replies({c}, life, {})
    /\ NoFault
    /\ UNCHANGED <<life, kind, saw, queue, writer, closer, waiters, data, joiner, dropped>>

\* The send waits while the channel is full and fails once the inbox is gone.
Send(c) ==
    /\ phase[c] = "sending"
    /\ IF writer = "gone" THEN Goes(c, "dropped") /\ UNCHANGED queue
       ELSE Len(queue) < QueueCap /\ queue' = Append(queue, c) /\ Goes(c, "waiting")
    /\ NoFault
    /\ UNCHANGED <<life, kind, answer, saw, writer, closer, waiters, data, joiner, dropped>>

WriterGoneFailed(c) ==  \* mutant: every dropped reply is taken for a failure
    /\ phase[c] = "dropped" /\ Failed /\ Replies({c}, "failed", {}) /\ NoFault
    /\ UNCHANGED <<kind, saw, queue, writer, closer, waiters, data, joiner, dropped>>

WriterGoneUnlatched(c) ==  \* mutant: the failure is answered and not latched
    /\ phase[c] = "dropped" /\ Replies({c}, GoneLife, {}) /\ NoFault
    /\ UNCHANGED <<life, kind, saw, queue, writer, closer, waiters, data, joiner, dropped>>

\* Lifecycle::writer_gone: a reply dropped unanswered latches a failure, unless the store closed.
WriterGone(c) ==
    /\ phase[c] = "dropped" /\ life' = GoneLife /\ Replies({c}, GoneLife, {}) /\ NoFault
    /\ UNCHANGED <<kind, saw, queue, writer, closer, waiters, data, joiner, dropped>>

\* close's join: the first one takes the handles, and returns once the writer is gone; another
\* finds none to wait for.
TakeThreads(c) ==
    /\ phase[c] = "joining" /\ joiner = None /\ joiner' = c /\ NoFault
    /\ UNCHANGED <<life, callers, queue, writer, closer, waiters, data, dropped>>

Joined(c) ==
    /\ phase[c] = "joining" /\ joiner # None /\ (joiner = c => writer = "gone")
    /\ Goes(c, "done") /\ NoFault
    /\ UNCHANGED <<life, kind, answer, saw, queue, writer, closer, waiters, data, joiner, dropped>>

\* Store::drop, which no call can be in progress for.
DropStore ==
    /\ dropped = "held" /\ \A c \in Callers : phase[c] \in {"new", "done"}
    /\ dropped' = "dropped" /\ NoFault
    /\ UNCHANGED <<life, callers, queue, writer, closer, waiters, data, joiner>>

-----------------------------------------------------------------------------
(* The writer: Writer::run.                                                *)

Next1(c) == writer = "idle" /\ queue # <<>> /\ c = Head(queue) /\ queue' = Tail(queue)
SawNow(c) == saw' = [saw EXCEPT ![c] = {w \in pend \cup dur : kind[w] \in Catalog \cup {"misuse"}}]

\* Writes that their commit answers: settle, `wrote: true`.  A staged point is no catalog write.
SettleWrite(c) ==
    /\ kind[c] \in Waits /\ waiters' = waiters \cup {c}
    /\ pend' = pend \cup {c} /\ changes' = changes \cup {c}
    /\ dirty' = IF kind[c] \in Catalog THEN "dirty" ELSE dirty
    /\ writer' = IF kind[c] = "durable" THEN "forced" ELSE "settled"
    /\ UNCHANGED <<life, phase, answer>>

ReadAtOnce(c) ==  \* mutant: an AfterCommit read is answered like an AtOnce one
    /\ kind[c] \in {"read", "peek"} /\ writer' = "settled"
    /\ Replies({c}, "ok", {}) /\ UNCHANGED <<life, waiters, pend, changes, dirty>>

\* settle, `wrote: false`: held back while an uncommitted catalog write lies beneath it.
SettleRead(c) ==
    /\ kind[c] \in {"read", "peek"} /\ writer' = "settled"
    /\ IF kind[c] = "read" /\ dirty = "dirty"
       THEN waiters' = waiters \cup {c} /\ UNCHANGED <<phase, answer>>
       ELSE Replies({c}, "ok", {}) /\ UNCHANGED waiters
    /\ UNCHANGED <<life, pend, changes, dirty>>

SettleAbort(c) ==
    /\ kind[c] = "abort" /\ writer' = "settled" /\ Replies({c}, "aborted", {})
    /\ UNCHANGED <<life, waiters, pend, changes, dirty>>

MisuseAborts(c) ==  \* mutant: a refusal after a write is answered as a refusal
    /\ kind[c] = "misuse" /\ writer' = "settled" /\ Replies({c}, "aborted", {})
    /\ pend' = pend \cup {c} /\ dirty' = "dirty" /\ UNCHANGED <<life, waiters, changes>>

\* A refusal after a write fails the store stop; its changes are dropped.
SettleMisuse(c) ==
    /\ kind[c] = "misuse" /\ writer' = "settled" /\ Failed /\ Replies({c}, "failed", {})
    /\ pend' = pend \cup {c} /\ dirty' = "dirty" /\ UNCHANGED <<waiters, changes>>

\* Store::append, answered at once.
SettleAppend(c) ==
    /\ kind[c] = "append" /\ writer' = "settled" /\ Replies({c}, "ok", {})
    /\ pend' = pend \cup {c} /\ UNCHANGED <<life, waiters, changes, dirty>>

\* One request, run in the open transaction and settled.
Handle(c) ==
    /\ Next1(c) /\ kind[c] # "close" /\ SawNow(c) /\ NoFault
    /\ \/ SettleWrite(c) \/ SettleRead(c) \/ SettleAbort(c) \/ SettleMisuse(c) \/ SettleAppend(c)
    /\ UNCHANGED <<kind, closer, dur, hooked, joiner, dropped>>

\* The transaction cannot be opened, or redb fails in it: the store is failed before the reply
\* is dropped or sent.
HandleFails(c) ==
    /\ Next1(c) /\ kind[c] # "close" /\ Fault /\ Failed /\ writer' = "settled"
    /\ Replies({c}, "failed", {}) \/ Replies({}, "failed", {c})
    /\ UNCHANGED <<kind, saw, closer, waiters, data, joiner, dropped>>

\* The request panics: its own reply is dropped while the stack unwinds.
HandlePanics(c) ==
    /\ Next1(c) /\ kind[c] # "close" /\ Fault /\ writer' = "unwinding"
    /\ Replies({}, "failed", {c})
    /\ UNCHANGED <<life, kind, saw, closer, waiters, data, joiner, dropped>>

\* A Close ends the loop: the writer goes on to its last commit.
HandleClose(c) ==
    /\ Next1(c) /\ kind[c] = "close" /\ writer' = "forced" /\ closer' = c /\ NoFault
    /\ UNCHANGED <<life, callers, waiters, data, joiner, dropped>>

\* No request within the interval, or a message of the block writer's, which may fail the store.
Tick ==
    /\ writer = "idle" /\ writer' = "settled"
    /\ \/ NoFault /\ UNCHANGED life
       \/ Fault /\ Failed
    /\ UNCHANGED <<callers, queue, closer, waiters, data, joiner, dropped>>

\* Abandon: nothing more is committed, and nobody is answered.
Abandon ==
    /\ writer = "idle" /\ queue = <<>> /\ dropped = "dropped" /\ writer' = "ending" /\ NoFault
    /\ UNCHANGED <<life, callers, queue, closer, waiters, data, joiner, dropped>>

FailStop == Failed /\ Replies(waiters, "failed", {}) /\ waiters' = {} /\ writer' = "ending"

StopOnBacklog ==  \* mutant: the loop does not check the lifecycle
    /\ writer \in {"settled", "forced"} /\ closer = None /\ life = "running" /\ Fault /\ FailStop
    /\ UNCHANGED <<kind, saw, queue, closer, data, joiner, dropped>>

\* The loop's check after a request: a failed store stops, as does a handoff backlog.
StopFailed ==
    /\ writer \in {"settled", "forced"} /\ closer = None
    /\ IF life = "running" THEN Fault ELSE NoFault
    /\ FailStop
    /\ UNCHANGED <<kind, saw, queue, closer, data, joiner, dropped>>

\* Nothing is due: back to the inbox.
NotDue ==
    /\ writer = "settled" /\ life = "running" /\ writer' = "idle" /\ NoFault
    /\ UNCHANGED <<life, callers, queue, closer, waiters, data, joiner, dropped>>

MayCommit ==
    /\ writer \in {"settled", "forced"}
    /\ closer = None => life = "running"

\* try_commit lands everything the interval holds.
CommitLands ==
    /\ MayCommit /\ writer' = "landed"
    /\ dur' = dur \cup pend /\ pend' = {} /\ NoFault
    /\ UNCHANGED <<life, callers, queue, closer, waiters, dirty, changes, hooked, joiner, dropped>>

\* mutant: the hook is given the changes of a commit that failed.
CommitFailsHooked ==
    /\ MayCommit /\ Fault /\ writer' = "ending"
    /\ \E lands \in BOOLEAN : dur' = IF lands THEN dur \cup pend ELSE dur
    /\ Failed /\ Replies(waiters \cup ({closer} \ {None}), "failed", {}) /\ waiters' = {}
    /\ closer' = None /\ hooked' = hooked \cup changes
    /\ UNCHANGED <<kind, saw, queue, pend, dirty, changes, joiner, dropped>>

\* A commit that reports a failure may have landed; a close is answered after the waiters.
CommitFails ==
    /\ MayCommit /\ Fault /\ writer' = "ending"
    /\ \E lands \in BOOLEAN : dur' = IF lands THEN dur \cup pend ELSE dur
    /\ Failed /\ Replies(waiters \cup ({closer} \ {None}), "failed", {}) /\ waiters' = {}
    /\ closer' = None /\ UNCHANGED <<kind, saw, queue, pend, dirty, changes, hooked, joiner, dropped>>

\* mutant: the waiters are answered and the hook is left for the next commit.
DeliverBeforeHook ==
    /\ writer = "landed" /\ closer = None /\ writer' = "idle"
    /\ dirty' = "clean" /\ Replies(waiters, "ok", {}) /\ waiters' = {} /\ NoFault
    /\ UNCHANGED <<life, kind, saw, queue, closer, pend, changes, dur, hooked, joiner, dropped>>

\* after_commit: the hook gets the changes, then the waiters are answered.
Deliver ==
    /\ writer = "landed" /\ closer = None /\ writer' = "idle"
    /\ hooked' = hooked \cup changes /\ changes' = {} /\ dirty' = "clean"
    /\ Replies(waiters, "ok", {}) /\ waiters' = {} /\ NoFault
    /\ UNCHANGED <<life, kind, saw, queue, closer, pend, dur, joiner, dropped>>

CloseUnflushed ==  \* mutant: the close marks the store closed before its commit
    /\ writer = "forced" /\ closer # None /\ writer' = "ending"
    /\ hooked' = hooked \cup changes /\ changes' = {} /\ dirty' = "clean"
    /\ Replies(waiters \cup {closer}, "ok", {}) /\ waiters' = {} /\ closer' = None
    /\ ClosedNow /\ NoFault /\ UNCHANGED <<kind, saw, queue, pend, dur, joiner, dropped>>

\* finish: after its commit and what follows one, the store is closed and the close answered.
DeliverClose ==
    /\ writer = "landed" /\ closer # None /\ writer' = "ending"
    /\ hooked' = hooked \cup changes /\ changes' = {} /\ dirty' = "clean"
    /\ Replies(waiters \cup {closer}, "ok", {}) /\ waiters' = {} /\ closer' = None
    /\ ClosedNow /\ NoFault /\ UNCHANGED <<kind, saw, queue, pend, dur, joiner, dropped>>

\* The sweep, the commit or the hook panics: a close in progress loses its reply at once.
Panics ==
    /\ writer \in {"settled", "forced", "landed"} /\ Fault /\ writer' = "unwinding"
    /\ closer' = None /\ Replies({}, "failed", {closer} \ {None})
    /\ UNCHANGED <<life, kind, saw, queue, waiters, data, joiner, dropped>>

\* FailOnPanic, dropped before the inbox and the waiters are.
Unwind ==
    /\ writer = "unwinding" /\ writer' = "ending" /\ Failed /\ NoFault
    /\ UNCHANGED <<callers, queue, closer, waiters, data, joiner, dropped>>

Queued == {queue[i] : i \in 1..Len(queue)}

EndKeepsInbox ==  \* mutant: the thread ends and its inbox stays, so nobody's reply is dropped
    /\ writer = "ending" /\ writer' = "gone" /\ Replies({}, "failed", waiters)
    /\ waiters' = {} /\ pend' = {} /\ changes' = {} /\ NoFault
    /\ UNCHANGED <<life, kind, saw, queue, closer, dirty, dur, hooked, joiner, dropped>>

\* run returns: the inbox and the writer go, and with them every reply left; the open
\* transaction is rolled back.
End ==
    /\ writer = "ending" /\ writer' = "gone" /\ Replies({}, "failed", Queued \cup waiters)
    /\ queue' = <<>> /\ waiters' = {} /\ pend' = {} /\ changes' = {} /\ NoFault
    /\ UNCHANGED <<life, kind, saw, closer, dirty, dur, hooked, joiner, dropped>>

Caller(c) == Begin(c) \/ Check(c) \/ Send(c) \/ WriterGone(c) \/ TakeThreads(c) \/ Joined(c)
Handles(c) == Handle(c) \/ HandleFails(c) \/ HandlePanics(c) \/ HandleClose(c)
Next ==
    \/ \E c \in Callers : Caller(c) \/ Handles(c)
    \/ DropStore \/ Tick \/ Abandon \/ StopFailed \/ NotDue \/ CommitLands \/ CommitFails
    \/ Deliver \/ DeliverClose \/ Panics \/ Unwind \/ End

Spec == Init /\ [][Next]_vars

\* The writer's loop runs, its interval elapses however busy the inbox is, and a caller's
\* thread goes on.  Nothing makes anyone begin a call or drop the store.
FairSpec ==
    /\ Spec
    /\ \A c \in Callers : /\ WF_vars(Check(c)) /\ SF_vars(Send(c)) /\ WF_vars(WriterGone(c))
                          /\ WF_vars(TakeThreads(c)) /\ WF_vars(Joined(c))
                          /\ SF_vars(Handles(c))
    /\ WF_vars(Tick) /\ SF_vars(CommitLands) /\ WF_vars(Abandon)
    /\ WF_vars(StopFailed \/ NotDue \/ CommitLands)
    /\ WF_vars(Deliver \/ DeliverClose) /\ WF_vars(Unwind) /\ WF_vars(End)

-----------------------------------------------------------------------------
(* Properties.                                                             *)

\* A transaction that wrote and is answered Ok has been committed and its change given to the
\* hook, whatever fails afterwards (Store::transact, RFC 0010 §6).
OkIsDurable ==
    \A c \in Callers : answer[c] = "ok" /\ kind[c] \in Waits => c \in dur \cap hooked

\* A read answered after the commit saw nothing that a failure can still take back.
ReadsSeeCommitted ==
    \A c \in Callers : answer[c] = "ok" /\ kind[c] = "read" => saw[c] \subseteq dur

\* A call that is told Failed finds the store failed, so every later call is told so too: the
\* dropped reply of a panic included, which comes before the writer marks the store.
FailureLatched == \A c \in Callers : answer[c] = "failed" => life = "failed"

\* A clean stop is never reported as a failure: a call told Closed, or a close told Ok, leaves
\* the store closed for good, and nobody told Closed wrote anything.
CleanStopStays ==
    \A c \in Callers :
        /\ answer[c] = "closed" => life = "closed" /\ c \notin dur
        /\ answer[c] = "ok" /\ kind[c] = "close" => life = "closed"

\* A closed store has committed every write that was answered Ok, appends included, which are
\* answered before their commit.
CloseFlushes ==
    life = "closed" =>
        \A c \in Callers : answer[c] = "ok" /\ kind[c] \in Writes => c \in dur

\* A transaction that refused is in no commit, not even one that refused after it wrote: the
\* store stops before the next commit.
RefusedNeverCommits ==
    \A c \in Callers : kind[c] = "misuse" \/ answer[c] = "aborted" => c \notin dur

\* The hook is given only what was committed.
HookAfterCommit == hooked \subseteq dur

\* No request is queued twice.
QueuedOnce == \A i, j \in 1..Len(queue) : i # j => queue[i] # queue[j]

\* Whose reply the writer holds: each of them waits, unanswered, in one place.
HeldInv ==
    /\ \A c \in Callers : answer[c] = "none" <=> phase[c] \notin {"joining", "done"}
    /\ \A c \in Queued \cup waiters : phase[c] = "waiting"
    /\ closer # None => phase[closer] = "waiting" /\ kind[closer] = "close"
    /\ Queued \cap waiters = {} /\ closer \notin Queued \cup waiters
    /\ \A c \in waiters : kind[c] \in Waits \cup {"read"}

\* What the writer may find of the lifecycle: a failure is latched by nobody else while the
\* writer could still commit, and a closed store's writer has only to end.
StageInv ==
    /\ writer \in {"idle", "landed"} \/ closer # None => life = "running"
    /\ closer # None => writer \in {"forced", "landed"}
    /\ life = "closed" => writer \in {"ending", "gone"} /\ waiters = {}
    /\ \A c \in Callers : phase[c] = "dropped" /\ life = "running"
                          => writer \in {"unwinding", "ending", "gone"}
    /\ writer = "landed" => pend = {}

\* Where a call's write is: nowhere before it is handled, then pending, then committed.
WrittenInv ==
    /\ \A c \in Callers : \/ phase[c] \in {"new", "asking", "sending"} \/ c \in Queued
                          \/ phase[c] = "dropped" /\ life = "closed"
                          \/ kind[c] \in {"abort", "read", "peek", "close"}
                          => c \notin pend \cup dur
    /\ \A c \in waiters : kind[c] \in Waits => c \in pend \cup dur /\ c \in changes \cup hooked
    /\ \A c \in waiters : saw[c] \subseteq pend \cup dur
    /\ changes \subseteq pend \cup dur
    /\ \A c \in pend : kind[c] = "misuse" => life = "failed"
    /\ dirty = "clean" => \A c \in pend : kind[c] \notin Catalog \cup {"misuse"}
    /\ \A c \in Callers : answer[c] = "ok" /\ kind[c] \in Writes
                          => c \in pend \cup dur \/ writer = "gone"
    /\ \A c \in Callers : answer[c] = "aborted" => kind[c] = "abort"

\* The inductive invariant.
LifecycleInv ==
    /\ TypeOK /\ QueuedOnce /\ HeldInv /\ StageInv /\ WrittenInv
    /\ OkIsDurable /\ ReadsSeeCommitted /\ FailureLatched /\ CleanStopStays
    /\ CloseFlushes /\ RefusedNeverCommits /\ HookAfterCommit

\* Every call returns: no reply is lost between a full queue, a commit, a close and a failure.
EveryCallReturns == \A c \in Callers : phase[c] = "asking" ~> phase[c] = "done"

\* A failed store does not linger: the writer's thread ends.
FailedStops == life = "failed" ~> writer = "gone"

\* Every answer a caller gets is true and stays true: Ok is committed and hooked, a read saw
\* nothing that can be lost, a failure and a clean stop are never taken for one another, a close
\* committed every append answered before it, and what was refused is in no commit.
AnswersTrue ==
    /\ OkIsDurable
    /\ ReadsSeeCommitted
    /\ FailureLatched
    /\ CleanStopStays
    /\ CloseFlushes
    /\ RefusedNeverCommits
    /\ HookAfterCommit

\* Nobody waits for good: every call returns, and a failed store's writer ends.
CallsReturn == EveryCallReturns /\ FailedStops
=============================================================================
