------------------------ MODULE StoreLifecycleProofs ------------------------
(***************************************************************************)
(* LifecycleInv is an invariant of StoreLifecycle for any callers, kinds   *)
(* of calls, queue length and number of failures.  The queue is met as a   *)
(* sequence only in the first lemmas; everything else needs the set of     *)
(* callers in it.                                                          *)
(***************************************************************************)
EXTENDS StoreLifecycle, TLAPS

\* The callers in the queue are callers.
LEMMA QueuedType == ASSUME TypeOK PROVE Queued \subseteq Callers
  BY DEF TypeOK, Queued

\* A receive takes the head, which is nowhere else in the queue.
LEMMA ReceiveTakes ==
  ASSUME TypeOK, QueuedOnce, NEW c \in Callers, Next1(c)
  PROVE  /\ c \in Queued /\ Queued' = Queued \ {c}
         /\ QueuedOnce' /\ queue' \in Seq(Callers)
  <1> DEFINE n == Len(queue)
  <1>1. queue \in Seq(Callers) /\ queue # <<>> /\ c = queue[1] /\ queue' = Tail(queue)
    BY DEF Next1, TypeOK
  <1>2. n \in Nat /\ n > 0 /\ Len(queue') = n - 1 /\ queue' \in Seq(Callers)
    BY <1>1
  <1>3. \A i \in 1..(n - 1) : queue'[i] = queue[i + 1]
    BY <1>1, <1>2
  <1>4. QueuedOnce'
    BY <1>2, <1>3 DEF QueuedOnce
  <1>5. Queued' = Queued \ {c}
    <2>1. Queued' \subseteq Queued \ {c}
      BY <1>1, <1>2, <1>3 DEF Queued, QueuedOnce
    <2>2. ASSUME NEW i \in 1..n, queue[i] # c PROVE queue[i] \in Queued'
      <3>1. i # 1 /\ i - 1 \in 1..(n - 1)
        BY <1>1, <1>2, <2>2
      <3>2. queue'[i - 1] = queue[i]
        BY <1>2, <1>3, <3>1
      <3> QED BY <1>2, <3>1, <3>2 DEF Queued
    <2> QED BY <2>1, <2>2 DEF Queued
  <1>6. c \in Queued
    BY <1>1, <1>2 DEF Queued
  <1> QED BY <1>2, <1>4, <1>5, <1>6

\* A send adds a caller that was not in the queue.
LEMMA SendAdds ==
  ASSUME TypeOK, QueuedOnce, NEW c \in Callers, c \notin Queued, queue' = Append(queue, c)
  PROVE  /\ Queued' = Queued \cup {c}
         /\ QueuedOnce' /\ queue' \in Seq(Callers)
  <1> DEFINE n == Len(queue)
  <1>1. /\ n \in Nat /\ Len(queue') = n + 1 /\ queue' \in Seq(Callers)
        /\ queue'[n + 1] = c /\ \A i \in 1..n : queue'[i] = queue[i]
    BY DEF TypeOK
  <1>2. QueuedOnce'
    BY <1>1 DEF QueuedOnce, Queued
  <1>3. Queued' = Queued \cup {c}
    BY <1>1 DEF Queued
  <1> QED BY <1>1, <1>2, <1>3

\* A queue left alone keeps its callers.
LEMMA SameQueue ==
  ASSUME UNCHANGED queue PROVE Queued' = Queued /\ (QueuedOnce => QueuedOnce')
  BY DEF Queued, QueuedOnce

\* A queue that is dropped has nobody.
LEMMA NoQueue ==
  ASSUME queue' = <<>> PROVE Queued' = {} /\ QueuedOnce' /\ queue' \in Seq(Callers)
  <1>1. Len(queue') = 0
    OBVIOUS
  <1> QED BY <1>1 DEF Queued, QueuedOnce

-----------------------------------------------------------------------------
(* One lemma per action: it keeps every part of the invariant.             *)

\* A call that begins has written nothing.
LEMMA BeginKeeps ==
  ASSUME LifecycleInv, NEW c \in Callers, Begin(c)
  PROVE  LifecycleInv'
  <1> USE LifecycleAssumption DEF Begin, Goes, NoFault, data,
        LifecycleInv, TypeOK, Catalog, Writes, Waits
  <1>1. Queued' = Queued /\ QueuedOnce'
    BY SameQueue
  <1>2. Queued \subseteq Callers
    BY QueuedType
  <1>3. TypeOK'
    BY <1>1, <1>2 DEF Phases, WriterStates, AllKinds
  <1>4. HeldInv' /\ StageInv'
    BY <1>1, <1>2 DEF HeldInv, StageInv
  <1>5. WrittenInv'
    BY <1>1, <1>2 DEF HeldInv, StageInv, WrittenInv, OkIsDurable
  <1>6. OkIsDurable' /\ ReadsSeeCommitted' /\ HookAfterCommit'
    BY <1>1, <1>2 DEF HeldInv, StageInv, WrittenInv, OkIsDurable, ReadsSeeCommitted, HookAfterCommit
  <1>7. FailureLatched' /\ CleanStopStays' /\ CloseFlushes' /\ RefusedNeverCommits'
    BY <1>1, <1>2 DEF HeldInv, StageInv, WrittenInv, FailureLatched, CleanStopStays, CloseFlushes,
                      RefusedNeverCommits
  <1> QED BY <1>1, <1>3, <1>4, <1>5, <1>6, <1>7

\* The lifecycle's answer is the state it was read in.
LEMMA CheckKeeps ==
  ASSUME LifecycleInv, NEW c \in Callers, Check(c)
  PROVE  LifecycleInv'
  <1> USE LifecycleAssumption DEF Check, Goes, Replies, Returned, NoFault, data,
        LifecycleInv, TypeOK, Catalog, Writes, Waits
  <1>1. Queued' = Queued /\ QueuedOnce'
    BY SameQueue
  <1>2. Queued \subseteq Callers
    BY QueuedType
  <1>3. TypeOK'
    BY <1>1, <1>2 DEF Phases, WriterStates, AllKinds
  <1>4. HeldInv' /\ StageInv'
    BY <1>1, <1>2 DEF HeldInv, StageInv
  <1>5. WrittenInv'
    BY <1>1, <1>2 DEF HeldInv, StageInv, WrittenInv, OkIsDurable
  <1>6. OkIsDurable' /\ ReadsSeeCommitted' /\ HookAfterCommit'
    BY <1>1, <1>2 DEF HeldInv, StageInv, WrittenInv, OkIsDurable, ReadsSeeCommitted, HookAfterCommit
  <1>7. FailureLatched' /\ CleanStopStays' /\ CloseFlushes' /\ RefusedNeverCommits'
    BY <1>1, <1>2 DEF HeldInv, StageInv, WrittenInv, FailureLatched, CleanStopStays, CloseFlushes,
                      RefusedNeverCommits
  <1> QED BY <1>1, <1>3, <1>4, <1>5, <1>6, <1>7

\* A request enters the queue once; one sent to nobody is dropped only after the writer is gone.
LEMMA SendKeeps ==
  ASSUME LifecycleInv, NEW c \in Callers, Send(c)
  PROVE  LifecycleInv'
  <1> USE LifecycleAssumption DEF Send, Goes, NoFault, data,
        LifecycleInv, TypeOK, Catalog, Writes, Waits
  <1>1. /\ QueuedOnce' /\ queue' \in Seq(Callers)
        /\ Queued' = Queued \/ (phase'[c] = "waiting" /\ Queued' = Queued \cup {c})
    <2>1. c \notin Queued
      BY DEF HeldInv
    <2>2. CASE UNCHANGED queue
      BY <2>2, SameQueue
    <2>3. CASE queue' = Append(queue, c) /\ phase'[c] = "waiting"
      BY <2>1, <2>3, SendAdds
    <2> QED BY <2>2, <2>3
  <1>2. Queued \subseteq Callers
    BY QueuedType
  <1>3. TypeOK'
    BY <1>1, <1>2 DEF Phases, WriterStates, AllKinds
  <1>4. HeldInv' /\ StageInv'
    BY <1>1, <1>2 DEF HeldInv, StageInv
  <1>5. WrittenInv'
    BY <1>1, <1>2 DEF HeldInv, StageInv, WrittenInv, OkIsDurable
  <1>6. OkIsDurable' /\ ReadsSeeCommitted' /\ HookAfterCommit'
    BY <1>1, <1>2 DEF HeldInv, StageInv, WrittenInv, OkIsDurable, ReadsSeeCommitted, HookAfterCommit
  <1>7. FailureLatched' /\ CleanStopStays' /\ CloseFlushes' /\ RefusedNeverCommits'
    BY <1>1, <1>2 DEF HeldInv, StageInv, WrittenInv, FailureLatched, CleanStopStays, CloseFlushes,
                      RefusedNeverCommits
  <1> QED BY <1>1, <1>3, <1>4, <1>5, <1>6, <1>7

\* A dropped reply of a running store means that its writer has stopped.
LEMMA WriterGoneKeeps ==
  ASSUME LifecycleInv, NEW c \in Callers, WriterGone(c)
  PROVE  LifecycleInv'
  <1> USE LifecycleAssumption DEF WriterGone, Replies, Returned, GoneLife, NoFault, data,
        LifecycleInv, TypeOK, Catalog, Writes, Waits
  <1>1. Queued' = Queued /\ QueuedOnce'
    BY SameQueue
  <1>2. Queued \subseteq Callers
    BY QueuedType
  <1>3. TypeOK'
    BY <1>1, <1>2 DEF Phases, WriterStates, AllKinds
  <1>4. HeldInv' /\ StageInv'
    BY <1>1, <1>2 DEF HeldInv, StageInv
  <1>5. WrittenInv'
    BY <1>1, <1>2 DEF HeldInv, StageInv, WrittenInv, OkIsDurable
  <1>6. OkIsDurable' /\ ReadsSeeCommitted' /\ HookAfterCommit'
    BY <1>1, <1>2 DEF HeldInv, StageInv, WrittenInv, OkIsDurable, ReadsSeeCommitted, HookAfterCommit
  <1>7. FailureLatched' /\ CleanStopStays' /\ CloseFlushes' /\ RefusedNeverCommits'
    BY <1>1, <1>2 DEF HeldInv, StageInv, WrittenInv, FailureLatched, CleanStopStays, CloseFlushes,
                      RefusedNeverCommits
  <1> QED BY <1>1, <1>3, <1>4, <1>5, <1>6, <1>7

\* Taking the handles answers nobody.
LEMMA TakeThreadsKeeps ==
  ASSUME LifecycleInv, NEW c \in Callers, TakeThreads(c)
  PROVE  LifecycleInv'
  <1> USE LifecycleAssumption DEF TakeThreads, NoFault, callers, data,
        LifecycleInv, TypeOK, Catalog, Writes, Waits
  <1>1. Queued' = Queued /\ QueuedOnce'
    BY SameQueue
  <1>2. Queued \subseteq Callers
    BY QueuedType
  <1>3. TypeOK'
    BY <1>1, <1>2 DEF Phases, WriterStates, AllKinds
  <1>4. HeldInv' /\ StageInv'
    BY <1>1, <1>2 DEF HeldInv, StageInv
  <1>5. WrittenInv'
    BY <1>1, <1>2 DEF HeldInv, StageInv, WrittenInv, OkIsDurable
  <1>6. OkIsDurable' /\ ReadsSeeCommitted' /\ HookAfterCommit'
    BY <1>1, <1>2 DEF HeldInv, StageInv, WrittenInv, OkIsDurable, ReadsSeeCommitted, HookAfterCommit
  <1>7. FailureLatched' /\ CleanStopStays' /\ CloseFlushes' /\ RefusedNeverCommits'
    BY <1>1, <1>2 DEF HeldInv, StageInv, WrittenInv, FailureLatched, CleanStopStays, CloseFlushes,
                      RefusedNeverCommits
  <1> QED BY <1>1, <1>3, <1>4, <1>5, <1>6, <1>7

\* A close returns with the answer it had.
LEMMA JoinedKeeps ==
  ASSUME LifecycleInv, NEW c \in Callers, Joined(c)
  PROVE  LifecycleInv'
  <1> USE LifecycleAssumption DEF Joined, Goes, NoFault, data,
        LifecycleInv, TypeOK, Catalog, Writes, Waits
  <1>1. Queued' = Queued /\ QueuedOnce'
    BY SameQueue
  <1>2. Queued \subseteq Callers
    BY QueuedType
  <1>3. TypeOK'
    BY <1>1, <1>2 DEF Phases, WriterStates, AllKinds
  <1>4. HeldInv' /\ StageInv'
    BY <1>1, <1>2 DEF HeldInv, StageInv
  <1>5. WrittenInv'
    BY <1>1, <1>2 DEF HeldInv, StageInv, WrittenInv, OkIsDurable
  <1>6. OkIsDurable' /\ ReadsSeeCommitted' /\ HookAfterCommit'
    BY <1>1, <1>2 DEF HeldInv, StageInv, WrittenInv, OkIsDurable, ReadsSeeCommitted, HookAfterCommit
  <1>7. FailureLatched' /\ CleanStopStays' /\ CloseFlushes' /\ RefusedNeverCommits'
    BY <1>1, <1>2 DEF HeldInv, StageInv, WrittenInv, FailureLatched, CleanStopStays, CloseFlushes,
                      RefusedNeverCommits
  <1> QED BY <1>1, <1>3, <1>4, <1>5, <1>6, <1>7

\* A write waits for its commit with its change.
LEMMA SettleWriteKeeps ==
  ASSUME LifecycleInv, NEW c \in Callers, Handle(c), SettleWrite(c)
  PROVE  LifecycleInv'
  <1> USE LifecycleAssumption DEF SettleWrite, Handle, SawNow, Next1, NoFault,
        LifecycleInv, TypeOK, Catalog, Writes, Waits
  <1>1. c \in Queued /\ Queued' = Queued \ {c} /\ QueuedOnce' /\ queue' \in Seq(Callers)
    BY ReceiveTakes
  <1>2. Queued \subseteq Callers
    BY QueuedType
  <1>3. TypeOK'
    BY <1>1, <1>2 DEF Phases, WriterStates, AllKinds
  <1>4. HeldInv' /\ StageInv'
    BY <1>1, <1>2 DEF HeldInv, StageInv
  <1>5. WrittenInv'
    BY <1>1, <1>2 DEF HeldInv, StageInv, WrittenInv, OkIsDurable
  <1>6. OkIsDurable' /\ ReadsSeeCommitted' /\ HookAfterCommit'
    BY <1>1, <1>2 DEF HeldInv, StageInv, WrittenInv, OkIsDurable, ReadsSeeCommitted, HookAfterCommit
  <1>7. FailureLatched' /\ CleanStopStays' /\ CloseFlushes' /\ RefusedNeverCommits'
    BY <1>1, <1>2 DEF HeldInv, StageInv, WrittenInv, FailureLatched, CleanStopStays, CloseFlushes,
                      RefusedNeverCommits
  <1> QED BY <1>1, <1>3, <1>4, <1>5, <1>6, <1>7

\* A read answered at once saw only what is committed.
LEMMA SettleReadKeeps ==
  ASSUME LifecycleInv, NEW c \in Callers, Handle(c), SettleRead(c)
  PROVE  LifecycleInv'
  <1> USE LifecycleAssumption DEF SettleRead, Handle, SawNow, Replies, Returned, Next1, NoFault,
        LifecycleInv, TypeOK, Catalog, Writes, Waits
  <1>1. c \in Queued /\ Queued' = Queued \ {c} /\ QueuedOnce' /\ queue' \in Seq(Callers)
    BY ReceiveTakes
  <1>2. Queued \subseteq Callers
    BY QueuedType
  <1>3. TypeOK'
    BY <1>1, <1>2 DEF Phases, WriterStates, AllKinds
  <1>4. HeldInv' /\ StageInv'
    BY <1>1, <1>2 DEF HeldInv, StageInv
  <1>5. WrittenInv'
    BY <1>1, <1>2 DEF HeldInv, StageInv, WrittenInv, OkIsDurable
  <1>6. OkIsDurable' /\ ReadsSeeCommitted' /\ HookAfterCommit'
    BY <1>1, <1>2 DEF HeldInv, StageInv, WrittenInv, OkIsDurable, ReadsSeeCommitted, HookAfterCommit
  <1>7. FailureLatched' /\ CleanStopStays' /\ CloseFlushes' /\ RefusedNeverCommits'
    BY <1>1, <1>2 DEF HeldInv, StageInv, WrittenInv, FailureLatched, CleanStopStays, CloseFlushes,
                      RefusedNeverCommits
  <1> QED BY <1>1, <1>3, <1>4, <1>5, <1>6, <1>7

\* A refusal wrote nothing.
LEMMA SettleAbortKeeps ==
  ASSUME LifecycleInv, NEW c \in Callers, Handle(c), SettleAbort(c)
  PROVE  LifecycleInv'
  <1> USE LifecycleAssumption DEF SettleAbort, Handle, SawNow, Replies, Returned, Next1, NoFault,
        LifecycleInv, TypeOK, Catalog, Writes, Waits
  <1>1. c \in Queued /\ Queued' = Queued \ {c} /\ QueuedOnce' /\ queue' \in Seq(Callers)
    BY ReceiveTakes
  <1>2. Queued \subseteq Callers
    BY QueuedType
  <1>3. TypeOK'
    BY <1>1, <1>2 DEF Phases, WriterStates, AllKinds
  <1>4. HeldInv' /\ StageInv'
    BY <1>1, <1>2 DEF HeldInv, StageInv
  <1>5. WrittenInv'
    BY <1>1, <1>2 DEF HeldInv, StageInv, WrittenInv, OkIsDurable
  <1>6. OkIsDurable' /\ ReadsSeeCommitted' /\ HookAfterCommit'
    BY <1>1, <1>2 DEF HeldInv, StageInv, WrittenInv, OkIsDurable, ReadsSeeCommitted, HookAfterCommit
  <1>7. FailureLatched' /\ CleanStopStays' /\ CloseFlushes' /\ RefusedNeverCommits'
    BY <1>1, <1>2 DEF HeldInv, StageInv, WrittenInv, FailureLatched, CleanStopStays, CloseFlushes,
                      RefusedNeverCommits
  <1> QED BY <1>1, <1>3, <1>4, <1>5, <1>6, <1>7

\* A refusal after a write fails the store with the write pending.
LEMMA SettleMisuseKeeps ==
  ASSUME LifecycleInv, NEW c \in Callers, Handle(c), SettleMisuse(c)
  PROVE  LifecycleInv'
  <1> USE LifecycleAssumption DEF SettleMisuse, Handle, SawNow, Replies, Returned, Failed, Next1, NoFault,
        LifecycleInv, TypeOK, Catalog, Writes, Waits
  <1>1. c \in Queued /\ Queued' = Queued \ {c} /\ QueuedOnce' /\ queue' \in Seq(Callers)
    BY ReceiveTakes
  <1>2. Queued \subseteq Callers
    BY QueuedType
  <1>3. TypeOK'
    BY <1>1, <1>2 DEF Phases, WriterStates, AllKinds
  <1>4. HeldInv' /\ StageInv'
    BY <1>1, <1>2 DEF HeldInv, StageInv
  <1>5. WrittenInv'
    BY <1>1, <1>2 DEF HeldInv, StageInv, WrittenInv, OkIsDurable
  <1>6. OkIsDurable' /\ ReadsSeeCommitted' /\ HookAfterCommit'
    BY <1>1, <1>2 DEF HeldInv, StageInv, WrittenInv, OkIsDurable, ReadsSeeCommitted, HookAfterCommit
  <1>7. FailureLatched' /\ CleanStopStays' /\ CloseFlushes' /\ RefusedNeverCommits'
    BY <1>1, <1>2 DEF HeldInv, StageInv, WrittenInv, FailureLatched, CleanStopStays, CloseFlushes,
                      RefusedNeverCommits
  <1> QED BY <1>1, <1>3, <1>4, <1>5, <1>6, <1>7

\* Points that are answered are pending.
LEMMA SettleAppendKeeps ==
  ASSUME LifecycleInv, NEW c \in Callers, Handle(c), SettleAppend(c)
  PROVE  LifecycleInv'
  <1> USE LifecycleAssumption DEF SettleAppend, Handle, SawNow, Replies, Returned, Next1, NoFault,
        LifecycleInv, TypeOK, Catalog, Writes, Waits
  <1>1. c \in Queued /\ Queued' = Queued \ {c} /\ QueuedOnce' /\ queue' \in Seq(Callers)
    BY ReceiveTakes
  <1>2. Queued \subseteq Callers
    BY QueuedType
  <1>3. TypeOK'
    BY <1>1, <1>2 DEF Phases, WriterStates, AllKinds
  <1>4. HeldInv' /\ StageInv'
    BY <1>1, <1>2 DEF HeldInv, StageInv
  <1>5. WrittenInv'
    BY <1>1, <1>2 DEF HeldInv, StageInv, WrittenInv, OkIsDurable
  <1>6. OkIsDurable' /\ ReadsSeeCommitted' /\ HookAfterCommit'
    BY <1>1, <1>2 DEF HeldInv, StageInv, WrittenInv, OkIsDurable, ReadsSeeCommitted, HookAfterCommit
  <1>7. FailureLatched' /\ CleanStopStays' /\ CloseFlushes' /\ RefusedNeverCommits'
    BY <1>1, <1>2 DEF HeldInv, StageInv, WrittenInv, FailureLatched, CleanStopStays, CloseFlushes,
                      RefusedNeverCommits
  <1> QED BY <1>1, <1>3, <1>4, <1>5, <1>6, <1>7

\* A failed request fails the store before its reply.
LEMMA HandleFailsKeeps ==
  ASSUME LifecycleInv, NEW c \in Callers, HandleFails(c)
  PROVE  LifecycleInv'
  <1> USE LifecycleAssumption DEF HandleFails, Replies, Returned, Failed, Next1, Fault, data,
        LifecycleInv, TypeOK, Catalog, Writes, Waits
  <1>1. c \in Queued /\ Queued' = Queued \ {c} /\ QueuedOnce' /\ queue' \in Seq(Callers)
    BY ReceiveTakes
  <1>2. Queued \subseteq Callers
    BY QueuedType
  <1>3. TypeOK'
    BY <1>1, <1>2 DEF Phases, WriterStates, AllKinds
  <1>4. HeldInv' /\ StageInv'
    BY <1>1, <1>2 DEF HeldInv, StageInv
  <1>5. WrittenInv'
    BY <1>1, <1>2 DEF HeldInv, StageInv, WrittenInv, OkIsDurable
  <1>6. OkIsDurable' /\ ReadsSeeCommitted' /\ HookAfterCommit'
    BY <1>1, <1>2 DEF HeldInv, StageInv, WrittenInv, OkIsDurable, ReadsSeeCommitted, HookAfterCommit
  <1>7. FailureLatched' /\ CleanStopStays' /\ CloseFlushes' /\ RefusedNeverCommits'
    BY <1>1, <1>2 DEF HeldInv, StageInv, WrittenInv, FailureLatched, CleanStopStays, CloseFlushes,
                      RefusedNeverCommits
  <1> QED BY <1>1, <1>3, <1>4, <1>5, <1>6, <1>7

\* A panic drops its own reply, and the writer unwinds.
LEMMA HandlePanicsKeeps ==
  ASSUME LifecycleInv, NEW c \in Callers, HandlePanics(c)
  PROVE  LifecycleInv'
  <1> USE LifecycleAssumption DEF HandlePanics, Replies, Returned, Next1, Fault, data,
        LifecycleInv, TypeOK, Catalog, Writes, Waits
  <1>1. c \in Queued /\ Queued' = Queued \ {c} /\ QueuedOnce' /\ queue' \in Seq(Callers)
    BY ReceiveTakes
  <1>2. Queued \subseteq Callers
    BY QueuedType
  <1>3. TypeOK'
    BY <1>1, <1>2 DEF Phases, WriterStates, AllKinds
  <1>4. HeldInv' /\ StageInv'
    BY <1>1, <1>2 DEF HeldInv, StageInv
  <1>5. WrittenInv'
    BY <1>1, <1>2 DEF HeldInv, StageInv, WrittenInv, OkIsDurable
  <1>6. OkIsDurable' /\ ReadsSeeCommitted' /\ HookAfterCommit'
    BY <1>1, <1>2 DEF HeldInv, StageInv, WrittenInv, OkIsDurable, ReadsSeeCommitted, HookAfterCommit
  <1>7. FailureLatched' /\ CleanStopStays' /\ CloseFlushes' /\ RefusedNeverCommits'
    BY <1>1, <1>2 DEF HeldInv, StageInv, WrittenInv, FailureLatched, CleanStopStays, CloseFlushes,
                      RefusedNeverCommits
  <1> QED BY <1>1, <1>3, <1>4, <1>5, <1>6, <1>7

\* A close starts on a running store.
LEMMA HandleCloseKeeps ==
  ASSUME LifecycleInv, NEW c \in Callers, HandleClose(c)
  PROVE  LifecycleInv'
  <1> USE LifecycleAssumption DEF HandleClose, Next1, NoFault, callers, data,
        LifecycleInv, TypeOK, Catalog, Writes, Waits
  <1>1. c \in Queued /\ Queued' = Queued \ {c} /\ QueuedOnce' /\ queue' \in Seq(Callers)
    BY ReceiveTakes
  <1>2. Queued \subseteq Callers
    BY QueuedType
  <1>3. TypeOK'
    BY <1>1, <1>2 DEF Phases, WriterStates, AllKinds
  <1>4. HeldInv' /\ StageInv'
    BY <1>1, <1>2 DEF HeldInv, StageInv
  <1>5. WrittenInv'
    BY <1>1, <1>2 DEF HeldInv, StageInv, WrittenInv, OkIsDurable
  <1>6. OkIsDurable' /\ ReadsSeeCommitted' /\ HookAfterCommit'
    BY <1>1, <1>2 DEF HeldInv, StageInv, WrittenInv, OkIsDurable, ReadsSeeCommitted, HookAfterCommit
  <1>7. FailureLatched' /\ CleanStopStays' /\ CloseFlushes' /\ RefusedNeverCommits'
    BY <1>1, <1>2 DEF HeldInv, StageInv, WrittenInv, FailureLatched, CleanStopStays, CloseFlushes,
                      RefusedNeverCommits
  <1> QED BY <1>1, <1>3, <1>4, <1>5, <1>6, <1>7

\* A drop answers nobody.
LEMMA DropStoreKeeps ==
  ASSUME LifecycleInv, DropStore
  PROVE  LifecycleInv'
  <1> USE LifecycleAssumption DEF DropStore, NoFault, callers, data,
        LifecycleInv, TypeOK, Catalog, Writes, Waits
  <1>1. Queued' = Queued /\ QueuedOnce'
    BY SameQueue
  <1>2. Queued \subseteq Callers
    BY QueuedType
  <1>3. TypeOK'
    BY <1>1, <1>2 DEF Phases, WriterStates, AllKinds
  <1>4. HeldInv' /\ StageInv'
    BY <1>1, <1>2 DEF HeldInv, StageInv
  <1>5. WrittenInv'
    BY <1>1, <1>2 DEF HeldInv, StageInv, WrittenInv, OkIsDurable
  <1>6. OkIsDurable' /\ ReadsSeeCommitted' /\ HookAfterCommit'
    BY <1>1, <1>2 DEF HeldInv, StageInv, WrittenInv, OkIsDurable, ReadsSeeCommitted, HookAfterCommit
  <1>7. FailureLatched' /\ CleanStopStays' /\ CloseFlushes' /\ RefusedNeverCommits'
    BY <1>1, <1>2 DEF HeldInv, StageInv, WrittenInv, FailureLatched, CleanStopStays, CloseFlushes,
                      RefusedNeverCommits
  <1> QED BY <1>1, <1>3, <1>4, <1>5, <1>6, <1>7

\* A failing message fails a running store.
LEMMA TickKeeps ==
  ASSUME LifecycleInv, Tick
  PROVE  LifecycleInv'
  <1> USE LifecycleAssumption DEF Tick, Failed, Fault, NoFault, callers, data,
        LifecycleInv, TypeOK, Catalog, Writes, Waits
  <1>1. Queued' = Queued /\ QueuedOnce'
    BY SameQueue
  <1>2. Queued \subseteq Callers
    BY QueuedType
  <1>3. TypeOK'
    BY <1>1, <1>2 DEF Phases, WriterStates, AllKinds
  <1>4. HeldInv' /\ StageInv'
    BY <1>1, <1>2 DEF HeldInv, StageInv
  <1>5. WrittenInv'
    BY <1>1, <1>2 DEF HeldInv, StageInv, WrittenInv, OkIsDurable
  <1>6. OkIsDurable' /\ ReadsSeeCommitted' /\ HookAfterCommit'
    BY <1>1, <1>2 DEF HeldInv, StageInv, WrittenInv, OkIsDurable, ReadsSeeCommitted, HookAfterCommit
  <1>7. FailureLatched' /\ CleanStopStays' /\ CloseFlushes' /\ RefusedNeverCommits'
    BY <1>1, <1>2 DEF HeldInv, StageInv, WrittenInv, FailureLatched, CleanStopStays, CloseFlushes,
                      RefusedNeverCommits
  <1> QED BY <1>1, <1>3, <1>4, <1>5, <1>6, <1>7

\* Abandon commits nothing.
LEMMA AbandonKeeps ==
  ASSUME LifecycleInv, Abandon
  PROVE  LifecycleInv'
  <1> USE LifecycleAssumption DEF Abandon, NoFault, callers, data,
        LifecycleInv, TypeOK, Catalog, Writes, Waits
  <1>1. Queued' = Queued /\ QueuedOnce'
    BY SameQueue
  <1>2. Queued \subseteq Callers
    BY QueuedType
  <1>3. TypeOK'
    BY <1>1, <1>2 DEF Phases, WriterStates, AllKinds
  <1>4. HeldInv' /\ StageInv'
    BY <1>1, <1>2 DEF HeldInv, StageInv
  <1>5. WrittenInv'
    BY <1>1, <1>2 DEF HeldInv, StageInv, WrittenInv, OkIsDurable
  <1>6. OkIsDurable' /\ ReadsSeeCommitted' /\ HookAfterCommit'
    BY <1>1, <1>2 DEF HeldInv, StageInv, WrittenInv, OkIsDurable, ReadsSeeCommitted, HookAfterCommit
  <1>7. FailureLatched' /\ CleanStopStays' /\ CloseFlushes' /\ RefusedNeverCommits'
    BY <1>1, <1>2 DEF HeldInv, StageInv, WrittenInv, FailureLatched, CleanStopStays, CloseFlushes,
                      RefusedNeverCommits
  <1> QED BY <1>1, <1>3, <1>4, <1>5, <1>6, <1>7

\* The waiters of a failed store are told so.
LEMMA StopFailedKeeps ==
  ASSUME LifecycleInv, StopFailed
  PROVE  LifecycleInv'
  <1> USE LifecycleAssumption DEF StopFailed, FailStop, Failed, Replies, Returned, Fault, NoFault, data,
        LifecycleInv, TypeOK, Catalog, Writes, Waits
  <1>1. Queued' = Queued /\ QueuedOnce'
    BY SameQueue
  <1>2. Queued \subseteq Callers
    BY QueuedType
  <1>3. TypeOK'
    BY <1>1, <1>2 DEF Phases, WriterStates, AllKinds
  <1>4. HeldInv' /\ StageInv'
    BY <1>1, <1>2 DEF HeldInv, StageInv
  <1>5. WrittenInv'
    BY <1>1, <1>2 DEF HeldInv, StageInv, WrittenInv, OkIsDurable
  <1>6. OkIsDurable' /\ ReadsSeeCommitted' /\ HookAfterCommit'
    BY <1>1, <1>2 DEF HeldInv, StageInv, WrittenInv, OkIsDurable, ReadsSeeCommitted, HookAfterCommit
  <1>7. FailureLatched' /\ CleanStopStays' /\ CloseFlushes' /\ RefusedNeverCommits'
    BY <1>1, <1>2 DEF HeldInv, StageInv, WrittenInv, FailureLatched, CleanStopStays, CloseFlushes,
                      RefusedNeverCommits
  <1> QED BY <1>1, <1>3, <1>4, <1>5, <1>6, <1>7

\* The writer goes back to its inbox only while the store runs.
LEMMA NotDueKeeps ==
  ASSUME LifecycleInv, NotDue
  PROVE  LifecycleInv'
  <1> USE LifecycleAssumption DEF NotDue, NoFault, callers, data,
        LifecycleInv, TypeOK, Catalog, Writes, Waits
  <1>1. Queued' = Queued /\ QueuedOnce'
    BY SameQueue
  <1>2. Queued \subseteq Callers
    BY QueuedType
  <1>3. TypeOK'
    BY <1>1, <1>2 DEF Phases, WriterStates, AllKinds
  <1>4. HeldInv' /\ StageInv'
    BY <1>1, <1>2 DEF HeldInv, StageInv
  <1>5. WrittenInv'
    BY <1>1, <1>2 DEF HeldInv, StageInv, WrittenInv, OkIsDurable
  <1>6. OkIsDurable' /\ ReadsSeeCommitted' /\ HookAfterCommit'
    BY <1>1, <1>2 DEF HeldInv, StageInv, WrittenInv, OkIsDurable, ReadsSeeCommitted, HookAfterCommit
  <1>7. FailureLatched' /\ CleanStopStays' /\ CloseFlushes' /\ RefusedNeverCommits'
    BY <1>1, <1>2 DEF HeldInv, StageInv, WrittenInv, FailureLatched, CleanStopStays, CloseFlushes,
                      RefusedNeverCommits
  <1> QED BY <1>1, <1>3, <1>4, <1>5, <1>6, <1>7

\* No refused write is pending when a commit lands.
LEMMA CommitLandsKeeps ==
  ASSUME LifecycleInv, CommitLands
  PROVE  LifecycleInv'
  <1> USE LifecycleAssumption DEF CommitLands, MayCommit, NoFault, callers,
        LifecycleInv, TypeOK, Catalog, Writes, Waits
  <1>1. Queued' = Queued /\ QueuedOnce'
    BY SameQueue
  <1>2. Queued \subseteq Callers
    BY QueuedType
  <1>3. TypeOK'
    BY <1>1, <1>2 DEF Phases, WriterStates, AllKinds
  <1>4. HeldInv' /\ StageInv'
    BY <1>1, <1>2 DEF HeldInv, StageInv
  <1>5. WrittenInv'
    BY <1>1, <1>2 DEF HeldInv, StageInv, WrittenInv, OkIsDurable
  <1>6. OkIsDurable' /\ ReadsSeeCommitted' /\ HookAfterCommit'
    BY <1>1, <1>2 DEF HeldInv, StageInv, WrittenInv, OkIsDurable, ReadsSeeCommitted, HookAfterCommit
  <1>7. FailureLatched' /\ CleanStopStays' /\ CloseFlushes' /\ RefusedNeverCommits'
    BY <1>1, <1>2 DEF HeldInv, StageInv, WrittenInv, FailureLatched, CleanStopStays, CloseFlushes,
                      RefusedNeverCommits
  <1> QED BY <1>1, <1>3, <1>4, <1>5, <1>6, <1>7

\* A failed commit fails the store before anyone is answered.
LEMMA CommitFailsKeeps ==
  ASSUME LifecycleInv, CommitFails
  PROVE  LifecycleInv'
  <1> USE LifecycleAssumption DEF CommitFails, MayCommit, Failed, Replies, Returned, Fault,
        LifecycleInv, TypeOK, Catalog, Writes, Waits
  <1>1. Queued' = Queued /\ QueuedOnce'
    BY SameQueue
  <1>2. Queued \subseteq Callers
    BY QueuedType
  <1>3. TypeOK'
    BY <1>1, <1>2 DEF Phases, WriterStates, AllKinds
  <1>4. HeldInv' /\ StageInv'
    BY <1>1, <1>2 DEF HeldInv, StageInv
  <1>5. WrittenInv'
    BY <1>1, <1>2 DEF HeldInv, StageInv, WrittenInv, OkIsDurable
  <1>6. OkIsDurable' /\ ReadsSeeCommitted' /\ HookAfterCommit'
    BY <1>1, <1>2 DEF HeldInv, StageInv, WrittenInv, OkIsDurable, ReadsSeeCommitted, HookAfterCommit
  <1>7. FailureLatched' /\ CleanStopStays' /\ CloseFlushes' /\ RefusedNeverCommits'
    BY <1>1, <1>2 DEF HeldInv, StageInv, WrittenInv, FailureLatched, CleanStopStays, CloseFlushes,
                      RefusedNeverCommits
  <1> QED BY <1>1, <1>3, <1>4, <1>5, <1>6, <1>7

\* Those answered after a commit are in it, and so is what they saw.
LEMMA DeliverKeeps ==
  ASSUME LifecycleInv, Deliver
  PROVE  LifecycleInv'
  <1> USE LifecycleAssumption DEF Deliver, Replies, Returned, NoFault,
        LifecycleInv, TypeOK, Catalog, Writes, Waits
  <1>1. Queued' = Queued /\ QueuedOnce'
    BY SameQueue
  <1>2. Queued \subseteq Callers
    BY QueuedType
  <1>3. TypeOK'
    BY <1>1, <1>2 DEF Phases, WriterStates, AllKinds
  <1>4. HeldInv' /\ StageInv'
    BY <1>1, <1>2 DEF HeldInv, StageInv
  <1>5. WrittenInv'
    BY <1>1, <1>2 DEF HeldInv, StageInv, WrittenInv, OkIsDurable
  <1>6. OkIsDurable' /\ ReadsSeeCommitted' /\ HookAfterCommit'
    BY <1>1, <1>2 DEF HeldInv, StageInv, WrittenInv, OkIsDurable, ReadsSeeCommitted, HookAfterCommit
  <1>7. FailureLatched' /\ CleanStopStays' /\ CloseFlushes' /\ RefusedNeverCommits'
    BY <1>1, <1>2 DEF HeldInv, StageInv, WrittenInv, FailureLatched, CleanStopStays, CloseFlushes,
                      RefusedNeverCommits
  <1> QED BY <1>1, <1>3, <1>4, <1>5, <1>6, <1>7

\* A close leaves nothing pending and nobody waiting.
LEMMA DeliverCloseKeeps ==
  ASSUME LifecycleInv, DeliverClose
  PROVE  LifecycleInv'
  <1> USE LifecycleAssumption DEF DeliverClose, Replies, Returned, ClosedNow, NoFault,
        LifecycleInv, TypeOK, Catalog, Writes, Waits
  <1>1. Queued' = Queued /\ QueuedOnce'
    BY SameQueue
  <1>2. Queued \subseteq Callers
    BY QueuedType
  <1>3. TypeOK'
    BY <1>1, <1>2 DEF Phases, WriterStates, AllKinds
  <1>4. HeldInv' /\ StageInv'
    BY <1>1, <1>2 DEF HeldInv, StageInv
  <1>5. WrittenInv'
    BY <1>1, <1>2 DEF HeldInv, StageInv, WrittenInv, OkIsDurable
  <1>6. OkIsDurable' /\ ReadsSeeCommitted' /\ HookAfterCommit'
    BY <1>1, <1>2 DEF HeldInv, StageInv, WrittenInv, OkIsDurable, ReadsSeeCommitted, HookAfterCommit
  <1>7. FailureLatched' /\ CleanStopStays' /\ CloseFlushes' /\ RefusedNeverCommits'
    BY <1>1, <1>2 DEF HeldInv, StageInv, WrittenInv, FailureLatched, CleanStopStays, CloseFlushes,
                      RefusedNeverCommits
  <1> QED BY <1>1, <1>3, <1>4, <1>5, <1>6, <1>7

\* A panic between requests drops only a close's reply.
LEMMA PanicsKeeps ==
  ASSUME LifecycleInv, Panics
  PROVE  LifecycleInv'
  <1> USE LifecycleAssumption DEF Panics, Replies, Returned, Fault, data,
        LifecycleInv, TypeOK, Catalog, Writes, Waits
  <1>1. Queued' = Queued /\ QueuedOnce'
    BY SameQueue
  <1>2. Queued \subseteq Callers
    BY QueuedType
  <1>3. TypeOK'
    BY <1>1, <1>2 DEF Phases, WriterStates, AllKinds
  <1>4. HeldInv' /\ StageInv'
    BY <1>1, <1>2 DEF HeldInv, StageInv
  <1>5. WrittenInv'
    BY <1>1, <1>2 DEF HeldInv, StageInv, WrittenInv, OkIsDurable
  <1>6. OkIsDurable' /\ ReadsSeeCommitted' /\ HookAfterCommit'
    BY <1>1, <1>2 DEF HeldInv, StageInv, WrittenInv, OkIsDurable, ReadsSeeCommitted, HookAfterCommit
  <1>7. FailureLatched' /\ CleanStopStays' /\ CloseFlushes' /\ RefusedNeverCommits'
    BY <1>1, <1>2 DEF HeldInv, StageInv, WrittenInv, FailureLatched, CleanStopStays, CloseFlushes,
                      RefusedNeverCommits
  <1> QED BY <1>1, <1>3, <1>4, <1>5, <1>6, <1>7

\* The guard fails the store.
LEMMA UnwindKeeps ==
  ASSUME LifecycleInv, Unwind
  PROVE  LifecycleInv'
  <1> USE LifecycleAssumption DEF Unwind, Failed, NoFault, callers, data,
        LifecycleInv, TypeOK, Catalog, Writes, Waits
  <1>1. Queued' = Queued /\ QueuedOnce'
    BY SameQueue
  <1>2. Queued \subseteq Callers
    BY QueuedType
  <1>3. TypeOK'
    BY <1>1, <1>2 DEF Phases, WriterStates, AllKinds
  <1>4. HeldInv' /\ StageInv'
    BY <1>1, <1>2 DEF HeldInv, StageInv
  <1>5. WrittenInv'
    BY <1>1, <1>2 DEF HeldInv, StageInv, WrittenInv, OkIsDurable
  <1>6. OkIsDurable' /\ ReadsSeeCommitted' /\ HookAfterCommit'
    BY <1>1, <1>2 DEF HeldInv, StageInv, WrittenInv, OkIsDurable, ReadsSeeCommitted, HookAfterCommit
  <1>7. FailureLatched' /\ CleanStopStays' /\ CloseFlushes' /\ RefusedNeverCommits'
    BY <1>1, <1>2 DEF HeldInv, StageInv, WrittenInv, FailureLatched, CleanStopStays, CloseFlushes,
                      RefusedNeverCommits
  <1> QED BY <1>1, <1>3, <1>4, <1>5, <1>6, <1>7

\* Replies dropped at the end of a closed store are of calls never handled.
LEMMA EndKeeps ==
  ASSUME LifecycleInv, End
  PROVE  LifecycleInv'
  <1> USE LifecycleAssumption DEF End, Replies, Returned, NoFault,
        LifecycleInv, TypeOK, Catalog, Writes, Waits
  <1>1. Queued' = {} /\ QueuedOnce' /\ queue' \in Seq(Callers)
    BY NoQueue
  <1>2. Queued \subseteq Callers
    BY QueuedType
  <1>3. TypeOK'
    BY <1>1, <1>2 DEF Phases, WriterStates, AllKinds
  <1>4. HeldInv' /\ StageInv'
    BY <1>1, <1>2 DEF HeldInv, StageInv
  <1>5. WrittenInv'
    BY <1>1, <1>2 DEF HeldInv, StageInv, WrittenInv, OkIsDurable
  <1>6. OkIsDurable' /\ ReadsSeeCommitted' /\ HookAfterCommit'
    BY <1>1, <1>2 DEF HeldInv, StageInv, WrittenInv, OkIsDurable, ReadsSeeCommitted, HookAfterCommit
  <1>7. FailureLatched' /\ CleanStopStays' /\ CloseFlushes' /\ RefusedNeverCommits'
    BY <1>1, <1>2 DEF HeldInv, StageInv, WrittenInv, FailureLatched, CleanStopStays, CloseFlushes,
                      RefusedNeverCommits
  <1> QED BY <1>1, <1>3, <1>4, <1>5, <1>6, <1>7

-----------------------------------------------------------------------------
\* The whole invariant: whoever's reply the writer holds waits in one place, a write is nowhere,
\* pending or committed, and every answer stays true (Store, Lifecycle, Writer).
THEOREM LifecycleHolds == Spec => []LifecycleInv
  <1>1. Init => LifecycleInv
    <2> SUFFICES ASSUME Init PROVE LifecycleInv
      OBVIOUS
    <2>1. Queued = {} /\ QueuedOnce /\ queue \in Seq(Callers)
      BY DEF Init, Queued, QueuedOnce
    <2> QED
      BY <2>1, LifecycleAssumption
      DEF Init, LifecycleInv, TypeOK, Phases, WriterStates, HeldInv, StageInv, WrittenInv,
          OkIsDurable, ReadsSeeCommitted, FailureLatched, CleanStopStays, CloseFlushes, RefusedNeverCommits, HookAfterCommit
  <1>2. LifecycleInv /\ [Next]_vars => LifecycleInv'
    <2> SUFFICES ASSUME LifecycleInv, [Next]_vars PROVE LifecycleInv'
      OBVIOUS
    <2>1. CASE UNCHANGED vars
      <3>1. UNCHANGED queue
        BY <2>1 DEF vars
      <3>2. Queued' = Queued /\ QueuedOnce'
        BY <3>1, SameQueue DEF LifecycleInv
      <3> QED
        BY <2>1, <3>2
        DEF vars, callers, data, LifecycleInv, TypeOK, HeldInv, StageInv, WrittenInv,
            OkIsDurable, ReadsSeeCommitted, FailureLatched, CleanStopStays, CloseFlushes, RefusedNeverCommits, HookAfterCommit
    <2>2. ASSUME NEW c \in Callers, Caller(c) PROVE LifecycleInv'
      BY <2>2, BeginKeeps, CheckKeeps, SendKeeps, WriterGoneKeeps, TakeThreadsKeeps, JoinedKeeps
      DEF Caller
    <2>3. ASSUME NEW c \in Callers, Handle(c) PROVE LifecycleInv'
      BY <2>3, SettleWriteKeeps, SettleReadKeeps, SettleAbortKeeps, SettleMisuseKeeps,
         SettleAppendKeeps DEF Handle
    <2>4. ASSUME NEW c \in Callers, Handles(c) PROVE LifecycleInv'
      BY <2>3, <2>4, HandleFailsKeeps, HandlePanicsKeeps, HandleCloseKeeps DEF Handles
    <2>5. CASE DropStore \/ Tick \/ Abandon \/ StopFailed \/ NotDue
      BY <2>5, DropStoreKeeps, TickKeeps, AbandonKeeps, StopFailedKeeps, NotDueKeeps
    <2>6. CASE CommitLands \/ CommitFails \/ Deliver \/ DeliverClose
      BY <2>6, CommitLandsKeeps, CommitFailsKeeps, DeliverKeeps, DeliverCloseKeeps
    <2>7. CASE Panics \/ Unwind \/ End
      BY <2>7, PanicsKeeps, UnwindKeeps, EndKeeps
    <2> QED BY <2>1, <2>2, <2>4, <2>5, <2>6, <2>7 DEF Next
  <1> QED BY <1>1, <1>2, PTL DEF Spec

\* A transaction answered Ok is committed and given to the hook, for good.
THEOREM OkAlwaysDurable == Spec => []OkIsDurable
  <1>1. LifecycleInv => OkIsDurable
    BY DEF LifecycleInv
  <1> QED BY <1>1, LifecycleHolds, PTL

\* An AfterCommit read rests on committed writes only.
THEOREM ReadsAlwaysCommitted == Spec => []ReadsSeeCommitted
  <1>1. LifecycleInv => ReadsSeeCommitted
    BY DEF LifecycleInv
  <1> QED BY <1>1, LifecycleHolds, PTL

\* Failure and clean stop are never mistaken for one another, whoever sees them first.
THEOREM StopsNeverConfused == Spec => [](FailureLatched /\ CleanStopStays)
  <1>1. LifecycleInv => FailureLatched /\ CleanStopStays
    BY DEF LifecycleInv
  <1> QED BY <1>1, LifecycleHolds, PTL

\* A closed store has everything it answered, appends included.
THEOREM CloseAlwaysFlushes == Spec => []CloseFlushes
  <1>1. LifecycleInv => CloseFlushes
    BY DEF LifecycleInv
  <1> QED BY <1>1, LifecycleHolds, PTL

\* No refused transaction is ever in a commit.
THEOREM RefusedAlwaysOut == Spec => []RefusedNeverCommits
  <1>1. LifecycleInv => RefusedNeverCommits
    BY DEF LifecycleInv
  <1> QED BY <1>1, LifecycleHolds, PTL

\* Every answer of the store is true and stays true.
THEOREM AnswersAlwaysTrue == Spec => []AnswersTrue
  <1>1. LifecycleInv => AnswersTrue
    BY DEF LifecycleInv, AnswersTrue
  <1> QED BY <1>1, LifecycleHolds, PTL
=============================================================================
