---------------------------- MODULE AgentReaders ----------------------------
(***************************************************************************)
(* Who reads what the agent publishes: the push client over its             *)
(* connections, a live stream (server-sent events or a WebSocket), the      *)
(* history rings and the GET routes.  The collector publishes snapshots and *)
(* may hang or end; the scrape loop publishes rounds and may end; the hub   *)
(* may refuse, answer anything or hang up at any moment.                    *)
(*                                                                         *)
(* A frame handed to the socket is on its way; a send over a broken link    *)
(* fails, or is lost with the link.  A send is assumed not to block.        *)
(***************************************************************************)
EXTENDS Integers, Sequences, FiniteSets, FiniteSetsExt

CONSTANTS
    StaleAfter,     \* STALENESS_BOUND
    PushTick,       \* PUSH_INTERVAL, at least 2 s
    PingEvery,      \* the ping interval
    StreamTick,     \* a live stream's interval
    RetryDelay,     \* the sleep after a refused connection
    MaxHistory,     \* MAX_HISTORY
    MaxReaderTime,  \* bound on the run's length
    MaxRounds,      \* bound on the scrape rounds
    MaxConnections  \* bound on the connections

ASSUME ReadersAssumption ==
    /\ {StaleAfter, PushTick, PingEvery, StreamTick, RetryDelay} \subseteq Nat \ {0}
    /\ MaxHistory \in Nat \ {0} /\ {MaxReaderTime, MaxRounds, MaxConnections} \subseteq Nat

VARIABLES
    clock,      \* the monotonic clock
    snapshot,   \* the published snapshot: its seq and read_at; whether the collector ended
    rings,      \* the history rings, by the seq of the snapshot each point came from
    rounds,     \* the scrape loop's watch channel: latest seq (0: none), open or closed
    push,       \* the push client: its phase, its cursor and its receiver of rounds
    link,       \* its connection: up or broken, when it opened and the ticks it owes
    stream,     \* a live stream: what its client was told last, and its next tick
    sent        \* for the properties only: the frames the connections' sockets took

readerVars == <<clock, snapshot, rings, rounds, push, link, stream, sent>>

-----------------------------------------------------------------------------
(* The snapshot's readers.                                                 *)

Fresh == clock - snapshot.readAt <= StaleAfter

DueFresh == IF Fresh THEN "send" ELSE "stale"  \* mutant

\* mutant: nothing is due once the snapshot was sent.
DueUnchangedFirst ==
    CASE push.lastSent = snapshot.seq -> "unchanged"
      [] push.lastSent # snapshot.seq /\ ~Fresh -> "stale"
      [] OTHER -> "send"

\* What a push tick owes the hub.
Due == CASE ~Fresh -> "stale"
         [] Fresh /\ push.lastSent = snapshot.seq -> "unchanged"
         [] OTHER -> "send"

EmitEveryTick == IF Fresh THEN "snapshot" ELSE "notice"  \* mutant

\* What a live stream sends on a tick.
Emit == CASE Fresh -> "snapshot"
          [] ~Fresh /\ stream.told = "live" -> "notice"
          [] OTHER -> "nothing"

\* A GET of the system routes: the snapshot, or 503.
SystemAnswer == IF Fresh THEN [status |-> 200, seq |-> snapshot.seq]
                ELSE [status |-> 503, seq |-> -1]

\* GET /api/applications: no round once the loop has ended.
ApplicationsAnswer == IF rounds.open THEN rounds.seq ELSE 0

\* The newest `max` points of a ring after one more; a history route's newest `limit`.
PushMax(ring, point, max) ==
    LET grown == Append(ring, point)
    IN SubSeq(grown, Len(grown) - Min({Len(grown), max}) + 1, Len(grown))

\* mutant: one point too many.
HistoryTailLong(ring, limit) ==
    IF Len(ring) <= limit THEN ring ELSE SubSeq(ring, Len(ring) - limit, Len(ring))

HistoryTail(ring, limit) ==
    IF Len(ring) <= limit THEN ring ELSE SubSeq(ring, Len(ring) - limit + 1, Len(ring))

-----------------------------------------------------------------------------
(* The push client's round receiver.                                       *)

\* mutant: the round sent after the handshake is not marked seen.
CurrentRoundUnseen ==
    IF push.receiving /\ rounds.open
    THEN [send |-> rounds.seq, receiving |-> TRUE, seen |-> push.seenRound]
    ELSE [send |-> 0, receiving |-> FALSE, seen |-> push.seenRound]

\* The round to send right after the handshake: a closed channel is given up, for good.
CurrentRound ==
    CASE ~push.receiving -> [send |-> 0, receiving |-> FALSE, seen |-> push.seenRound]
      [] push.receiving /\ ~rounds.open ->
            [send |-> 0, receiving |-> FALSE, seen |-> push.seenRound]
      [] OTHER -> [send |-> rounds.seq, receiving |-> TRUE, seen |-> rounds.seq]

\* Whether the pump's round arm is ready: a change, or a closed channel.
RoundReady == push.receiving /\ (rounds.seq # push.seenRound \/ ~rounds.open)

\* A change is delivered before the channel's end is noticed.
NextRound ==
    IF rounds.seq # push.seenRound
    THEN [send |-> rounds.seq, receiving |-> TRUE, seen |-> rounds.seq]
    ELSE [send |-> 0, receiving |-> FALSE, seen |-> push.seenRound]

-----------------------------------------------------------------------------
NoLink == [state |-> "none", tickAt |-> 0, pingAt |-> 0]
Frame(kind, seq) == [kind |-> kind, seq |-> seq, conn |-> push.conns]

\* A snapshot's frame; what its fields hold is SnapshotRule's.
SnapshotPayload == Frame("snapshot", snapshot.seq)

Watching == [told |-> "live", tickAt |-> 0, lastAt |-> 0, notices |-> 0]
NoStream == [Watching EXCEPT !.tickAt = MaxReaderTime + 1]

\* The readers share nothing but what is published: an agent that pushes, with applications
\* configured or not, or one that only serves a stream.
ReadersInit ==
    /\ clock = 0
    /\ snapshot = [seq |-> 0, readAt |-> 0, ended |-> FALSE]
    /\ rings = <<>>
    /\ \E on, pushes \in BOOLEAN :
          /\ rounds = [seq |-> 0, open |-> on]
          /\ push = [phase |-> IF pushes THEN "waiting" ELSE "over", lastSent |-> -1,
                     receiving |-> on, seenRound |-> 0, wakeAt |-> 0, conns |-> 0]
          /\ stream = IF pushes THEN NoStream ELSE Watching
    /\ link = NoLink
    /\ sent = <<>>

\* Timers that are due, and work that is ready, happen before time passes.
TimerDue ==
    \/ stream.tickAt <= clock
    \/ push.phase = "connected" /\ Min({link.tickAt, link.pingAt}) <= clock
    \/ push.phase = "retrying" /\ push.wakeAt <= clock

ReadersClock ==
    /\ clock < MaxReaderTime /\ ~TimerDue
    /\ clock' = clock + 1
    /\ UNCHANGED <<snapshot, rings, rounds, push, link, stream, sent>>

\* The collector publishes a reading that began now, and records it in the rings; hung, it does
\* neither.
PublishSnapshot ==
    /\ ~snapshot.ended /\ snapshot.readAt < clock
    /\ snapshot' = [snapshot EXCEPT !.seq = @ + 1, !.readAt = clock]
    /\ rings' = PushMax(rings, snapshot.seq + 1, MaxHistory)
    /\ UNCHANGED <<clock, rounds, push, link, stream, sent>>

CollectorEnds ==
    /\ ~snapshot.ended
    /\ snapshot' = [snapshot EXCEPT !.ended = TRUE]
    /\ UNCHANGED <<clock, rings, rounds, push, link, stream, sent>>

PublishRound ==
    /\ rounds.open /\ rounds.seq < MaxRounds
    /\ rounds' = [rounds EXCEPT !.seq = @ + 1]
    /\ UNCHANGED <<clock, snapshot, rings, push, link, stream, sent>>

ScrapeLoopEnds ==
    /\ rounds.open /\ rounds.seq > 0
    /\ rounds' = [rounds EXCEPT !.open = FALSE]
    /\ UNCHANGED <<clock, snapshot, rings, push, link, stream, sent>>

-----------------------------------------------------------------------------
(* The push client.                                                        *)

\* A hung collector makes no handshake; one that ended ends the pushing with it.
AwaitFresh ==
    /\ push.phase = "waiting"
    /\ \/ Fresh /\ push' = [push EXCEPT !.phase = "connecting"]
       \/ ~Fresh /\ snapshot.ended /\ push' = [push EXCEPT !.phase = "over"]
    /\ UNCHANGED <<clock, snapshot, rings, rounds, link, stream, sent>>

Retry == push' = [push EXCEPT !.phase = "retrying", !.wakeAt = clock + RetryDelay]

Connect ==
    /\ push.phase = "connecting" /\ push.conns < MaxConnections
    /\ \/ /\ push' = [push EXCEPT !.phase = "handshake", !.conns = @ + 1]
          /\ link' = [NoLink EXCEPT !.state = "up"]
       \/ Retry /\ UNCHANGED link
    /\ UNCHANGED <<clock, snapshot, rings, rounds, stream, sent>>

\* The session is lost: the client starts over at once.
Lost == /\ push' = [push EXCEPT !.phase = "waiting"]
        /\ link' = NoLink
        /\ UNCHANGED sent

\* The socket takes a frame; over a broken link it may refuse it, which ends the session.
Take(frame) == sent' = Append(sent, frame)

\* Any answer but an auth_error is taken for success, a hang-up included.  Then the latest round
\* is sent again, and the pump starts with both intervals due.
Handshake ==
    /\ push.phase = "handshake"
    /\ LET r == CurrentRound
           connected == [push EXCEPT !.phase = "connected", !.receiving = r.receiving,
                                     !.seenRound = r.seen]
       IN \/ Retry /\ link' = NoLink /\ UNCHANGED sent
          \/ /\ push' = connected
             /\ link' = [link EXCEPT !.tickAt = clock, !.pingAt = clock]
             /\ IF r.send = 0 THEN UNCHANGED sent ELSE Take(Frame("round", r.send))
          \/ /\ link.state = "broken" /\ r.send # 0
             /\ push' = [connected EXCEPT !.phase = "waiting"]
             /\ link' = NoLink /\ UNCHANGED sent
    /\ UNCHANGED <<clock, snapshot, rings, rounds, stream>>

RetryEnds ==
    /\ push.phase = "retrying" /\ push.wakeAt <= clock
    /\ push' = [push EXCEPT !.phase = "waiting"]
    /\ UNCHANGED <<clock, snapshot, rings, rounds, link, stream, sent>>

Ticked == [link EXCEPT !.tickAt = clock + PushTick]

\* The tick arm of the pump.  Only a frame the socket took is marked sent.
PumpTick ==
    /\ push.phase = "connected" /\ link.tickAt <= clock
    /\ \/ /\ Due = "send"
          /\ push' = [push EXCEPT !.lastSent = snapshot.seq]
          /\ link' = Ticked
          /\ Take(SnapshotPayload)
       \/ Due = "send" /\ link.state = "broken" /\ Lost
       \/ Due = "unchanged" /\ link' = Ticked /\ UNCHANGED <<push, sent>>
       \/ Due = "stale" /\ Lost
    /\ UNCHANGED <<clock, snapshot, rings, rounds, stream>>

PumpPing ==
    /\ push.phase = "connected" /\ link.pingAt <= clock
    /\ \/ link' = [link EXCEPT !.pingAt = clock + PingEvery] /\ UNCHANGED <<push, sent>>
       \/ link.state = "broken" /\ Lost
    /\ UNCHANGED <<clock, snapshot, rings, rounds, stream>>

PumpRound ==
    /\ push.phase = "connected" /\ RoundReady
    /\ LET r == NextRound
           next == [push EXCEPT !.receiving = r.receiving, !.seenRound = r.seen]
       IN \/ /\ push' = next /\ UNCHANGED link
             /\ IF r.send = 0 THEN UNCHANGED sent ELSE Take(Frame("round", r.send))
          \/ /\ link.state = "broken" /\ r.send # 0
             /\ push' = [next EXCEPT !.phase = "waiting"]
             /\ link' = NoLink /\ UNCHANGED sent
    /\ UNCHANGED <<clock, snapshot, rings, rounds, stream>>

\* The incoming arm notices a hub that hung up.
PumpHungUp ==
    /\ push.phase = "connected" /\ link.state = "broken"
    /\ Lost
    /\ UNCHANGED <<clock, snapshot, rings, rounds, stream>>

\* External: the hub hangs up, or the network does.
HubHangsUp ==
    /\ link.state = "up"
    /\ link' = [link EXCEPT !.state = "broken"]
    /\ UNCHANGED <<clock, snapshot, rings, rounds, push, stream, sent>>

-----------------------------------------------------------------------------
(* A live stream.                                                          *)

StreamTicks ==
    /\ stream.tickAt <= clock
    /\ stream' = [told |-> CASE Emit = "snapshot" -> "live" [] OTHER -> "stale",
                  tickAt |-> clock + StreamTick,
                  lastAt |-> IF Emit = "snapshot" THEN snapshot.readAt ELSE stream.lastAt,
                  notices |-> CASE Emit = "snapshot" -> 0
                                [] Emit = "notice" -> stream.notices + 1
                                [] OTHER -> stream.notices]
    /\ UNCHANGED <<clock, snapshot, rings, rounds, push, link, sent>>

ReadersNext ==
    \/ ReadersClock \/ PublishSnapshot \/ CollectorEnds \/ PublishRound \/ ScrapeLoopEnds
    \/ AwaitFresh \/ Connect \/ Handshake \/ RetryEnds
    \/ PumpTick \/ PumpPing \/ PumpRound \/ PumpHungUp \/ HubHangsUp
    \/ StreamTicks

ReadersSpec == ReadersInit /\ [][ReadersNext]_readerVars

-----------------------------------------------------------------------------
(* Properties.                                                             *)

ReadersTypeOK ==
    /\ clock \in 0..MaxReaderTime /\ snapshot.readAt \in 0..clock
    /\ Len(rings) <= MaxHistory
    /\ \A limit \in 0..(MaxHistory + 1) :
          HistoryTail(rings, limit)
            = [i \in 1..Min({limit, Len(rings)}) |-> snapshot.seq - Min({limit, Len(rings)}) + i]
    /\ rounds.seq \in 0..MaxRounds /\ push.seenRound \in 0..rounds.seq
    /\ push.phase \in {"waiting", "connecting", "handshake", "connected", "retrying", "over"}
    /\ push.phase \in {"handshake", "connected"} <=> link.state # "none"
    /\ SystemAnswer.seq \in -1..snapshot.seq /\ ApplicationsAnswer \in 0..rounds.seq

\* The i-th and the j-th frame taken are of one kind, and the j-th is the later.
Follows(kind, i, j) == i < j /\ sent[i].kind = kind /\ sent[j].kind = kind

\* The hub is sent each snapshot once, oldest first, over all the connections: the cursor
\* outlives a lost connection, and moves only with a frame the socket took.
SnapshotsSentOnce ==
    \A i, j \in DOMAIN sent : Follows("snapshot", i, j) => sent[i].seq < sent[j].seq

\* Rounds never go back.  One is sent twice only over two connections, where the hub can tell
\* the second by its id; and the second opens its connection.
RoundsInOrder ==
    /\ \A i, j \in DOMAIN sent :
          Follows("round", i, j) =>
             sent[i].seq < sent[j].seq \/ (sent[i].seq = sent[j].seq /\ sent[i].conn < sent[j].conn)
    /\ \A i, j \in DOMAIN sent :
          i < j /\ sent[i] = [sent[j] EXCEPT !.conn = sent[i].conn]
            => \A k \in 1..(j - 1) : sent[k].conn < sent[j].conn

\* A connection outlives the snapshot by less than a tick, however slow its handshake was: a hung
\* collector shows at the hub as an agent that went away, though nothing new is due.
StaleGoesOffline ==
    push.phase = "connected" /\ link.tickAt > clock
        => clock - snapshot.readAt < StaleAfter + PushTick

\* Nobody watching a live stream takes an old snapshot for current: within a tick of its going
\* stale the stream has said so, once, and the next fresh one follows on the same stream.
StreamNeverMisleads ==
    LET lastTick == stream.tickAt - StreamTick
    IN stream # NoStream =>
       /\ stream.told = "live" => clock - stream.lastAt <= StaleAfter + StreamTick
       /\ stream.told = "stale" => \/ lastTick - snapshot.readAt > StaleAfter
                                   \/ snapshot.readAt >= lastTick
       /\ stream.notices = IF stream.told = "stale" THEN 1 ELSE 0

\* The readers of what is published are served right while the collector hangs and connections
\* break: a snapshot is sent once per connection, rounds in order, a stale snapshot takes the
\* system offline and no stream shows an old one for current.
ReadersServed ==
    /\ ReadersTypeOK
    /\ SnapshotsSentOnce
    /\ RoundsInOrder
    /\ StaleGoesOffline
    /\ StreamNeverMisleads
=============================================================================
