---------------------------- MODULE RoundIntake -----------------------------
(***************************************************************************)
(* The scrape rounds of one system as the hub takes them in (RFC 0009 §8):  *)
(* from push connections, each under its own pace and decode budget, and    *)
(* from overlapping polls, which share the system's poll pace.  Admission   *)
(* and store are one step under the database mutex; deleting the system     *)
(* removes its row first and its live applications after.                   *)
(*                                                                         *)
(* A round is its id and its content digest.  Nothing the hub decides       *)
(* depends on the order of ids, so a source may send any round.             *)
(***************************************************************************)
EXTENDS Integers, Sequences, FiniteSets, Functions, TokenBucket

CONSTANTS RoundConns,    \* the push connections of a behaviour
          PollTasks,     \* the polls that may overlap
          RoundSet,      \* the rounds sources send
          RecentRounds,  \* RECENT_ROUNDS
          PaceBurst, RoundSpacing,   \* PACE: its burst, and its period in ticks
          DecodeBurst, DecodeRefill, \* the decode budget's
          MaxIntakeTime,             \* bound: ticks of the clock
          MaxStored,                 \* bound: rounds in the history
          MaxDeleted                 \* bound: deletes of the system

\* The bursts and RECENT_ROUNDS are not zero, nor is PACE's period; a round is none of the marks.
ASSUME RoundAssumption ==
    /\ RecentRounds \in Nat \ {0} /\ PaceBurst \in Nat \ {0} /\ RoundSpacing \in Nat \ {0}
    /\ DecodeBurst \in Nat \ {0} /\ DecodeRefill \in Nat
    /\ MaxIntakeTime \in Nat /\ MaxStored \in Nat /\ MaxDeleted \in Nat
    /\ RoundSet \cap {"none", "idle", "fetching"} = {} /\ "poll" \notin RoundConns

VARIABLES ticks,       \* the hub's clock
          registered,  \* the system's row exists
          points,      \* the rounds in the metrics table, each with its time, its source and
                       \* the life of the live entry that admitted it
          entry,       \* the live_applications entry: the shown round, recent, poll_pace
          life,        \* history: how often the entry was removed
          rconns,      \* ConnectionState of each connection, with the round its unit stores
          polling,     \* where each poll's task is
          deleting     \* deletes whose entry is still to be removed

roundVars == <<ticks, registered, points, entry, life, rconns, polling, deleting>>

NoRound == "none"
NoPace == Full(0, 0, 0)   \* no bucket
NoEntry == [held |-> FALSE, shown |-> NoRound, recent |-> <<>>, pace |-> NoPace, warned |-> FALSE]
NotYet == [open |-> FALSE, used |-> FALSE]
Closed == [open |-> FALSE, used |-> TRUE]

Pace(now) == Full(PaceBurst, RoundSpacing, now)
OpenConn(now) == [open |-> TRUE, budget |-> Full(DecodeBurst, DecodeRefill, now),
                  pace |-> Pace(now), work |-> NoRound]

RoundInit ==
    /\ ticks = 0 /\ registered = TRUE /\ points = <<>> /\ entry = NoEntry /\ life = 0
    /\ rconns = [c \in RoundConns |-> NotYet] /\ polling = [p \in PollTasks |-> "idle"]
    /\ deleting = 0

IntakeTick ==
    /\ ticks < MaxIntakeTime /\ ticks' = ticks + 1
    /\ UNCHANGED <<registered, points, entry, life, rconns, polling, deleting>>

-----------------------------------------------------------------------------
(* One admission and store, under the database mutex.                      *)

AdmitPaced(r, pace) ==  \* mutant: the pace is the only judge
    IF CanTake(pace, ticks) THEN "accept" ELSE "too_soon"

\* admit: an exact re-send of a round accepted recently, else the source's pace decides.
Admit(r, pace) ==
    IF r \in Range(entry.recent) THEN "duplicate"
    ELSE IF CanTake(pace, ticks) THEN "accept" ELSE "too_soon"

RememberAll(recent, r) == Append(recent, r)  \* mutant: nothing is ever forgotten

\* RecentRounds::remember: the oldest goes past RECENT_ROUNDS.
Remember(recent, r) ==
    Append(IF Len(recent) = RecentRounds THEN Tail(recent) ELSE recent, r)

\* hold: the entry, made if there is none, remembers the round and shows it.
Hold(r) == [entry EXCEPT !.held = TRUE, !.recent = Remember(@, r), !.shown = r]

\* application_points at received_at: the round's points in the history.
Points(r, source) ==
    Append(points, [round |-> r, at |-> ticks, source |-> source, life |-> life])

-----------------------------------------------------------------------------
(* Push connections.                                                       *)

\* A handshake registers the id when it is new; the connection starts with a full budget and
\* a full pace.
OpenConnection(c) ==
    /\ rconns[c] = NotYet /\ registered' = TRUE
    /\ rconns' = [rconns EXCEPT ![c] = OpenConn(ticks)]
    /\ UNCHANGED <<ticks, points, entry, life, polling, deleting>>

AtRest(c) == rconns[c].open /\ rconns[c].work = NoRound

\* ingest: a binary message spends a token before it is decoded.  A round goes to the blocking
\* pool with a copy of the connection's pace; a message that is neither a snapshot nor a round
\* the hub accepts is counted, and nothing else.
Ingest(c) ==
    /\ AtRest(c) /\ CanTake(rconns[c].budget, ticks)
    /\ \E r \in RoundSet \cup {NoRound} :
          rconns' = [rconns EXCEPT ![c].budget = Taken(@, ticks), ![c].work = r]
    /\ UNCHANGED <<ticks, registered, points, entry, life, polling, deleting>>

\* Out of budget: the message is dropped undecoded, and the connection goes on.
DropMessage(c) == AtRest(c) /\ ~CanTake(rconns[c].budget, ticks) /\ UNCHANGED roundVars

StorePushedUnpaced(c) ==  \* mutant: the spent pace is not written back
    LET r == rconns[c].work
    IN  /\ rconns[c].open /\ r # NoRound /\ Len(points) < MaxStored
        /\ IF registered /\ Admit(r, rconns[c].pace) = "accept"
           THEN points' = Points(r, c) /\ entry' = Hold(r)
           ELSE UNCHANGED <<points, entry>>
        /\ rconns' = [rconns EXCEPT ![c].work = NoRound]
        /\ UNCHANGED <<ticks, registered, life, polling, deleting>>

\* ingest_round's unit: without a row the connection ends; an accepted round is stored, held
\* and shown, and its spent pace becomes the connection's.
StorePushed(c) ==
    LET r == rconns[c].work
    IN  /\ rconns[c].open /\ r # NoRound /\ Len(points) < MaxStored
        /\ IF ~registered
           THEN rconns' = [rconns EXCEPT ![c] = Closed] /\ UNCHANGED <<points, entry>>
           ELSE IF Admit(r, rconns[c].pace) = "accept"
           THEN /\ points' = Points(r, c) /\ entry' = Hold(r)
                /\ rconns' = [rconns EXCEPT ![c].work = NoRound, ![c].pace = Taken(@, ticks)]
           ELSE rconns' = [rconns EXCEPT ![c].work = NoRound] /\ UNCHANGED <<points, entry>>
        /\ UNCHANGED <<ticks, registered, life, polling, deleting>>

\* The store fails (logged, the pace as it was), or its unit panics and ends the connection.
StorePushedFails(c) ==
    /\ rconns[c].open /\ rconns[c].work # NoRound
    /\ \/ rconns' = [rconns EXCEPT ![c].work = NoRound]
       \/ rconns' = [rconns EXCEPT ![c] = Closed]
    /\ UNCHANGED <<ticks, registered, points, entry, life, polling, deleting>>

\* The socket ends.  The shown round and the recent ones stay.
CloseConnection(c) ==
    /\ AtRest(c) /\ rconns' = [rconns EXCEPT ![c] = Closed]
    /\ UNCHANGED <<ticks, registered, points, entry, life, polling, deleting>>

-----------------------------------------------------------------------------
(* The applications poll, after a stored system poll.                      *)

StartPoll(p) ==
    /\ polling[p] = "idle" /\ registered /\ polling' = [polling EXCEPT ![p] = "fetching"]
    /\ UNCHANGED <<ticks, registered, points, entry, life, rconns, deleting>>

\* 404, or no round: the shown round is forgotten, the recent ones and the poll pace stay.
PollForgets(p) ==
    /\ polling[p] = "fetching" /\ polling' = [polling EXCEPT ![p] = "idle"]
    /\ entry' = [entry EXCEPT !.shown = NoRound]
    /\ UNCHANGED <<ticks, registered, points, life, rconns, deleting>>

\* A round the hub refuses: the entry, made if there is none, keeps when it last warned.
PollRefused(p) ==
    /\ polling[p] = "fetching" /\ polling' = [polling EXCEPT ![p] = "idle"]
    /\ entry' = [entry EXCEPT !.held = TRUE, !.warned = TRUE]
    /\ UNCHANGED <<ticks, registered, points, life, rconns, deleting>>

\* No answer, another status, a body past its cap or bad JSON: nothing changes.
PollUnusable(p) ==
    /\ polling[p] = "fetching" /\ polling' = [polling EXCEPT ![p] = "idle"]
    /\ UNCHANGED <<ticks, registered, points, entry, life, rconns, deleting>>

PollAnswers(p) ==
    /\ polling[p] = "fetching" /\ \E r \in RoundSet : polling' = [polling EXCEPT ![p] = r]
    /\ UNCHANGED <<ticks, registered, points, entry, life, rconns, deleting>>

\* The poll pace, read in the entry; a full bucket until the first stored round.
PollPace == IF entry.pace = NoPace THEN Pace(ticks) ELSE entry.pace

\* mutant: the round is remembered and its pace spent, and the round shown is kept.
StorePolledUnshown(p) ==
    LET r == polling[p]
    IN  /\ r \in RoundSet /\ Len(points) < MaxStored /\ polling' = [polling EXCEPT ![p] = "idle"]
        /\ IF registered /\ Admit(r, PollPace) = "accept"
           THEN /\ points' = Points(r, "poll")
                /\ entry' = [Hold(r) EXCEPT !.pace = Taken(PollPace, ticks),
                             !.shown = IF entry.shown = NoRound THEN r ELSE entry.shown]
           ELSE UNCHANGED <<points, entry>>
        /\ UNCHANGED <<ticks, registered, life, rconns, deleting>>

\* store_polled_round: the same step, the pace read and spent in the entry.
StorePolled(p) ==
    LET r == polling[p]
    IN  /\ r \in RoundSet /\ Len(points) < MaxStored /\ polling' = [polling EXCEPT ![p] = "idle"]
        /\ IF registered /\ Admit(r, PollPace) = "accept"
           THEN /\ points' = Points(r, "poll")
                /\ entry' = [Hold(r) EXCEPT !.pace = Taken(PollPace, ticks)]
           ELSE UNCHANGED <<points, entry>>
        /\ UNCHANGED <<ticks, registered, life, rconns, deleting>>

-----------------------------------------------------------------------------
(* DELETE: the row and its history in one transaction, the entry after.    *)

RemoveSystem ==
    /\ life + deleting < MaxDeleted
    /\ registered' = FALSE /\ points' = <<>> /\ deleting' = deleting + 1
    /\ UNCHANGED <<ticks, entry, life, rconns, polling>>

\* mutant: the live applications stay.
KeepApplications ==
    /\ deleting > 0 /\ deleting' = deleting - 1 /\ life' = life + 1
    /\ UNCHANGED <<ticks, registered, points, entry, rconns, polling>>

RemoveApplications ==
    /\ deleting > 0 /\ deleting' = deleting - 1
    /\ entry' = NoEntry /\ life' = life + 1
    /\ UNCHANGED <<ticks, registered, points, rconns, polling>>

RoundNext ==
    \/ IntakeTick \/ RemoveSystem \/ RemoveApplications
    \/ \E c \in RoundConns :
          \/ OpenConnection(c) \/ Ingest(c) \/ DropMessage(c)
          \/ StorePushed(c) \/ StorePushedFails(c) \/ CloseConnection(c)
    \/ \E p \in PollTasks :
          \/ StartPoll(p) \/ PollForgets(p) \/ PollRefused(p) \/ PollUnusable(p)
          \/ PollAnswers(p) \/ StorePolled(p)

RoundSpec == RoundInit /\ [][RoundNext]_roundVars

-----------------------------------------------------------------------------
Buckets(burst) == [capacity : {burst}, period : Nat, tokens : 0..burst, last : Nat]

\* The hub's round state has its types; a full ring of recent rounds never grows.
RoundTypeOK ==
    /\ ticks \in 0..MaxIntakeTime /\ registered \in BOOLEAN /\ deleting \in Nat /\ life \in Nat
    /\ entry.held \in BOOLEAN /\ entry.shown \in RoundSet \cup {NoRound}
    /\ entry.recent \in Seq(RoundSet) /\ Len(entry.recent) <= RecentRounds
    /\ entry.pace \in Buckets(PaceBurst) \cup {NoPace}
    /\ \A c \in RoundConns : rconns[c].open =>
          /\ rconns[c].budget \in Buckets(DecodeBurst) /\ rconns[c].pace \in Buckets(PaceBurst)
          /\ rconns[c].work \in RoundSet \cup {NoRound}
    /\ polling \in [PollTasks -> RoundSet \cup {"idle", "fetching"}]

\* An exact re-send is stored again only once RECENT_ROUNDS other rounds were stored since,
\* whichever sources the two came from, pushed or polled (`admit`, `RecentRounds`).
RoundStoredOnce ==
    \A i, j \in DOMAIN points :
        (i < j /\ points[i].round = points[j].round /\ points[i].life = points[j].life)
            => j - i > RecentRounds

\* The points of one source: a push connection, or the polls of one life of the entry.
Alike(p, q) == q.source = p.source /\ (q.source = "poll" => q.life = p.life)
Among(i, j) == {k \in i..j : Alike(points[i], points[k])}

\* In any stretch of time a source stores at most its burst and one round per spacing: a push
\* connection from its own pace, and the poller of a system however its polls overlap
\* (`store_polled_round` reads and spends the pace under the mutex).
SourcesPaced ==
    \A i, j \in DOMAIN points : i <= j =>
        Cardinality(Among(i, j)) <= PaceBurst + (points[j].at - points[i].at) \div RoundSpacing

\* The round shown is the one stored last: a poll, a push or a re-send never leaves an older
\* one on show.
ShownIsNewest ==
    deleting = 0 /\ entry.shown # NoRound => points # <<>> /\ entry.shown = points[Len(points)].round

\* A deleted system keeps no points and, once its delete is through, no round: a source that
\* raced the delete found it gone (api.rs, delete_system).  Only a refused poll's warning time
\* may stay.
DeletedForgotten ==
    ~registered => /\ points = <<>>
                   /\ deleting = 0 => entry.shown = NoRound /\ entry.recent = <<>>
                                      /\ entry.pace = NoPace

\* A round that comes by push and by poll, again or late is stored once and within its source's
\* pace, the newest is shown, and a deleted system is forgotten.
RoundsOnce ==
    /\ RoundTypeOK
    /\ RoundStoredOnce
    /\ SourcesPaced
    /\ ShownIsNewest
    /\ DeletedForgotten
=============================================================================
