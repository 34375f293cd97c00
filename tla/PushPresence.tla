---------------------------- MODULE PushPresence ----------------------------
(***************************************************************************)
(* One system's row in the hub's registry, its live metrics, and everyone  *)
(* who writes its status: the push connections that present its id, the    *)
(* disconnection sweep, the poller, the operator's PUT and DELETE, and a   *)
(* restart (RFC 0016, RFC 0007 §4).  Systems share nothing but the counter *)
(* of connection numbers, so one is enough.                                *)
(*                                                                         *)
(* A connection is its own number: every handshake is a new member of      *)
(* Conns, as every `accept` takes a new number.  A store is one step: it   *)
(* runs under the database mutex, live metrics included.  A claim is       *)
(* another: it takes the presence lock and releases it before the store.   *)
(***************************************************************************)
EXTENDS Naturals, FiniteSets

CONSTANTS Conns,     \* every push connection of a behaviour
          None,      \* no connection
          MaxPolls,  \* bound: polls in flight at once
          MaxDeletes,\* bound: deletes between their row and their eviction
          MaxFaults  \* bound: failed writes, panics and restarts

ASSUME PresenceAssumption ==
    /\ None \notin Conns
    /\ MaxPolls \in Nat /\ MaxDeletes \in Nat /\ MaxFaults \in Nat

VARIABLES
    url,      \* the row's source, "none" without a row
    status,   \* the row's status
    live,     \* AppState.live_metrics has an entry
    conn,     \* where each connection's task is
    leased,   \* the connections whose task was given a ConnectionLease
    current,  \* PushPresence.current: the entry's connection and its `claimed`
    locked,   \* the connection whose end holds the presence lock, or None
    graceOver,\* the hub has been up for RECONNECT_GRACE
    sweeping, \* the status the sweep's pass has read, "early" in the grace, or "idle"
    listed,   \* the poller's last read lists the system
    polls,    \* polls of the system in flight
    deletes,  \* deletes whose row is gone and whose eviction is to come
    faults,   \* failures so far (MaxFaults)
    stored    \* history: connections whose last claimed snapshot is what the row shows

row == <<url, status, live>>
presence == <<conn, leased, current, locked>>
others == <<graceOver, sweeping, listed, polls, deletes>>
vars == <<row, presence, others, faults, stored>>

Urls == {"push", "poll", "mail"}
Statuses == {"online", "offline", "unknown"}
Running == {"open", "storing", "ending"}   \* the task holds its lease
NoEntry == [conn |-> None, claimed |-> FALSE]

TypeOK ==
    /\ url \in Urls \cup {"none"} /\ status \in Statuses /\ live \in BOOLEAN
    /\ conn \in [Conns -> Running \cup {"new", "evicting", "closed", "panicked"}]
    /\ leased \in SUBSET Conns /\ stored \in SUBSET Conns
    /\ current \in [conn : Conns \cup {None}, claimed : BOOLEAN]
    /\ locked \in Conns \cup {None}
    /\ graceOver \in BOOLEAN /\ listed \in BOOLEAN
    /\ sweeping \in Statuses \cup {"idle", "early"}
    /\ polls \in Nat /\ deletes \in Nat /\ faults \in Nat

\* A hub that has just started, on any row: push systems were reset, unless that failed.
Init ==
    /\ url \in Urls \cup {"none"} /\ status \in Statuses
    /\ url = "none" => status = "unknown"
    /\ live = FALSE
    /\ conn = [c \in Conns |-> "new"] /\ leased = {}
    /\ current = NoEntry /\ locked = None
    /\ graceOver = FALSE /\ sweeping = "idle"
    /\ listed = FALSE /\ polls = 0 /\ deletes = 0
    /\ faults = 0 /\ stored = {}

Fault == faults < MaxFaults /\ faults' = faults + 1
NoFault == UNCHANGED faults

\* Current::is_live: the task still holds the lease the entry has a Weak of.
IsLive(entry) == entry.conn # None /\ conn[entry.conn] \in Running

-----------------------------------------------------------------------------
(* The push connections.                                                   *)

AcceptTaking(c) == [conn |-> c, claimed |-> FALSE]  \* mutant

\* PushPresence::accept: current only when the system has no live current connection.
Accept(c) == IF IsLive(current) THEN current ELSE [conn |-> c, claimed |-> FALSE]

\* register_and_accept, under the presence lock: a new id is registered as a push system, and
\* only a push system's connection gets a lease.
Register(c) ==
    /\ conn[c] = "new" /\ locked = None /\ url # "mail"
    /\ url' = IF url = "none" THEN "push" ELSE url
    /\ status' = IF url = "none" THEN "unknown" ELSE status
    /\ conn' = [conn EXCEPT ![c] = "open"]
    /\ IF url = "poll" THEN UNCHANGED <<leased, current>>
                       ELSE leased' = leased \cup {c} /\ current' = Accept(c)
    /\ NoFault /\ UNCHANGED <<live, locked, others, stored>>

\* A mail system's id is refused, and so is any id while the registry fails.
RegisterRefused(c) ==
    /\ conn[c] = "new" /\ locked = None
    /\ IF url = "mail" THEN NoFault ELSE Fault
    /\ conn' = [conn EXCEPT ![c] = "closed"]
    /\ UNCHANGED <<row, leased, current, locked, others, stored>>

\* mutant: a connection without a lease claims too.
ClaimUnleased(c) ==
    /\ conn[c] = "open" /\ locked = None
    /\ conn' = [conn EXCEPT ![c] = "storing"]
    /\ current' = [conn |-> c, claimed |-> TRUE] /\ stored' = stored \ {c}
    /\ NoFault /\ UNCHANGED <<row, leased, locked, others>>

\* ingest_frame, first half: a snapshot on a leased connection claims currency.
Claim(c) ==
    /\ conn[c] = "open"
    /\ conn' = [conn EXCEPT ![c] = "storing"]
    /\ IF c \in leased THEN locked = None /\ current' = [conn |-> c, claimed |-> TRUE]
                       ELSE UNCHANGED current
    /\ stored' = stored \ {c}
    /\ NoFault /\ UNCHANGED <<row, leased, locked, others>>

\* mutant: the row's existence is not checked before the store.
StoreBlind(c) ==
    /\ conn[c] = "storing"
    /\ status' = "online" /\ live' = TRUE
    /\ conn' = [conn EXCEPT ![c] = "open"] /\ stored' = stored \cup {c}
    /\ NoFault /\ UNCHANGED <<url, leased, current, locked, others>>

\* ingest_frame, second half: store_snapshot marks the row online and keeps the live metrics in
\* one hold of the database mutex.  Without a row the connection ends.
Store(c) ==
    /\ conn[c] = "storing" /\ url # "none"
    /\ status' = "online" /\ live' = TRUE
    /\ conn' = [conn EXCEPT ![c] = "open"] /\ stored' = stored \cup {c}
    /\ NoFault /\ UNCHANGED <<url, leased, current, locked, others>>

StoreFindsNoRow(c) ==
    /\ conn[c] = "storing" /\ url = "none"
    /\ conn' = [conn EXCEPT ![c] = "ending"]
    /\ NoFault /\ UNCHANGED <<row, leased, current, locked, others, stored>>

\* A store that fails leaves the connection open; a unit that panics ends it.
StoreFails(c) ==
    /\ conn[c] = "storing" /\ Fault
    /\ \E next \in {"open", "ending"} : conn' = [conn EXCEPT ![c] = next]
    /\ UNCHANGED <<row, leased, current, locked, others, stored>>

\* receive_until_end returns: the socket's end, the idle deadline, an oversize message, or an
\* answer that could not be sent.
Disconnect(c) ==
    /\ conn[c] = "open" /\ conn' = [conn EXCEPT ![c] = "ending"]
    /\ NoFault /\ UNCHANGED <<row, leased, current, locked, others, stored>>

IsCurrent(c) == current.conn = c

\* mutant: the presence lock is released before the live metrics are evicted.
EndUnlocked(c) ==
    /\ conn[c] = "ending" /\ c \in leased /\ locked = None /\ IsCurrent(c)
    /\ current' = NoEntry /\ conn' = [conn EXCEPT ![c] = "evicting"]
    /\ status' = IF url = "none" THEN status ELSE "offline"
    /\ NoFault /\ UNCHANGED <<url, live, leased, locked, others, stored>>

\* end_connection: only the current connection's end removes the entry and marks the row
\* offline; it still holds the presence lock until the live metrics are evicted.
EndCurrent(c) ==
    /\ conn[c] = "ending" /\ c \in leased /\ locked = None /\ IsCurrent(c)
    /\ current' = NoEntry /\ locked' = c
    /\ conn' = [conn EXCEPT ![c] = "evicting"]
    /\ \/ NoFault /\ status' = IF url = "none" THEN status ELSE "offline"
       \/ Fault /\ UNCHANGED status
    /\ UNCHANGED <<url, live, leased, others, stored>>

Evict(c) ==
    /\ conn[c] = "evicting"
    /\ live' = FALSE /\ locked' = None
    /\ conn' = [conn EXCEPT ![c] = "closed"]
    /\ NoFault /\ UNCHANGED <<url, status, leased, current, others, stored>>

EndOther(c) ==
    /\ conn[c] = "ending" /\ (c \in leased => locked = None /\ ~IsCurrent(c))
    /\ conn' = [conn EXCEPT ![c] = "closed"]
    /\ NoFault /\ UNCHANGED <<row, leased, current, locked, others, stored>>

\* The task unwinds: its lease is dropped and nothing else runs.
Panic(c) ==
    /\ conn[c] = "open" /\ Fault
    /\ conn' = [conn EXCEPT ![c] = "panicked"]
    /\ UNCHANGED <<row, leased, current, locked, others, stored>>

-----------------------------------------------------------------------------
(* The disconnection sweep.                                                *)

GraceEnds ==
    /\ ~graceOver /\ graceOver' = TRUE
    /\ NoFault /\ UNCHANGED <<row, presence, sweeping, listed, polls, deletes, stored>>

\* sweep_pass reads every row's source and status before it takes the presence lock.  A pass
\* begun before the grace is over will write no row.
SweepReads ==
    /\ sweeping = "idle" /\ url = "push"
    /\ sweeping' = IF graceOver THEN status ELSE "early"
    /\ NoFault /\ UNCHANGED <<row, presence, graceOver, listed, polls, deletes, stored>>

DisconnectedClaimed(read) == read = "online" \/ (read = "unknown" /\ ~IsLive(current))  \* mutant
DisconnectedNoEntry(read) == read \in {"online", "unknown"} /\ ~IsLive(current)  \* mutant

\* PushPresence::sweep's table, for a row read with this status.
Disconnected(read) ==
    \/ read = "online" /\ ~(IsLive(current) /\ current.claimed)
    \/ read = "unknown" /\ ~IsLive(current)

\* One row of the pass: a dead entry is forgotten, and a disconnected row is written offline,
\* all under the presence lock.
SweepRow ==
    /\ sweeping # "idle" /\ locked = None
    /\ current' = IF IsLive(current) THEN current ELSE NoEntry
    /\ sweeping' = "idle"
    /\ \/ /\ Disconnected(sweeping) /\ NoFault
          /\ status' = IF url = "none" THEN status ELSE "offline"
       \/ Disconnected(sweeping) /\ Fault /\ UNCHANGED status
       \/ ~Disconnected(sweeping) /\ NoFault /\ UNCHANGED status
    /\ UNCHANGED <<url, live, conn, leased, locked, graceOver, listed, polls, deletes, stored>>

-----------------------------------------------------------------------------
(* The poller, the operator, and a restart.                                *)

\* A tick: the registry is read, or the last read is used again, and a listed system is polled.
PollTick ==
    /\ \/ NoFault /\ listed' = (url = "poll")
       \/ Fault /\ listed' = listed
    /\ polls' = IF listed' THEN polls + 1 ELSE polls
    /\ polls' <= MaxPolls
    /\ UNCHANGED <<row, presence, graceOver, sweeping, deletes, stored>>

\* poll_system's end: the answer is stored, the row is marked offline, or neither is written
\* (no client, a write that fails, a row that is gone).
PollEnds ==
    /\ polls > 0 /\ polls' = polls - 1
    /\ \/ url # "none" /\ status' = "online" /\ live' = TRUE /\ UNCHANGED stored
       \/ url # "none" /\ status' = "offline" /\ stored' = {} /\ UNCHANGED live
       \/ UNCHANGED <<status, live, stored>>
    /\ NoFault /\ UNCHANGED <<url, presence, graceOver, sweeping, listed, deletes>>

\* PUT stores the url it is given, whatever connections are open.
Put ==
    /\ url # "none" /\ \E u \in {"push", "poll"} \ {url} : url' = u
    /\ NoFault /\ UNCHANGED <<status, live, presence, others, stored>>

\* DELETE: the row goes, and then the live metrics, so that a store in between finds no row.
DeleteRow ==
    /\ deletes < MaxDeletes /\ deletes' = deletes + 1
    /\ url' = "none" /\ status' = "unknown" /\ stored' = {}
    /\ NoFault /\ UNCHANGED <<live, presence, graceOver, sweeping, listed, polls>>

DeleteEvicts ==
    /\ deletes > 0 /\ deletes' = deletes - 1
    /\ live' = FALSE /\ stored' = {}
    /\ NoFault /\ UNCHANGED <<url, status, presence, graceOver, sweeping, listed, polls>>

\* The hub stops, with no connection's end run, and starts: memory is lost, and the status of
\* an online push system is reset, unless that write fails.
Restart ==
    /\ Fault
    /\ \E kept \in BOOLEAN :
        status' = IF url = "push" /\ status = "online" /\ ~kept THEN "unknown" ELSE status
    /\ live' = FALSE /\ stored' = {}
    /\ conn' = [c \in Conns |-> IF conn[c] = "new" THEN "new" ELSE "closed"]
    /\ current' = NoEntry /\ locked' = None
    /\ graceOver' = FALSE /\ sweeping' = "idle" /\ listed' = FALSE
    /\ polls' = 0 /\ deletes' = 0
    /\ UNCHANGED <<url, leased>>

Connection(c) ==
    \/ Register(c) \/ RegisterRefused(c) \/ Claim(c) \/ Store(c) \/ StoreFindsNoRow(c)
    \/ StoreFails(c) \/ Disconnect(c) \/ EndCurrent(c) \/ Evict(c) \/ EndOther(c) \/ Panic(c)

Next ==
    \/ \E c \in Conns : Connection(c)
    \/ GraceEnds \/ SweepReads \/ SweepRow
    \/ PollTick \/ PollEnds \/ Put \/ DeleteRow \/ DeleteEvicts \/ Restart

Spec == Init /\ [][Next]_vars

\* Time passes, the sweep's task ticks for the hub's life, and blocking work and requests that
\* were started finish.  Nothing makes an agent connect, send, or hang up.
FairSpec ==
    /\ Spec
    /\ WF_vars(GraceEnds) /\ WF_vars(SweepReads) /\ WF_vars(SweepRow)
    /\ WF_vars(PollEnds) /\ WF_vars(DeleteEvicts)
    /\ \A c \in Conns : WF_vars(Store(c) \/ StoreFindsNoRow(c)) /\ WF_vars(Evict(c))
                        /\ WF_vars(EndCurrent(c) \/ EndOther(c))

-----------------------------------------------------------------------------
(* Properties.                                                             *)

\* While the current connection is open and its last snapshot was stored, the row reads online
\* and has live metrics: no other connection's end, no sweep that read the row earlier and no
\* racing claim undoes it (RFC 0016 §2).  A failed poll or a delete since is excepted.
CurrentReadsOnline ==
    \A c \in stored : current = [conn |-> c, claimed |-> TRUE] /\ conn[c] = "open"
                      => status = "online" /\ live

\* No live metrics outlive their row: a store racing DELETE finds no row, or its entry is still
\* to be evicted (routes/api.rs delete_system).
LiveHasRow == live => url # "none" \/ deletes > 0

\* Between open connections, only a snapshot moves currency: an entry whose task runs is
\* replaced by another's only when that other one claims.
OnlySnapshotsMoveCurrency ==
    [][\A c \in Conns : IsLive(current) /\ current.conn # c /\ current'.conn = c
                        => conn[c] = "open" /\ conn'[c] = "storing"]_vars

\* Only the holder of a lease is ever current, and a connection that ended in order leaves no
\* entry, a replaced one included: an entry without a running task is a panic's.
EntryIsLeased ==
    current.conn # None => current.conn \in leased /\ conn[current.conn] \in Running \cup {"panicked"}

\* The one evicting holds the presence lock, and until it lets go nobody is current.
LockInv ==
    /\ \A c \in Conns : conn[c] = "evicting" <=> locked = c
    /\ locked # None => current = NoEntry

\* What `stored` says is of the row there is, and of a store that has ended.
StoredInv == (url = "none" => stored = {}) /\ \A c \in stored : conn[c] # "storing"

\* The inductive invariant: nobody can claim between an end and its eviction, and with that the
\* safety properties hold together.
PresenceInv == TypeOK /\ LockInv /\ StoredInv /\ CurrentReadsOnline /\ LiveHasRow /\ EntryIsLeased

\* An online row whose connections stop delivering does not stay online: if from some time on a
\* push system has no claimed current connection and nothing being stored, it stops reading
\* online for good, though an end was lost to a panic, a failed write or a restart.
StaleOnlineEnds ==
    <>[](url = "push" /\ ~(IsLive(current) /\ current.claimed)
            /\ \A c \in Conns : conn[c] # "storing")
        => <>[](status # "online")

\* A push system with a connection that keeps delivering snapshots ends up online for good,
\* whatever other connections of its id do before they end.
DeliveringReadsOnline ==
    \A c \in Conns :
        /\ <>[](url = "push" /\ c \in leased /\ conn[c] \in {"open", "storing"})
        /\ []<>(conn[c] = "storing")
        => <>[](status = "online")

\* Registry, presence and live metrics agree whatever connections, sweep, poller and operator
\* interleave: the system of a delivering current connection reads online, live metrics without
\* a row are about to be evicted, and only the holder of a lease is current.
PresenceSound ==
    /\ CurrentReadsOnline
    /\ LiveHasRow
    /\ EntryIsLeased

\* The status ends up right: a system nobody delivers for stops reading online, and one that is
\* delivered for settles online.
StatusSettles == StaleOnlineEnds /\ DeliveringReadsOnline
=============================================================================
