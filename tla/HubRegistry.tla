---------------------------- MODULE HubRegistry -----------------------------
(***************************************************************************)
(* One registered system's row and alert records, and everyone who writes   *)
(* them: overlapping polls, each working from the row as its tick read it;  *)
(* a pushed snapshot's store, which a polled system's row takes too, and    *)
(* the registry fill after it (a mailed one's are the same); the ends of a  *)
(* push connection; the operator's PUT, DELETE and acknowledgement; a       *)
(* handshake that registers the id (RFC 0007, RFC 0014 §8).  Every call of  *)
(* the database takes the mutex for itself, so everything between two calls *)
(* interleaves.                                                             *)
(***************************************************************************)
EXTENDS Naturals

CONSTANTS Polls,        \* the polls that may overlap
          Capacities,   \* the memory capacities the agent reports
          MaxFlaps,     \* bound: changes of the agent, failed reads and stores
          MaxEdits      \* bound: PUTs, DELETEs and push connections

VARIABLES sysrow,    \* the systems row
          listed,    \* the poller's last read of the registry
          poll,      \* each poll: where it is, its copy of the row, its answer
          conn,      \* a push connection under the system's id: none, leased or plain
          fill,      \* a pushed snapshot's registry fill: where it is, its copy, what it reported
          put,       \* a PUT that found the system: what it is to write
          records,   \* the incident's alert record: absent, active or acknowledged
          agent,     \* the agent: whether it answers, and its capacity; its incident stays active
          flaps, edits

regVars == <<sysrow, listed, poll, conn, fill, put, records, agent, flaps, edits>>

None == "none"
NoRow == [exists |-> FALSE, name |-> None, info |-> FALSE, cap |-> None, status |-> None,
          polled |-> FALSE, enabled |-> FALSE]

\* register_if_new: a handshake's row, under the id's default name.
FreshRow == [exists |-> TRUE, name |-> "default", info |-> FALSE, cap |-> None,
             status |-> "unknown", polled |-> FALSE, enabled |-> TRUE]

\* polled_systems: the enabled polled systems of a read.
Polled(row) == row.exists /\ row.enabled /\ row.polled

\* What the poller keeps of a read; a poll keeps its row's info and capacity until it has its
\* answer, and then the capacity to write; a fill, what is to be written.
Seen(row) == [polled |-> Polled(row), info |-> row.info, cap |-> row.cap]
NoPoll == [at |-> "idle", info |-> FALSE, cap |-> None]
NoFill == [at |-> "idle", info |-> FALSE, cap |-> None, unnamed |-> FALSE]

\* Nothing is registered, or POST /api/systems registered a polled system.
RegistryInit ==
    /\ sysrow \in {NoRow, [FreshRow EXCEPT !.name = "given", !.polled = TRUE]}
    /\ listed = Seen(NoRow) /\ poll = [p \in Polls |-> NoPoll]
    /\ conn = "none" /\ fill = NoFill /\ put = None
    /\ records = "absent" /\ flaps = 0 /\ edits = 0
    /\ agent \in [up : {TRUE}, cap : Capacities]

Flap == flaps < MaxFlaps /\ flaps' = flaps + 1
Edit == edits < MaxEdits /\ edits' = edits + 1

\* An UPDATE ... WHERE id: no row, no change.
Updated(row) == IF sysrow.exists THEN row ELSE sysrow

-----------------------------------------------------------------------------
(* The poller.                                                             *)

\* A poll of the row as it was read.
PollOf(seen) == [at |-> "fetch", info |-> seen.info, cap |-> seen.cap]

\* A tick reads the registry and spawns a poll, which keeps its copy of the row.
PollTick(p) ==
    /\ poll[p].at = "idle" /\ listed' = Seen(sysrow)
    /\ poll' = IF Polled(sysrow) THEN [poll EXCEPT ![p] = PollOf(Seen(sysrow))] ELSE poll
    /\ UNCHANGED <<sysrow, conn, fill, put, records, agent, flaps, edits>>

\* mutant: whatever was read last is polled.
PollTickBlindAny(p) ==
    /\ poll[p].at = "idle" /\ Flap /\ poll' = [poll EXCEPT ![p] = PollOf(listed)]
    /\ UNCHANGED <<sysrow, listed, conn, fill, put, records, agent, edits>>

\* A tick whose read fails polls the systems of the last read that succeeded.
PollTickBlind(p) ==
    /\ poll[p].at = "idle" /\ Flap /\ listed.polled /\ poll' = [poll EXCEPT ![p] = PollOf(listed)]
    /\ UNCHANGED <<sysrow, listed, conn, fill, put, records, agent, edits>>

RefreshedOnce(stored, reported) == IF stored = None THEN reported ELSE None  \* mutant

\* memory_capacity_refresh: the reported capacity when it differs from the copy's, or none.
Refreshed(stored, reported) == IF reported # stored THEN reported ELSE None

\* fetch_system: the agent's answer, or a failure: transport, status, size or JSON.
Fetch(p) ==
    /\ poll[p].at = "fetch"
    /\ poll' = [poll EXCEPT ![p] =
          IF agent.up THEN [at |-> "store", info |-> @.info, cap |-> Refreshed(@.cap, agent.cap)]
          ELSE [NoPoll EXCEPT !.at = "offline"]]
    /\ UNCHANGED <<sysrow, listed, conn, fill, put, records, agent, flaps, edits>>

\* mutant: the offline marking inserts the row when it is gone.
MarkOfflineReplacing(p) ==
    /\ poll[p].at = "offline" /\ poll' = [poll EXCEPT ![p] = NoPoll]
    /\ sysrow' = [sysrow EXCEPT !.exists = TRUE, !.status = "offline"]
    /\ UNCHANGED <<listed, conn, fill, put, records, agent, flaps, edits>>

\* mutant: a failed poll is only logged.
MarkOfflineLogged(p) ==
    /\ poll[p].at = "offline" /\ poll' = [poll EXCEPT ![p] = NoPoll]
    /\ UNCHANGED <<sysrow, listed, conn, fill, put, records, agent, flaps, edits>>

MarkOffline(p) ==
    /\ poll[p].at = "offline" /\ poll' = [poll EXCEPT ![p] = NoPoll]
    /\ sysrow' = Updated([sysrow EXCEPT !.status = "offline"])
    /\ UNCHANGED <<listed, conn, fill, put, records, agent, flaps, edits>>

\* store_polled, first: the snapshot's store marks the row online; a gone system ends the poll.
StoreAnswer(p) ==
    /\ poll[p].at = "store"
    /\ IF sysrow.exists
       THEN /\ sysrow' = [sysrow EXCEPT !.status = "online"]
            /\ poll' = [poll EXCEPT ![p].at = "info"]
       ELSE UNCHANGED sysrow /\ poll' = [poll EXCEPT ![p] = NoPoll]
    /\ UNCHANGED <<listed, conn, fill, put, records, agent, flaps, edits>>

\* A store that fails is logged: nothing is filled, and the poll goes on.
StoreAnswerFails(p) ==
    /\ poll[p].at = "store" /\ Flap /\ poll' = [poll EXCEPT ![p] = [NoPoll EXCEPT !.at = "alerts"]]
    /\ UNCHANGED <<sysrow, listed, conn, fill, put, records, agent, edits>>

\* record_system_info, while the poll's copy has no hostname or no OS.
RecordInfo(p) ==
    /\ poll[p].at = "info"
    /\ poll' = [poll EXCEPT ![p] = [NoPoll EXCEPT !.at = "cap", !.cap = poll[p].cap]]
    /\ sysrow' = IF poll[p].info THEN sysrow ELSE Updated([sysrow EXCEPT !.info = TRUE])
    /\ UNCHANGED <<listed, conn, fill, put, records, agent, flaps, edits>>

RefreshCapacity(p) ==
    /\ poll[p].at = "cap" /\ poll' = [poll EXCEPT ![p] = [NoPoll EXCEPT !.at = "alerts"]]
    /\ sysrow' = IF poll[p].cap # None THEN Updated([sysrow EXCEPT !.cap = poll[p].cap]) ELSE sysrow
    /\ UNCHANGED <<listed, conn, fill, put, records, agent, flaps, edits>>

InsertedAgain(state) == "active"  \* mutant: INSERT OR REPLACE

\* insert_alert_record: INSERT OR IGNORE.
Inserted(state) == IF state = "absent" THEN "active" ELSE state

\* mutant: foreign keys are not enforced.
StoreAlertsUnchecked(p) ==
    /\ poll[p].at = "alerts" /\ poll' = [poll EXCEPT ![p] = NoPoll]
    /\ records' = IF agent.up THEN Inserted(records) ELSE records
    /\ UNCHANGED <<sysrow, listed, conn, fill, put, agent, flaps, edits>>

\* store_agent_alerts: one record per active incident, by INSERT OR IGNORE; without the
\* system's row the foreign key refuses it.  The applications poll follows (RoundIntake).
StoreAlerts(p) ==
    /\ poll[p].at = "alerts" /\ poll' = [poll EXCEPT ![p] = NoPoll]
    /\ records' = IF agent.up /\ sysrow.exists THEN Inserted(records) ELSE records
    /\ UNCHANGED <<sysrow, listed, conn, fill, put, agent, flaps, edits>>

-----------------------------------------------------------------------------
(* A pushed snapshot.                                                      *)

\* register_and_accept: a known push system's connection gets a lease, a polled system's none.
PushOpens ==
    /\ conn = "none" /\ sysrow.exists /\ Edit /\ conn' = IF sysrow.polled THEN "plain" ELSE "leased"
    /\ UNCHANGED <<sysrow, listed, poll, fill, put, records, agent, flaps>>

\* ingest_frame, first: the snapshot's store marks the row online, whoever feeds it; a gone
\* system ends the connection.  The fill is to bring the capacity the agent reported, if any.
PushStores ==
    /\ conn # "none" /\ fill.at = "idle" /\ sysrow.exists
    /\ sysrow' = [sysrow EXCEPT !.status = "online"]
    /\ \E cap \in {agent.cap, None} : fill' = [NoFill EXCEPT !.at = "read", !.cap = cap]
    /\ UNCHANGED <<listed, poll, conn, put, records, agent, flaps, edits>>

\* fill_registry reads the row for itself; a gone one ends it.
FillRead ==
    /\ fill.at = "read"
    /\ fill' = IF sysrow.exists
               THEN [at |-> "info", info |-> sysrow.info, cap |-> Refreshed(sysrow.cap, fill.cap),
                     unnamed |-> sysrow.name = "default"]
               ELSE NoFill
    /\ UNCHANGED <<sysrow, listed, poll, conn, put, records, agent, flaps, edits>>

FillInfo ==
    /\ fill.at = "info" /\ fill' = [fill EXCEPT !.at = "cap", !.info = FALSE]
    /\ sysrow' = IF fill.info THEN sysrow ELSE Updated([sysrow EXCEPT !.info = TRUE])
    /\ UNCHANGED <<listed, poll, conn, put, records, agent, flaps, edits>>

FillCapacity ==
    /\ fill.at = "cap" /\ fill' = [fill EXCEPT !.at = "name", !.cap = None]
    /\ sysrow' = IF fill.cap # None THEN Updated([sysrow EXCEPT !.cap = fill.cap]) ELSE sysrow
    /\ UNCHANGED <<listed, poll, conn, put, records, agent, flaps, edits>>

\* A default name becomes the hostname.
FillName ==
    /\ fill.at = "name" /\ fill' = NoFill
    /\ sysrow' = IF fill.unnamed THEN Updated([sysrow EXCEPT !.name = "hostname"]) ELSE sysrow
    /\ UNCHANGED <<listed, poll, conn, put, records, agent, flaps, edits>>

\* end_connection: a leased one marks the system offline, also when a PUT made it a polled one
\* meanwhile.
PushEnds ==
    /\ conn # "none" /\ fill.at = "idle" /\ conn' = "none"
    /\ sysrow' = IF conn = "leased" THEN Updated([sysrow EXCEPT !.status = "offline"]) ELSE sysrow
    /\ UNCHANGED <<listed, poll, fill, put, records, agent, flaps, edits>>

-----------------------------------------------------------------------------
(* Registration, the operator, and the agent.                              *)

RegisterAgain ==
    /\ ~sysrow.exists /\ sysrow' = FreshRow
    /\ UNCHANGED <<listed, poll, conn, fill, put, records, agent, flaps, edits>>

\* A PUT's fields, one at a time: a name; a url to poll or one of the sentinels push:// and
\* mail://, which it takes as they are; enabled or not.
Puts == {"name", "url", "sentinel", "disable", "enable"}

\* PUT finds the system, or answers 404; then it writes the fields given, in one statement.
PutFinds ==
    /\ put = None /\ sysrow.exists /\ Edit /\ put' \in Puts
    /\ UNCHANGED <<sysrow, listed, poll, conn, fill, records, agent, flaps>>

PutWrites ==
    /\ put # None /\ put' = None
    /\ sysrow' = Updated(CASE put = "name" -> [sysrow EXCEPT !.name = "given"]
                           [] put = "url" -> [sysrow EXCEPT !.polled = TRUE]
                           [] put = "sentinel" -> [sysrow EXCEPT !.polled = FALSE]
                           [] put = "disable" -> [sysrow EXCEPT !.enabled = FALSE]
                           [] put = "enable" -> [sysrow EXCEPT !.enabled = TRUE])
    /\ UNCHANGED <<listed, poll, conn, fill, records, agent, flaps, edits>>

\* delete_system: the row, its points and its alert records, in one transaction.
DeleteRow ==
    /\ sysrow.exists /\ Edit /\ sysrow' = NoRow /\ records' = "absent"
    /\ UNCHANGED <<listed, poll, conn, fill, put, agent, flaps>>

Acknowledge ==
    /\ records = "active" /\ records' = "acknowledged"
    /\ UNCHANGED <<sysrow, listed, poll, conn, fill, put, agent, flaps, edits>>

\* The agent goes or comes back, or its memory changes.
AgentChanges ==
    /\ Flap /\ agent' \in [up : BOOLEAN, cap : Capacities]
    /\ UNCHANGED <<sysrow, listed, poll, conn, fill, put, records, edits>>

PollSteps(p) ==
    \/ Fetch(p) \/ MarkOffline(p) \/ StoreAnswer(p) \/ RecordInfo(p) \/ RefreshCapacity(p)
    \/ StoreAlerts(p)

FillSteps == FillRead \/ FillInfo \/ FillCapacity \/ FillName

RegistryNext ==
    \/ \E p \in Polls : PollTick(p) \/ PollTickBlind(p) \/ PollSteps(p) \/ StoreAnswerFails(p)
    \/ PushOpens \/ PushStores \/ FillSteps \/ PushEnds \/ RegisterAgain \/ PutFinds \/ PutWrites
    \/ DeleteRow \/ Acknowledge \/ AgentChanges

RegistrySpec == RegistryInit /\ [][RegistryNext]_regVars

-----------------------------------------------------------------------------
Rows == [exists : BOOLEAN, name : {None, "default", "given", "hostname"}, info : BOOLEAN,
         cap : Capacities \cup {None}, status : {None, "online", "offline", "unknown"},
         polled : BOOLEAN, enabled : BOOLEAN]

SeenRows == [polled : BOOLEAN, info : BOOLEAN, cap : Capacities \cup {None}]
PollStates == [at : {"idle", "fetch", "store", "offline", "info", "cap", "alerts"},
               info : BOOLEAN, cap : Capacities \cup {None}]
Fills == [at : {"idle", "read", "info", "cap", "name"}, info : BOOLEAN,
          cap : Capacities \cup {None}, unnamed : BOOLEAN]

\* The row, what was read of it and the tasks have their types.
RegistryTypeOK ==
    /\ sysrow \in Rows /\ listed \in SeenRows
    /\ poll \in [Polls -> PollStates] /\ conn \in {"none", "leased", "plain"} /\ fill \in Fills
    /\ put \in Puts \cup {None}
    /\ records \in {"absent", "active", "acknowledged"}

\* A poll starts only for a system that the last read that succeeded found enabled and polled.
PolledAsListed ==
    \A p \in Polls : poll[p].at = "idle" /\ poll'[p].at # "idle" => listed'.polled

\* Without its row a system has no alert record, whatever a poll that outlived the delete still
\* stores (store_agent_alerts writes after the row was last looked for).
NoOrphanRecords == ~sysrow.exists => records = "absent"

\* A record is acknowledged for good: the same incident, polled again, never raises it anew
\* (insert_alert_record); only a delete removes it.
AcknowledgedStays ==
    records = "acknowledged" => records' = "acknowledged" \/ ~sysrow'.exists

\* A deleted system comes back only as a new registration: no poll, fill or PUT that still
\* holds the old row brings any of it back.
RowsBornFresh == ~sysrow.exists /\ sysrow'.exists => sysrow' = FreshRow

\* An agent whose memory stops changing is shown with it in the end, though every poll compares
\* with the copy its own tick read (memory_capacity_refresh).
CapacityFollows ==
    \A cap \in Capacities :
        <>[](Polled(sysrow) /\ agent.up /\ agent.cap = cap) => <>[](sysrow.cap = cap)

\* A polled system's status follows its agent in the end, though a late poll may write an older
\* answer after a newer one, and a push or its connection's end another.  It is shown offline for
\* good only if no push connection is open under its id: each pushed snapshot marks it online again.
StatusFollows ==
    /\ <>[](Polled(sysrow) /\ agent.up) => <>[](sysrow.status = "online")
    /\ <>[](Polled(sysrow) /\ ~agent.up /\ conn = "none") => <>[](sysrow.status = "offline")

\* Polls, pushes, PUT and DELETE that overlap leave the registry whole: nothing is polled that the
\* last read did not show so, there is no alert record without a row, no acknowledgement undone,
\* and no part of a deleted row brought back.
RegistryKeeps ==
    [][/\ (RegistryTypeOK /\ NoOrphanRecords)'
       /\ PolledAsListed
       /\ AcknowledgedStays
       /\ RowsBornFresh]_regVars

\* The row ends up as its agent is, though every poll writes from the copy its tick read.
RegistryFollows == CapacityFollows /\ StatusFollows
=============================================================================
