---------------------------- MODULE PushIdentity ----------------------------
(***************************************************************************)
(* The agent's system id (RFC 0016 section 6): read from the id file when   *)
(* there is one, else taken from the machine's sources and linked into      *)
(* place without ever replacing a file.  Agents that share the file start   *)
(* together, crash between two steps and start again; the host may lose     *)
(* power; every file operation may fail.                                    *)
(***************************************************************************)
EXTENDS Naturals, FiniteSets

CONSTANTS
    Agents,         \* the agents (containers, say) that share one id file
    SourceIds,      \* the ids the sources hold
    RandomIds,      \* the random ids: one per agent and start
    MaxStarts,      \* bound on the starts of one agent
    MaxOutages      \* bound on the power losses

\* What a file can hold.  Only a UTF-8 text that is an id once trimmed is one.
BadTexts == {"empty", "dot", "long"}
NotUtf8 == "not_utf8"
Missing == "missing"
Ids == SourceIds \cup RandomIds
Contents == Ids \cup BadTexts \cup {NotUtf8}

ASSUME IdentityAssumption ==
    /\ SourceIds # {} /\ SourceIds \cap RandomIds = {}
    /\ Ids \cap (BadTexts \cup {NotUtf8, Missing}) = {}
    /\ Cardinality(RandomIds) >= MaxStarts * Cardinality(Agents)

VARIABLES
    idFile,     \* the id file: its content, and whether its content and entry survive an outage
    sources,    \* the machine id, the D-Bus machine id and the host name
    agent,      \* each agent's step, the id it holds, and its temporary file
    starts,     \* how often each agent started
    outages,
    used        \* the random ids drawn

identityVars == <<idFile, sources, agent, starts, outages, used>>

-----------------------------------------------------------------------------
ParseAnyText(content) == IF content = NotUtf8 THEN "refused" ELSE "id"  \* mutant

\* AgentId's rule, and the file's: an id, or why it was refused.
ParseIdFile(content) == IF content \in Ids THEN "id" ELSE "refused"

\* The first source that holds an id; the host name is read leniently.
Usable(name, content) == content \in Ids \/ (name = "host" /\ content = NotUtf8)

\* Any text a lossy read made of a host name is an id too; its replacement characters make it
\* the same one on each start.
Lossy == CHOOSE id \in SourceIds : TRUE

FromSources ==
    CASE Usable("machine", sources.machine) -> {sources.machine}
      [] ~Usable("machine", sources.machine) /\ Usable("dbus", sources.dbus) -> {sources.dbus}
      [] ~Usable("machine", sources.machine) /\ ~Usable("dbus", sources.dbus)
            /\ Usable("host", sources.host) ->
            {IF sources.host = NotUtf8 THEN Lossy ELSE sources.host}
      [] OTHER -> RandomIds \ used

NoFile == [content |-> Missing, synced |-> FALSE, entry |-> FALSE]
Stopped == [at |-> "stopped", id |-> Missing, temp |-> Missing]

\* At start the file is missing, or an operator wrote it.
IdentityInit ==
    /\ idFile \in {NoFile} \cup [content : Contents, synced : {TRUE}, entry : {TRUE}]
    /\ sources \in [machine : {Missing, "empty"} \cup SourceIds,
                    dbus : {Missing} \cup SourceIds, host : {Missing, NotUtf8}]
    /\ agent = [a \in Agents |-> Stopped]
    /\ starts = [a \in Agents |-> 0]
    /\ outages = 0 /\ used = {}

Moves(a, step) == agent' = [agent EXCEPT ![a].at = step]

\* Reads the id file; a file that is no id, or cannot be read, refuses the start.
ReadIdFile(a) ==
    /\ agent[a].at = "stopped" /\ starts[a] < MaxStarts
    /\ starts' = [starts EXCEPT ![a] = @ + 1]
    /\ \/ /\ idFile.content # Missing
          /\ agent' = [agent EXCEPT ![a] =
                IF ParseIdFile(idFile.content) = "id"
                THEN [Stopped EXCEPT !.at = "running", !.id = idFile.content]
                ELSE [Stopped EXCEPT !.at = "refused"]]
          /\ UNCHANGED used
       \/ /\ idFile.content = Missing
          /\ \E id \in FromSources :
                /\ agent' = [agent EXCEPT ![a] = [Stopped EXCEPT !.at = "resolved", !.id = id]]
                /\ used' = used \cup ({id} \cap RandomIds)
       \/ Moves(a, "refused") /\ UNCHANGED used
    /\ UNCHANGED <<idFile, sources, outages>>

\* mutant: the temporary file is not flushed.
WriteTempUnsynced(a) ==
    /\ agent[a].at = "resolved"
    /\ agent' = [agent EXCEPT ![a].at = "durable", ![a].temp = "written"]
    /\ UNCHANGED <<idFile, sources, starts, outages, used>>

\* The temporary file has a name of its own.  A failed write leaves what it wrote behind, and
\* refuses the start once that is removed.
WriteTemp(a) ==
    /\ agent[a].at = "resolved"
    /\ agent' \in {[agent EXCEPT ![a].at = "written", ![a].temp = "written"],
                   [agent EXCEPT ![a].at = "failed", ![a].temp = "partial"]}
    /\ UNCHANGED <<idFile, sources, starts, outages, used>>

SyncTemp(a) ==
    /\ agent[a].at = "written"
    /\ agent' \in {[agent EXCEPT ![a].at = "durable", ![a].temp = "durable"],
                   [agent EXCEPT ![a].at = "failed"]}
    /\ UNCHANGED <<idFile, sources, starts, outages, used>>

\* mutant: the temporary file is renamed into place.
RenameTemp(a) ==
    /\ agent[a].at = "durable"
    /\ idFile' = [content |-> agent[a].id, synced |-> TRUE, entry |-> FALSE]
    /\ Moves(a, "linked")
    /\ UNCHANGED <<sources, starts, outages, used>>

\* The link is atomic, and never replaces a file.  A filesystem without hard links refuses it.
LinkTemp(a) ==
    /\ agent[a].at = "durable"
    /\ \/ /\ idFile.content = Missing
          /\ idFile' = [content |-> agent[a].id, synced |-> agent[a].temp = "durable",
                        entry |-> FALSE]
          /\ Moves(a, "linked")
       \/ idFile.content # Missing /\ Moves(a, "taken") /\ UNCHANGED idFile
       \/ Moves(a, "failed") /\ UNCHANGED idFile
    /\ UNCHANGED <<sources, starts, outages, used>>

\* The temporary file goes in every case.  Then the directory is flushed, which may fail with a
\* warning; or the other agent's file is read, and that read is final; or the start is refused.
Settle(a) ==
    /\ \/ /\ agent[a].at = "linked"
          /\ agent' = [agent EXCEPT ![a].at = "running", ![a].temp = Missing]
          /\ idFile' \in {idFile, [idFile EXCEPT !.entry = TRUE]}
       \/ /\ agent[a].at = "taken"
          /\ agent' \in {[agent EXCEPT ![a] = [Stopped EXCEPT !.at = "refused"]],
                         [agent EXCEPT ![a] =
                            IF ParseIdFile(idFile.content) = "id"
                            THEN [Stopped EXCEPT !.at = "running", !.id = idFile.content]
                            ELSE [Stopped EXCEPT !.at = "refused"]]}
          /\ UNCHANGED idFile
       \/ /\ agent[a].at = "failed"
          /\ agent' = [agent EXCEPT ![a] = [Stopped EXCEPT !.at = "refused"]]
          /\ UNCHANGED idFile
    /\ UNCHANGED <<sources, starts, outages, used>>

\* An agent stops or crashes, and is started again, as a new container, say.
AgentStops(a) ==
    /\ agent[a].at # "stopped"
    /\ agent' = [agent EXCEPT ![a] = Stopped]
    /\ UNCHANGED <<idFile, sources, starts, outages, used>>

\* External: power is lost.  What was not flushed may be gone, or be an empty file.
PowerLoss ==
    /\ outages < MaxOutages
    /\ outages' = outages + 1
    /\ agent' = [a \in Agents |-> Stopped]
    /\ idFile' \in {idFile}
          \cup (IF idFile.entry \/ idFile.content = Missing THEN {} ELSE {NoFile})
          \cup (IF idFile.synced \/ idFile.content = Missing THEN {}
                ELSE {[content |-> "empty", synced |-> TRUE, entry |-> TRUE]})
    /\ UNCHANGED <<sources, starts, used>>

IdentityNext ==
    \/ \E a \in Agents : \/ ReadIdFile(a) \/ WriteTemp(a) \/ SyncTemp(a) \/ LinkTemp(a)
                         \/ Settle(a) \/ AgentStops(a)
    \/ PowerLoss

IdentitySpec == IdentityInit /\ [][IdentityNext]_identityVars

-----------------------------------------------------------------------------
IdentityTypeOK ==
    /\ idFile.content \in Contents \cup {Missing}
    /\ \A a \in Agents :
          /\ agent[a].at \in {"stopped", "resolved", "written", "durable", "linked", "taken",
                              "failed", "running", "refused"}
          /\ agent[a].id \in Ids \cup {Missing}
          /\ agent[a].at = "running" => agent[a].id \in Ids
    /\ used \subseteq RandomIds

\* The agents that run on one id file present one id to the hub, whichever of them wrote it and
\* in whatever order they started.
OneIdPerFile == \A a \in Agents : agent[a].at = "running" => agent[a].id = idFile.content

\* What the agents write is an id or nothing, whenever the power goes: a start is never refused
\* for what an earlier one left.
NeverLeavesABadFile ==
    idFile'.content # idFile.content => idFile'.content \in Ids \cup {Missing}

\* An id once in the file stays, unless a power loss takes a file whose directory was never
\* flushed: re-created agents keep the system's history at the hub.
IdKept ==
    idFile.content # Missing /\ idFile'.content # idFile.content
      => outages' > outages /\ ~idFile.entry

\* The id file holds one id that stays, whichever agents start together and whenever they crash
\* or the power goes.
IdentityKept ==
    [][/\ (IdentityTypeOK /\ OneIdPerFile)'
       /\ NeverLeavesABadFile
       /\ IdKept]_identityVars
=============================================================================
