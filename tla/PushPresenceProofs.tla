------------------------- MODULE PushPresenceProofs -------------------------
(* PresenceInv is inductive, and with it the safety properties of PushPresence hold for any *)
(* number of connections, polls, deletes and failures.                                      *)
EXTENDS PushPresence, TLAPS

\* A step of one connection keeps the invariant: it moves only its own task, and takes or
\* releases the presence lock where ingest_frame and end_connection do.
LEMMA ConnectionKeepsInv ==
    ASSUME PresenceInv, NEW c \in Conns, Connection(c)
    PROVE  PresenceInv'
<1> USE PresenceAssumption DEF PresenceInv, TypeOK, Urls, Statuses, Running, NoEntry,
        LockInv, StoredInv, CurrentReadsOnline, LiveHasRow, EntryIsLeased, row, presence, others, Fault, NoFault
<1>1. CASE Register(c)
    <2>1. TypeOK'
        <3>0. current' = current \/ current' = [conn |-> c, claimed |-> FALSE]
            BY <1>1 DEF Register, Accept
        <3>1. current' \in [conn : Conns \cup {None}, claimed : BOOLEAN]
            <4>1. current \in [conn : Conns \cup {None}, claimed : BOOLEAN]
                OBVIOUS
            <4>2. [conn |-> c, claimed |-> FALSE] \in [conn : Conns \cup {None}, claimed : BOOLEAN]
                OBVIOUS
            <4> QED
                BY <3>0, <4>1, <4>2
        <3>2. url' \in Urls \cup {"none"} /\ status' \in Statuses
            BY <1>1 DEF Register
        <3> QED
            BY <1>1, <3>1, <3>2 DEF Register, Accept, IsLive
    <2>2. LockInv' /\ StoredInv'
        BY <1>1 DEF Register, Accept, IsLive
    <2>3. CurrentReadsOnline'
        BY <1>1 DEF Register, Accept, IsLive
    <2>4. LiveHasRow'
        BY <1>1 DEF Register, Accept, IsLive
    <2>5. EntryIsLeased'
        BY <1>1 DEF Register, Accept, IsLive
    <2> QED
        BY <2>1, <2>2, <2>3, <2>4, <2>5
<1>2. CASE RegisterRefused(c)
    BY <1>2 DEF RegisterRefused
<1>3. CASE Claim(c)
    <2>1. TypeOK'
        <3>0. current' = current \/ current' = [conn |-> c, claimed |-> TRUE]
            BY <1>3 DEF Claim
        <3>1. current' \in [conn : Conns \cup {None}, claimed : BOOLEAN]
            <4>1. current \in [conn : Conns \cup {None}, claimed : BOOLEAN]
                OBVIOUS
            <4>2. [conn |-> c, claimed |-> TRUE] \in [conn : Conns \cup {None}, claimed : BOOLEAN]
                OBVIOUS
            <4> QED
                BY <3>0, <4>1, <4>2
        <3> QED
            BY <1>3, <3>1 DEF Claim
    <2>2. LockInv' /\ StoredInv'
        BY <1>3 DEF Claim
    <2>3. CurrentReadsOnline'
        BY <1>3 DEF Claim
    <2>4. LiveHasRow'
        BY <1>3 DEF Claim
    <2>5. EntryIsLeased'
        BY <1>3 DEF Claim
    <2> QED
        BY <2>1, <2>2, <2>3, <2>4, <2>5
<1>4. CASE Store(c)
    BY <1>4 DEF Store
<1>5. CASE StoreFindsNoRow(c)
    BY <1>5 DEF StoreFindsNoRow
<1>6. CASE StoreFails(c)
    <2>1. TypeOK'
        BY <1>6 DEF StoreFails
    <2>2. LockInv' /\ StoredInv'
        BY <1>6 DEF StoreFails
    <2>3. CurrentReadsOnline'
        BY <1>6 DEF StoreFails
    <2>4. LiveHasRow'
        BY <1>6 DEF StoreFails
    <2>5. EntryIsLeased'
        BY <1>6 DEF StoreFails
    <2> QED
        BY <2>1, <2>2, <2>3, <2>4, <2>5
<1>7. CASE Disconnect(c)
    BY <1>7 DEF Disconnect
<1>8. CASE EndCurrent(c)
    BY <1>8 DEF EndCurrent, IsCurrent
<1>9. CASE Evict(c)
    <2>1. TypeOK'
        BY <1>9 DEF Evict
    <2>2. LockInv' /\ StoredInv'
        BY <1>9 DEF Evict
    <2>3. CurrentReadsOnline'
        BY <1>9 DEF Evict
    <2>4. LiveHasRow'
        BY <1>9 DEF Evict
    <2>5. EntryIsLeased'
        BY <1>9 DEF Evict
    <2> QED
        BY <2>1, <2>2, <2>3, <2>4, <2>5
<1>10. CASE EndOther(c)
    BY <1>10 DEF EndOther, IsCurrent
<1>11. CASE Panic(c)
    BY <1>11 DEF Panic
<1> QED
    BY <1>1, <1>2, <1>3, <1>4, <1>5, <1>6, <1>7, <1>8, <1>9, <1>10, <1>11 DEF Connection

\* The sweep, the poller, the operator and a restart keep the invariant: the sweep decides
\* under the presence lock, and the others' writes end what `stored` promised.
LEMMA OthersKeepInv ==
    ASSUME PresenceInv,
           \/ GraceEnds \/ SweepReads \/ SweepRow \/ PollTick \/ PollEnds
           \/ Put \/ DeleteRow \/ DeleteEvicts \/ Restart
    PROVE  PresenceInv'
<1> USE PresenceAssumption DEF PresenceInv, TypeOK, Urls, Statuses, Running, NoEntry,
        LockInv, StoredInv, CurrentReadsOnline, LiveHasRow, EntryIsLeased, row, presence, others, Fault, NoFault
<1>1. CASE GraceEnds
    BY <1>1 DEF GraceEnds
<1>2. CASE SweepReads
    BY <1>2 DEF SweepReads
<1>3. CASE SweepRow
    BY <1>3 DEF SweepRow, Disconnected, IsLive
<1>4. CASE PollTick
    <2>1. TypeOK'
        <3>1. listed' \in BOOLEAN
            BY <1>4, Zenon DEF PollTick
        <3>2. polls' \in Nat
            BY <1>4 DEF PollTick
        <3>3. faults' \in Nat
            BY <1>4 DEF PollTick
        <3> QED
            BY <1>4, <3>1, <3>2, <3>3 DEF PollTick
    <2>2. LockInv' /\ StoredInv'
        BY <1>4 DEF PollTick
    <2>3. CurrentReadsOnline'
        BY <1>4 DEF PollTick
    <2>4. LiveHasRow'
        BY <1>4 DEF PollTick
    <2>5. EntryIsLeased'
        BY <1>4 DEF PollTick
    <2> QED
        BY <2>1, <2>2, <2>3, <2>4, <2>5
<1>5. CASE PollEnds
    <2>1. TypeOK'
        <3>1. polls' \in Nat
            BY <1>5 DEF PollEnds
        <3>2. live' \in BOOLEAN /\ status' \in Statuses /\ stored' \in SUBSET Conns
            BY <1>5, Zenon DEF PollEnds
        <3> QED
            BY <1>5, <3>1, <3>2 DEF PollEnds
    <2>2. LockInv' /\ StoredInv'
        BY <1>5 DEF PollEnds
    <2>3. CurrentReadsOnline'
        BY <1>5 DEF PollEnds
    <2>4. LiveHasRow'
        BY <1>5 DEF PollEnds
    <2>5. EntryIsLeased'
        BY <1>5 DEF PollEnds
    <2> QED
        BY <2>1, <2>2, <2>3, <2>4, <2>5
<1>6. CASE Put
    BY <1>6 DEF Put
<1>7. CASE DeleteRow
    BY <1>7 DEF DeleteRow
<1>8. CASE DeleteEvicts
    <2>1. TypeOK'
        <3>1. deletes' \in Nat
            BY <1>8 DEF DeleteEvicts
        <3>2. live' \in BOOLEAN /\ stored' \in SUBSET Conns
            BY <1>8, Zenon DEF DeleteEvicts
        <3> QED
            BY <1>8, <3>1, <3>2 DEF DeleteEvicts
    <2>2. LockInv' /\ StoredInv'
        BY <1>8 DEF DeleteEvicts
    <2>3. CurrentReadsOnline'
        BY <1>8 DEF DeleteEvicts
    <2>4. LiveHasRow'
        BY <1>8 DEF DeleteEvicts
    <2>5. EntryIsLeased'
        BY <1>8 DEF DeleteEvicts
    <2> QED
        BY <2>1, <2>2, <2>3, <2>4, <2>5
<1>9. CASE Restart
    <2>1. TypeOK'
        <3>1. status' \in Statuses
            BY <1>9 DEF Restart
        <3>2. conn' \in [Conns -> Running \cup {"new", "evicting", "closed", "panicked"}]
            BY <1>9 DEF Restart
        <3>3. live' \in BOOLEAN /\ graceOver' \in BOOLEAN /\ listed' \in BOOLEAN
            BY <1>9, Zenon DEF Restart
        <3>4. current' \in [conn : Conns \cup {None}, claimed : BOOLEAN]
            BY <1>9 DEF Restart
        <3>5. faults' \in Nat
            BY <1>9 DEF Restart
        <3> QED
            BY <1>9, <3>1, <3>2, <3>3, <3>4, <3>5 DEF Restart
    <2>2. LockInv' /\ StoredInv'
        BY <1>9 DEF Restart
    <2>3. CurrentReadsOnline'
        BY <1>9 DEF Restart
    <2>4. LiveHasRow'
        BY <1>9 DEF Restart
    <2>5. EntryIsLeased'
        BY <1>9 DEF Restart
    <2> QED
        BY <2>1, <2>2, <2>3, <2>4, <2>5
<1> QED
    BY <1>1, <1>2, <1>3, <1>4, <1>5, <1>6, <1>7, <1>8, <1>9

\* The invariant of the presence entry, the presence lock and the row holds always.
THEOREM PresenceHolds == Spec => []PresenceInv
<1>1. Init => PresenceInv
    <2> SUFFICES ASSUME Init PROVE PresenceInv
        OBVIOUS
    <2>1. TypeOK
        BY PresenceAssumption DEF Init, TypeOK, Urls, Statuses, Running, NoEntry
    <2>2. LockInv /\ StoredInv /\ CurrentReadsOnline /\ LiveHasRow /\ EntryIsLeased
        BY PresenceAssumption DEF Init, LockInv, StoredInv, CurrentReadsOnline, LiveHasRow, EntryIsLeased, NoEntry
    <2> QED
        BY <2>1, <2>2 DEF PresenceInv
<1>2. PresenceInv /\ [Next]_vars => PresenceInv'
    <2> SUFFICES ASSUME PresenceInv, [Next]_vars PROVE PresenceInv'
        OBVIOUS
    <2>1. CASE UNCHANGED vars
        BY <2>1 DEF vars, row, presence, others, PresenceInv, TypeOK, LockInv, StoredInv,
            CurrentReadsOnline, LiveHasRow, EntryIsLeased
    <2>2. CASE Next
        BY <2>2, ConnectionKeepsInv, OthersKeepInv DEF Next
    <2> QED
        BY <2>1, <2>2
<1> QED
    BY <1>1, <1>2, PTL DEF Spec

\* While the current connection is open and its last snapshot was stored, the row reads online
\* and has live metrics, with any number of connections, sweeps and restarts around it.
THEOREM CurrentAlwaysReadsOnline == Spec => []CurrentReadsOnline
<1>1. PresenceInv => CurrentReadsOnline
    BY DEF PresenceInv
<1> QED
    BY <1>1, PresenceHolds, PTL

\* No live metrics outlive their row, however stores and deletes interleave.
THEOREM LiveAlwaysHasRow == Spec => []LiveHasRow
<1>1. PresenceInv => LiveHasRow
    BY DEF PresenceInv
<1> QED
    BY <1>1, PresenceHolds, PTL

\* Between open connections only a snapshot moves currency.
THEOREM CurrencyMovesBySnapshots == Spec => OnlySnapshotsMoveCurrency
<1> DEFINE Moved == \A c \in Conns : IsLive(current) /\ current.conn # c /\ current'.conn = c
                        => conn[c] = "open" /\ conn'[c] = "storing"
<1>1. PresenceInv /\ [Next]_vars => [Moved]_vars
    <2> SUFFICES ASSUME PresenceInv, Next, NEW c \in Conns, IsLive(current),
                        current.conn # c, current'.conn = c
                 PROVE  conn[c] = "open" /\ conn'[c] = "storing"
        OBVIOUS
    <2>1. CASE \E d \in Conns : Connection(d)
        <3>1. PICK d \in Conns : Connection(d)
            BY <2>1
        <3>2. CASE Claim(d)
            BY <3>2, PresenceAssumption DEF Claim, PresenceInv, TypeOK
        <3>3. CASE Register(d)
            BY <3>3 DEF Register, Accept
        <3>4. CASE EndCurrent(d)
            BY <3>4, PresenceAssumption DEF EndCurrent, NoEntry
        <3>5. CASE UNCHANGED current
            BY <3>5
        <3> QED
            BY <3>1, <3>2, <3>3, <3>4, <3>5 DEF Connection, RegisterRefused, Store,
                StoreFindsNoRow, StoreFails, Disconnect, Evict, EndOther, Panic
    <2>2. CASE SweepRow
        BY <2>2 DEF SweepRow
    <2>3. CASE Restart
        BY <2>3, PresenceAssumption DEF Restart, NoEntry
    <2>4. CASE UNCHANGED current
        BY <2>4
    <2> QED
        BY <2>1, <2>2, <2>3, <2>4 DEF Next, GraceEnds, SweepReads, PollTick, PollEnds, Put,
            DeleteRow, DeleteEvicts, presence
<1> QED
    BY <1>1, PresenceHolds, PTL DEF Spec, OnlySnapshotsMoveCurrency

\* Registry, presence and live metrics agree, for any number of connections of the id.
THEOREM PresenceAlwaysSound == Spec => []PresenceSound
<1>1. PresenceInv => PresenceSound
    BY DEF PresenceInv, PresenceSound
<1> QED
    BY <1>1, PresenceHolds, PTL
=============================================================================
