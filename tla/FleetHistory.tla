---------------------------- MODULE FleetHistory ----------------------------
(***************************************************************************)
(* The hub's metrics table for one system (db/history.rs): a snapshot       *)
(* series, pruned a little at every insert, and application series, pruned  *)
(* by a pass in batches that lets go of the mutex between any two; and the  *)
(* query both are read by.  A row is its metric, its time and its rowid.    *)
(***************************************************************************)
EXTENDS Integers, Sequences, FiniteSets, FiniteSetsExt, SequencesExt

CONSTANTS OwnRetention,    \* metric_retention rows of the two application metrics
          SnapshotRow,     \* metric_retention row of the snapshot metric
          DefaultRetention,\* 86 400 s, of snapshots and applications, in ticks
          PrunePerPoint, PruneBatch,
          MaxRows,         \* bound: rows ever inserted
          MaxHistoryTime,  \* bound: ticks of the hub's clock
          MaxPasses,       \* bound: pruning passes
          QueryLimits,     \* the limits queries are asked with
          QuerySinces      \* the times they are asked from; -1: none

ASSUME HistoryAssumption ==
    /\ OwnRetention \in [DOMAIN OwnRetention -> Int] /\ "cpu" \notin DOMAIN OwnRetention
    /\ SnapshotRow \in Int /\ {DefaultRetention, PrunePerPoint, PruneBatch} \subseteq Nat
    /\ {MaxRows, MaxHistoryTime, MaxPasses} \subseteq Nat
    /\ QueryLimits \subseteq Nat /\ QuerySinces \subseteq Nat \cup {-1}

VARIABLES wall,     \* the hub's clock
          rows,     \* the metrics table
          rowid,    \* the last rowid
          pass,     \* the pruning pass: its place, its time, the rows it read
          passes, inserted  \* history: how many passes; every row ever inserted

histVars == <<wall, rows, rowid, pass, passes, inserted>>

Apps == DOMAIN OwnRetention
Metrics == Apps \cup {"cpu"}

\* snapshot_retention and the prune statements: a negative row counts as none.
Usable(row) == row >= 0
RetentionOf(row) == IF Usable(row) THEN row ELSE DefaultRetention

\* now.saturating_sub(retention).
Cutoff(now, retention) == IF now > retention THEN now - retention ELSE 0

NoPass == [at |-> "idle", now |-> 0, todo |-> {}]

HistoryInit ==
    /\ wall = 0 /\ rows = {} /\ rowid = 0 /\ pass = NoPass /\ passes = 0 /\ inserted = {}

HistoryTick ==
    /\ wall < MaxHistoryTime /\ wall' = wall + 1
    /\ UNCHANGED <<rows, rowid, pass, passes, inserted>>

-----------------------------------------------------------------------------
(* Inserts.                                                                *)

Row(metric, at) == [metric |-> metric, at |-> at, id |-> rowid + 1]
Insert(new) == rowid < MaxRows /\ rowid' = rowid + 1 /\ inserted' = inserted \cup {new}
Expired(metric, cutoff) == {r \in rows : r.metric = metric /\ r.at < cutoff}

OldestAny(S, n) == kSubset(IF Cardinality(S) < n THEN Cardinality(S) ELSE n, S)  \* mutant

\* ORDER BY timestamp LIMIT n: ties fall either way.
Oldest(S, n) ==
    LET size == IF Cardinality(S) < n THEN Cardinality(S) ELSE n
    IN  {T \in kSubset(size, S) : \A t \in T, s \in S \ T : t.at <= s.at}

\* store_points, for the snapshot's series: the point at the snapshot's time (the agent's own
\* for a pushed frame), then the oldest points past that time's retention, a few at most.
StorePoint(at) ==
    LET new == Row("cpu", at)
        cutoff == Cutoff(at, RetentionOf(SnapshotRow))
    IN  /\ Insert(new)
        /\ \E gone \in Oldest(Expired("cpu", cutoff), PrunePerPoint) :
              rows' = (rows \ gone) \cup {new}
        /\ UNCHANGED <<wall, pass, passes>>

\* store_unexpired_points for a mailed sample delivered late: left out when already expired.
StoreLate(at) ==
    /\ at < wall
    /\ IF at < Cutoff(wall, RetentionOf(SnapshotRow)) THEN UNCHANGED histVars ELSE StorePoint(at)

\* A round's points, at the hub's time.
StoreRoundPoint(metric) ==
    LET new == Row(metric, wall)
    IN  Insert(new) /\ rows' = rows \cup {new} /\ UNCHANGED <<wall, pass, passes>>

-----------------------------------------------------------------------------
(* prune_application_points.                                               *)

BeginPruning ==
    /\ pass.at = "idle" /\ passes < MaxPasses /\ passes' = passes + 1
    /\ pass' = [at |-> "default", now |-> wall, todo |-> {}]
    /\ UNCHANGED <<wall, rows, rowid, inserted>>

PruneEvery ==  \* mutant: metrics with a row of their own are pruned by the default too
    {r \in rows : r.metric \in Apps /\ r.at < Cutoff(pass.now, DefaultRetention)}

\* PRUNE_DEFAULT_RETENTION: the application metrics without a usable row of their own.
ByDefault ==
    {r \in rows : /\ r.metric \in Apps /\ ~Usable(OwnRetention[r.metric])
                  /\ r.at < Cutoff(pass.now, DefaultRetention)}

ByOwnRow(metric) == Expired(metric, Cutoff(pass.now, OwnRetention[metric]))

OneBatch(S, then) ==  \* mutant: one batch, whatever is left
    /\ \E gone \in kSubset(IF Cardinality(S) < PruneBatch THEN Cardinality(S) ELSE PruneBatch, S) :
          rows' = rows \ gone
    /\ pass' = then /\ UNCHANGED <<wall, rowid, passes, inserted>>

\* prune_in_batches: any PRUNE_BATCH of them; again, until a batch comes back short.
Batch(S, then) ==
    LET n == IF Cardinality(S) < PruneBatch THEN Cardinality(S) ELSE PruneBatch
    IN  /\ \E gone \in kSubset(n, S) : rows' = rows \ gone
        /\ pass' = IF n < PruneBatch THEN then ELSE pass
        /\ UNCHANGED <<wall, rowid, passes, inserted>>

\* Then application_retention_rows, each with a cutoff of its own.
PruneByDefault ==
    /\ pass.at = "default"
    /\ Batch(ByDefault, [pass EXCEPT !.at = "own", !.todo = {m \in Apps : Usable(OwnRetention[m])}])

PruneOwn(metric) ==
    /\ pass.at = "own" /\ metric \in pass.todo
    /\ Batch(ByOwnRow(metric), [pass EXCEPT !.todo = @ \ {metric}])

\* Every series is done, or a statement failed: the system's pass is over.
PassOver ==
    /\ pass.at = "own" /\ pass.todo = {} /\ pass' = [pass EXCEPT !.at = "done"]
    /\ UNCHANGED <<wall, rows, rowid, passes, inserted>>

PassFails ==
    /\ pass.at \in {"default", "own"} /\ pass' = NoPass
    /\ UNCHANGED <<wall, rows, rowid, passes, inserted>>

PassForgotten ==
    /\ pass.at = "done" /\ pass' = NoPass /\ UNCHANGED <<wall, rows, rowid, passes, inserted>>

\* A snapshot carries its agent's clock, taken here to be the hub's (a fast one prunes what its
\* own points make old, as ARCHITECTURE.md says); a mailed or delayed point is late.
HistoryNext ==
    \/ HistoryTick \/ BeginPruning \/ PruneByDefault \/ PassOver \/ PassFails \/ PassForgotten
    \/ StorePoint(wall)
    \/ \E at \in 0..MaxHistoryTime : StoreLate(at)
    \/ \E metric \in Apps : StoreRoundPoint(metric) \/ PruneOwn(metric)

HistorySpec == HistoryInit /\ [][HistoryNext]_histVars

-----------------------------------------------------------------------------
(* get_metrics.                                                            *)

\* A query's rows: one metric's, from `since` on.
Found(metric, since) == {r \in rows : r.metric = metric /\ r.at >= since}

\* The rows in time order, as an index scan gives them.
Before(r, s) == r.at < s.at \/ (r.at = s.at /\ r.id < s.id)
Ascending(S) ==
    CHOOSE s \in [1..Cardinality(S) -> S] : \A i, j \in DOMAIN s : i < j => Before(s[i], s[j])

TakenFirst(s, n) == IF Len(s) < n THEN s ELSE SubSeq(s, 1, n)

NotReversed(metric, limit, since) ==  \* mutant
    LET all == Ascending(Found(metric, since))
    IN  TakenFirst(IF since = -1 THEN Reverse(all) ELSE all, limit)

\* Oldest first from `since`; with none (-1), the latest `limit`, reversed.
GetMetrics(metric, limit, since) ==
    LET all == Ascending(Found(metric, since))
    IN  IF since = -1 THEN Reverse(TakenFirst(Reverse(all), limit)) ELSE TakenFirst(all, limit)

-----------------------------------------------------------------------------
\* A finished pass leaves no application point that was past its metric's retention when the
\* pass began, however the rounds stored between its batches fall (prune_in_batches).
PassLeavesNothingExpired ==
    pass.at = "done" =>
        \A r \in rows : r.metric \in Apps => r.at >= Cutoff(pass.now, RetentionOf(OwnRetention[r.metric]))

\* No row is lost within its retention: a pass takes only rows past the retention of their own
\* metric, its own row before the default, by the hub's clock; an insert only rows of its series.
FreshRowsKept ==
    \A r \in inserted \ rows :
        r.at < Cutoff(wall, RetentionOf(IF r.metric = "cpu" THEN SnapshotRow ELSE OwnRetention[r.metric]))

\* Pruned oldest first, an application's or an honest agent's history has no holes: of the
\* snapshot rows ever inserted in time order, those kept are the newest.
SnapshotHistoryWhole ==
    \A r \in inserted \ rows, s \in rows :
        (r.metric = "cpu" /\ s.metric = "cpu" /\ r.at > s.at) => s.id > r.id

\* A query returns its rows oldest first and without a gap: nothing of the series in the range
\* asked for lies between two rows returned, and with no `since` the newest row is among them.
QueriesWhole ==
    \A metric \in Metrics, limit \in QueryLimits, since \in QuerySinces :
        LET got == GetMetrics(metric, limit, since)
            asked == {r \in rows : r.metric = metric /\ r.at >= since}
        IN  /\ Range(got) \subseteq asked
            /\ Len(got) = IF Cardinality(asked) < limit THEN Cardinality(asked) ELSE limit
            /\ \A i \in 1..(Len(got) - 1) :
                  /\ got[i].at <= got[i + 1].at
                  /\ ~\E r \in asked : got[i].at < r.at /\ r.at < got[i + 1].at
            /\ since = -1 /\ got # <<>> => \A r \in asked : r.at <= got[Len(got)].at

\* Pruning between inserts takes what is expired and nothing else, leaves no hole, and queries
\* return a whole stretch.
HistoryKept ==
    /\ PassLeavesNothingExpired
    /\ SnapshotHistoryWhole
    /\ QueriesWhole
    /\ FreshRowsKept
=============================================================================
