---------------------------- MODULE SummaryFeed -----------------------------
(***************************************************************************)
(* The dashboard's summary (routes/sse.rs, RFC 0007 §5): one publisher       *)
(* builds it every period on the blocking pool, from reads that other writers *)
(* come between, and replaces the watched value; each subscriber gets the     *)
(* current value first and then skips to the latest.                          *)
(*                                                                         *)
(* The registry with its alerts, and the live metrics, are each a version    *)
(* number: list_systems and count_active_alerts, which fail separately in the *)
(* code, are one read of the first.                                          *)
(***************************************************************************)
EXTENDS Naturals, FiniteSets

CONSTANTS Subscribers,
          MaxVersion,     \* bound: changes of the registry and of the live metrics
          MaxReadErrors   \* bound: reads and builds that fail

ASSUME FeedAssumption == MaxVersion \in Nat /\ MaxReadErrors \in Nat

VARIABLES registry, live,   \* the state the summary is of
          build,            \* the build on the blocking pool: its place and what it has read
          summary,          \* the watch channel's value
          subs,             \* each subscriber: subscribed, a value unseen, the last event
          readErrors,
          newest            \* history: the last summary a build finished

feedVars == <<registry, live, build, summary, subs, readErrors, newest>>

\* list_systems failed: the summary shows no systems.
NoSystems == MaxVersion + 1
NoEvent == [systems |-> 0, live |-> 0]
NoSub == [on |-> FALSE, changed |-> FALSE, got |-> FALSE, event |-> NoEvent]
NewSub == [on |-> TRUE, changed |-> TRUE, got |-> FALSE, event |-> NoEvent]
NoBuild == [at |-> "idle", systems |-> 0, live |-> 0]

\* AppState::new builds the first summary, before anything serves.
FeedInit ==
    /\ registry = 0 /\ live = 0 /\ build = NoBuild /\ readErrors = 0
    /\ summary \in {[systems |-> 0, live |-> 0], [systems |-> NoSystems, live |-> 0]}
    /\ subs = [s \in Subscribers |-> NoSub] /\ newest = summary

RegistryChanges ==
    /\ registry < MaxVersion /\ registry' = registry + 1
    /\ UNCHANGED <<live, build, summary, subs, readErrors, newest>>

LiveChanges ==
    /\ live < MaxVersion /\ live' = live + 1
    /\ UNCHANGED <<registry, build, summary, subs, readErrors, newest>>

-----------------------------------------------------------------------------
(* The publisher: one tick's build is awaited before the next.             *)

\* publish_every's tick, and list_systems with count_active_alerts: none is shown when they fail.
ReadRegistry ==
    /\ build.at = "idle"
    /\ \/ build' = [at |-> "live", systems |-> registry, live |-> 0] /\ UNCHANGED readErrors
       \/ /\ readErrors < MaxReadErrors /\ readErrors' = readErrors + 1
          /\ build' = [at |-> "live", systems |-> NoSystems, live |-> 0]
    /\ UNCHANGED <<registry, live, summary, subs, newest>>

\* A copy of the live entries' pointers, under their read lock.
ReadLive ==
    /\ build.at = "live" /\ build' = [build EXCEPT !.at = "publish", !.live = live]
    /\ UNCHANGED <<registry, live, summary, subs, readErrors, newest>>

Built == [systems |-> build.systems, live |-> build.live]
Woken == [s \in Subscribers |-> [subs[s] EXCEPT !.changed = @ \/ subs[s].on]]

PublishIfWatched ==  \* mutant: `send`, which stores nothing while no receiver exists
    /\ build.at = "publish" /\ build' = NoBuild /\ newest' = Built
    /\ IF \E s \in Subscribers : subs[s].on
       THEN summary' = Built /\ subs' = Woken ELSE UNCHANGED <<summary, subs>>
    /\ UNCHANGED <<registry, live, readErrors>>

PublishQuietly ==  \* mutant: the value is replaced, and its receivers are not woken
    /\ build.at = "publish" /\ build' = NoBuild /\ summary' = Built /\ newest' = Built
    /\ UNCHANGED <<registry, live, subs, readErrors>>

\* publish: send_replace stores the summary and marks it changed for every subscriber.
Publish ==
    /\ build.at = "publish" /\ build' = NoBuild /\ summary' = Built /\ newest' = Built
    /\ subs' = Woken /\ UNCHANGED <<registry, live, readErrors>>

PublishEmpty ==  \* mutant: a failed build publishes what was never read
    /\ build.at \in {"live", "publish"} /\ readErrors < MaxReadErrors
    /\ readErrors' = readErrors + 1 /\ build' = NoBuild
    /\ summary' = [systems |-> 0, live |-> 0] /\ newest' = summary' /\ subs' = Woken
    /\ UNCHANGED <<registry, live>>

\* The build panics, or the summary can't be serialised: the previous one stays.
BuildFails ==
    /\ build.at \in {"live", "publish"} /\ readErrors < MaxReadErrors
    /\ readErrors' = readErrors + 1 /\ build' = NoBuild
    /\ UNCHANGED <<registry, live, summary, subs, newest>>

-----------------------------------------------------------------------------
(* Subscribers.                                                            *)

\* A WatchStream yields the value it finds, then waits for changes.
Subscribe(s) ==
    /\ ~subs[s].on /\ subs' = [subs EXCEPT ![s] = NewSub]
    /\ UNCHANGED <<registry, live, build, summary, readErrors, newest>>

Deliver(s) ==
    /\ subs[s].on /\ subs[s].changed
    /\ subs' = [subs EXCEPT ![s].changed = FALSE, ![s].got = TRUE, ![s].event = summary]
    /\ UNCHANGED <<registry, live, build, summary, readErrors, newest>>

Unsubscribe(s) ==
    /\ subs[s].on /\ subs' = [subs EXCEPT ![s] = NoSub]
    /\ UNCHANGED <<registry, live, build, summary, readErrors, newest>>

FeedNext ==
    \/ RegistryChanges \/ LiveChanges \/ ReadRegistry \/ ReadLive \/ Publish \/ BuildFails
    \/ \E s \in Subscribers : Subscribe(s) \/ Deliver(s) \/ Unsubscribe(s)

FeedSpec == FeedInit /\ [][FeedNext]_feedVars

-----------------------------------------------------------------------------
\* What a dashboard is shown never goes back in time: each event's systems and live metrics are
\* at least as new as the previous event's, or its registry read failed and shows none.
EventsNeverGoBack ==
    \A s \in Subscribers :
       (subs[s].got /\ subs'[s].got) =>
           /\ subs'[s].event.live >= subs[s].event.live
           /\ subs[s].event.systems # NoSystems
                 => subs'[s].event.systems >= subs[s].event.systems

\* A dashboard opened while nobody was watching starts from the last summary built, not from the
\* one of the hub's start (`send_replace`).
NewcomersUpToDate == summary = newest

\* When nothing changes any more, every dashboard that stays open shows the state as it is, for
\* a build may fail, and may fall between two writers, but the next one follows.
DashboardsConverge ==
    \A s \in Subscribers : <>[](subs[s].on) =>
        <>[](subs[s].event = [systems |-> registry, live |-> live])

\* A dashboard starts from the last summary built and never goes back in time, whatever builds
\* fail or interleave with writers.
FeedNeverGoesBack ==
    [][/\ NewcomersUpToDate'
       /\ EventsNeverGoBack]_feedVars
=============================================================================
