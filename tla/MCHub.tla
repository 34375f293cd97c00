------------------------------- MODULE MCHub --------------------------------
(***************************************************************************)
(* The hub's parts whose properties are about time: the registry and its     *)
(* pollers, the push sockets, and the summary feed, side by side as in       *)
(* MCAgent.  `hubPart` is the one that runs, under its own fairness.         *)
(***************************************************************************)
EXTENDS HubRegistry, PushSession, SummaryFeed

VARIABLE hubPart

hubVars == <<hubPart, regVars, sessVars, feedVars>>

HubInit ==
    /\ hubPart \in {"registry", "sessions", "feed"}
    /\ RegistryInit /\ SessionInit /\ FeedInit
    /\ hubPart # "registry" => /\ agent = CHOOSE a \in [up : {TRUE}, cap : Capacities] : TRUE
                               /\ ~sysrow.exists
    /\ hubPart # "sessions" => auth = "open" /\ known = "push"
    /\ hubPart # "feed" => summary.systems = 0

HubNext ==
    \/ hubPart = "registry" /\ RegistryNext /\ UNCHANGED <<hubPart, sessVars, feedVars>>
    \/ hubPart = "sessions" /\ SessionNext /\ UNCHANGED <<hubPart, regVars, feedVars>>
    \/ hubPart = "feed" /\ FeedNext /\ UNCHANGED <<hubPart, regVars, sessVars>>

\* tokio's interval ticks for ever and runs what was spawned; each request has a timeout; a
\* handler that has its row's answer writes it.
RegistryFairness ==
    /\ \A p \in Polls : /\ WF_regVars(hubPart = "registry" /\ PollTick(p))
                        /\ WF_regVars(hubPart = "registry" /\ PollSteps(p))
    /\ WF_regVars(hubPart = "registry" /\ FillSteps)
    /\ WF_regVars(hubPart = "registry" /\ PutWrites)

\* Time passes, and the runtime runs what is ready: a timer that fired, a unit of the blocking
\* pool, a send under its timeout.
SessionFairness ==
    /\ WF_sessVars(hubPart = "sessions" /\ SessionTick)
    /\ \A s \in Sockets : WF_sessVars(hubPart = "sessions" /\ HubSteps(s))

\* The publisher's interval ticks for ever; a stream that is polled yields what is there.
FeedFairness ==
    /\ WF_feedVars(hubPart = "feed" /\ (ReadRegistry \/ ReadLive \/ Publish))
    /\ \A s \in Subscribers : WF_feedVars(hubPart = "feed" /\ Deliver(s))

HubSpec ==
    /\ HubInit /\ [][HubNext]_hubVars
    /\ RegistryFairness /\ SessionFairness /\ FeedFairness
=============================================================================
