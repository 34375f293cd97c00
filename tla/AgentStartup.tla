---------------------------- MODULE AgentStartup ----------------------------
(***************************************************************************)
(* The agent's start: the configuration parsed before the runtime exists,   *)
(* then the environment, the first reading, the scraper, the tasks and the  *)
(* socket, each of which may fail.  A step draws what the environment holds  *)
(* for it; a value is a class of its texts.  Numbers are seconds.           *)
(***************************************************************************)
EXTENDS Integers, Sequences, FiniteSets, SequencesExt

CONSTANTS
    AppNames, AppUrls, AppCredentials,  \* the classes a SPRING_BOOT_APPS entry is drawn from
    MaxEntries,                         \* bound on the entries drawn
    MaxApplications,                    \* MAX_APPLICATIONS
    CredentialKey,                      \* each name's credential key
    Seconds,                            \* the numbers an interval variable is drawn from
    Tokens                              \* the tokens a request is drawn from; "t" is configured

VARIABLES
    agentStep,   \* where the start is
    agentInput,  \* what the last parser read, and made of it
    uplink,      \* "none", "push" or "mail", once known
    agentLeft,   \* what the start has left outside the process so far
    agentExit    \* the exit code, or -1 while it runs

startVars == <<agentStep, agentInput, uplink, agentLeft, agentExit>>

Texts == {"unset", "empty", "not_unicode", "bad", "good"}
Unset == {"unset", "empty"}

-----------------------------------------------------------------------------
(* SPRING_BOOT_APPS and its credentials.                                   *)

Entries == [paired : BOOLEAN, name : AppNames, url : AppUrls, user : AppCredentials,
            password : AppCredentials]

\* Every list of up to MaxEntries entries, and some that are too long.
EntryLists == UNION {[1..n -> Entries] : n \in 1..MaxEntries}
                 \cup {[i \in 1..(MaxApplications + 1) |-> e] : e \in Entries}

ValidNames == DOMAIN CredentialKey

\* ActuatorBaseUrl::parse: the problems in the order they are looked for.
UrlProblem(url) == IF url \in {"https", "http_loopback", "http_remote"} THEN "none" ELSE url

\* Both or neither, then usable: the username's control character, its colon, the password's.
CredentialsProblem(user, password) ==
    CASE "not_unicode" \in {user, password} -> "not_unicode"
      [] {user, password} \subseteq Unset -> "none"
      [] user \in Unset \/ password \in Unset -> "incomplete"
      [] user = "control" -> "control"
      [] user = "colon" -> "colon"
      [] password = "control" -> "control"
      [] OTHER -> "none"

EntryProblem(e) ==
    CASE ~e.paired -> "malformed"
      [] e.paired /\ e.name \notin ValidNames -> "name"
      [] e.paired /\ e.name \in ValidNames /\ UrlProblem(e.url) # "none" -> UrlProblem(e.url)
      [] OTHER -> CredentialsProblem(e.user, e.password)

\* mutant: only equal names are duplicates.
ParseTargetsByName(entries) ==
    FoldLeft(LAMBDA acc, e :
                IF acc.problem # "none" THEN acc
                ELSE IF EntryProblem(e) # "none" THEN [acc EXCEPT !.problem = EntryProblem(e)]
                ELSE IF e.name \in acc.keys THEN [acc EXCEPT !.problem = "duplicate"]
                ELSE [acc EXCEPT !.keys = @ \cup {e.name}, !.targets = Append(@, e)],
             [problem |-> "none", keys |-> {}, targets |-> <<>>], entries)

\* The entries in order; the first problem refuses the start.
ParseTargets(entries) ==
    FoldLeft(LAMBDA acc, e :
                CASE acc.problem # "none" -> acc
                  [] acc.problem = "none" /\ EntryProblem(e) # "none" ->
                        [acc EXCEPT !.problem = EntryProblem(e)]
                  [] acc.problem = "none" /\ EntryProblem(e) = "none"
                        /\ CredentialKey[e.name] \in acc.keys ->
                        [acc EXCEPT !.problem = "duplicate"]
                  [] OTHER -> [acc EXCEPT !.keys = @ \cup {CredentialKey[e.name]},
                                          !.targets = Append(@, e)],
             [problem |-> "none", keys |-> {}, targets |-> <<>>], entries)

\* An interval variable: a number, unset, or no number.
NotSet == -1
NotANumber == -2
Numbers == {NotSet, NotANumber} \cup Seconds
SecondsOr(value, default) == IF value = NotSet THEN default ELSE value

ScrapeIntervalOk(value) == SecondsOr(value, 15) >= 10 /\ SecondsOr(value, 15) <= 3600

\* ApplicationsConfig::parse.
ParseApplications(variable, apps, interval) ==
    CASE variable \in Unset -> [refused |-> FALSE, targets |-> <<>>]
      [] variable = "not_unicode" -> [refused |-> TRUE, targets |-> <<>>]
      [] variable = "set" /\ Len(apps) > MaxApplications -> [refused |-> TRUE, targets |-> <<>>]
      [] OTHER ->
            LET parsed == ParseTargets(apps)
            IN [refused |-> parsed.problem # "none" \/ ~ScrapeIntervalOk(interval),
                targets |-> parsed.targets]

\* Basic credentials that would cross the network in plain text.
PlaintextCredentials(targets) ==
    {i \in DOMAIN targets : targets[i].url = "http_remote" /\ targets[i].user \notin Unset}

-----------------------------------------------------------------------------
(* The MAIL_* variables.                                                   *)

MailEnv == [to : Texts, relay : {"unset", "bad", "loopback", "remote"},
            tls : {"unset", "tls", "none", "bad"}, user : {"unset", "good"},
            password : {"unset", "good"}, key : {"unset", "bad", "good"},
            interval : Numbers, sample : Numbers]

MailIntervalOk(value) == value >= 60 /\ value <= 86400

\* mutant: the count of samples is rounded down.
SampleIntervalFloor(sample, mail) ==
    sample >= 10 /\ sample <= mail /\ mail \div sample <= 60

SampleIntervalOk(sample, mail) ==
    sample >= 10 /\ sample <= mail /\ (mail + sample - 1) \div sample <= 60

\* Plain SMTP only to a loopback relay, and never with credentials.
CheckPlain(env) ==
    env.tls = "none" => env.relay = "loopback" /\ env.user \in Unset

\* MailConfig::parse: off, on, or refused.
ParseMail(env) ==
    CASE env.to \in Unset -> "off"
      [] \/ env.to \in {"not_unicode", "bad"}
         \/ env.relay \in {"unset", "bad"}
         \/ env.tls = "bad"
         \/ (env.user \in Unset) # (env.password \in Unset)
         \/ ~CheckPlain(env)
         \/ env.key # "good"
         -> "refused"
      [] OTHER ->
            LET mail == SecondsOr(env.interval, 300)
            IN IF MailIntervalOk(mail) /\ SampleIntervalOk(SecondsOr(env.sample, 60), mail)
               THEN "on" ELSE "refused"

-----------------------------------------------------------------------------
(* The start.                                                              *)

NoInput == [kind |-> "none"]

StartInit ==
    /\ agentStep = "applications" /\ agentInput = NoInput /\ uplink = "none"
    /\ agentLeft = {} /\ agentExit = -1

Fails(code) == agentStep' = "stopped" /\ agentExit' = code
Goes(step) == agentStep' = step /\ UNCHANGED agentExit

ReadApplications ==
    /\ agentStep = "applications"
    /\ \E variable \in Unset \cup {"not_unicode", "set"}, interval \in Numbers :
       \E apps \in IF variable = "set" THEN EntryLists ELSE {<<>>} :
          LET parsed == ParseApplications(variable, apps, interval)
          IN /\ agentInput' = [kind |-> IF variable = "set" THEN "applications" ELSE "none",
                               apps |-> apps, interval |-> interval, refused |-> parsed.refused, targets |-> parsed.targets]
             /\ IF parsed.refused THEN Fails(78) ELSE Goes("listen")
    /\ UNCHANGED <<uplink, agentLeft>>

\* SYSTEM_AGENT_LISTEN: a literal address and port, or the default.
ReadListen ==
    /\ agentStep = "listen"
    /\ \E value \in Texts : IF value \in {"not_unicode", "bad"} THEN Fails(78) ELSE Goes("uplink")
    /\ agentInput' = NoInput
    /\ UNCHANGED <<uplink, agentLeft>>

\* mutant: the id is resolved before push and mail are known not to be both on.
ReadUplinkLate ==
    /\ agentStep = "uplink"
    /\ agentLeft' = agentLeft \cup {"id_file"}
    /\ Fails(78) \/ Goes("runtime")
    /\ agentInput' = NoInput /\ UNCHANGED uplink

\* Push or mail, never both; the id is resolved, and its file written, only for one of them.
ReadUplink ==
    /\ agentStep = "uplink"
    /\ \E push \in BOOLEAN, env \in MailEnv :
          LET mail == ParseMail(env)
          IN /\ agentInput' = [kind |-> "mail", env |-> env, mail |-> mail]
             /\ uplink' = CASE push /\ mail = "off" -> "push" [] mail = "on" -> "mail"
                            [] OTHER -> "none"
             /\ CASE mail = "refused" \/ (push /\ mail = "on") -> Fails(78)
                  [] ~push /\ mail = "off" -> Goes("runtime")
                  [] OTHER -> Goes("identity")
    /\ UNCHANGED agentLeft

\* A refused id file exits with 78, one that cannot be read or written with 1 (PushIdentity).
ResolveIdentity ==
    /\ agentStep = "identity"
    /\ \/ Fails(78) /\ UNCHANGED agentLeft
       \/ Fails(1) /\ UNCHANGED agentLeft
       \/ /\ Goes(IF uplink = "mail" THEN "relay_ca" ELSE "runtime")
          /\ agentLeft' \in {agentLeft, agentLeft \cup {"id_file"}}
    /\ agentInput' = NoInput
    /\ UNCHANGED uplink

\* What is left may fail, with exit code 1, and none of it is the configuration's fault.
Order == [relay_ca |-> "runtime", runtime |-> "environment", environment |-> "collector",
          collector |-> "scraper", scraper |-> "tasks", bind |-> "serving"]

StartStep ==
    /\ agentStep \in DOMAIN Order
    /\ \/ Goes(Order[agentStep])
          /\ agentLeft' = IF agentStep = "bind" THEN agentLeft \cup {"socket"} ELSE agentLeft
       \/ Fails(1) /\ UNCHANGED agentLeft
    /\ agentInput' = NoInput
    /\ UNCHANGED uplink

\* The collector and the uplink are started before the socket is bound.
StartTasks ==
    /\ agentStep = "tasks"
    /\ Goes("bind")
    /\ agentLeft' = IF uplink = "none" THEN agentLeft ELSE agentLeft \cup {"connections"}
    /\ agentInput' = NoInput
    /\ UNCHANGED uplink

-----------------------------------------------------------------------------
(* Requests, once it serves.                                               *)

Exempt == {"/api/health", "/static/x", "/", "/dashboard", "/index.html"}
Paths == Exempt \cup {"/api/system", "/api/alerts/config", "/statistics"}
Headers == {"none"} \cup Tokens

ExtractAnyToken(r) == IF "t" \in {r.bearer, r.key, r.query} THEN "t" ELSE "none"  \* mutant

\* The first of the bearer header, the key header and the query that is there decides.
ExtractToken(r) ==
    CASE r.bearer # "none" -> r.bearer
      [] r.bearer = "none" /\ r.key # "none" -> r.key
      [] OTHER -> r.query

Admits(configured, r) == ~configured \/ r.path \in Exempt \/ ExtractToken(r) = "t"

ServeRequest ==
    /\ agentStep = "serving"
    /\ \E configured \in BOOLEAN,
          r \in [path : Paths, bearer : Headers, key : Headers, query : Headers] :
          agentInput' = [kind |-> "request", configured |-> configured, request |-> r,
                         admitted |-> Admits(configured, r)]
    /\ UNCHANGED <<agentStep, uplink, agentLeft, agentExit>>

StartNext ==
    \/ ReadApplications \/ ReadListen \/ ReadUplink \/ ResolveIdentity
    \/ StartStep \/ StartTasks \/ ServeRequest

StartSpec == StartInit /\ [][StartNext]_startVars

-----------------------------------------------------------------------------
\* A refused configuration (exit code 78) leaves nothing behind: no id file, no connection to a
\* hub or a relay, no socket.
RefusalLeavesNothing == agentExit = 78 => agentLeft = {}

\* What is scraped is what was configured: in the order given, no two applications with the same
\* credential variables, and every set of credentials whole; and anything else is refused.
ApplicationsSound ==
    agentInput.kind = "applications" =>
        LET apps == agentInput.apps
            sound == /\ Len(apps) <= MaxApplications
                     /\ \A i \in DOMAIN apps : EntryProblem(apps[i]) = "none"
                     /\ \A i, j \in DOMAIN apps :
                           i # j => CredentialKey[apps[i].name] # CredentialKey[apps[j].name]
                     /\ ScrapeIntervalOk(agentInput.interval)
        IN /\ agentInput.refused <=> ~sound
           /\ ~agentInput.refused => agentInput.targets = apps
           /\ ~agentInput.refused =>
                 \A i \in DOMAIN apps \ PlaintextCredentials(apps) :
                     apps[i].user \in Unset \/ apps[i].url \in {"https", "http_loopback"}

\* Mail that is on never sends credentials, or anything to another host, over plain SMTP; and a
\* batch kept at the sample interval never outgrows a report.
MailSound ==
    agentInput.kind = "mail" /\ agentInput.mail = "on" =>
        LET env == agentInput.env
            interval == SecondsOr(env.interval, 300)
            sample == SecondsOr(env.sample, 60)
        IN /\ env.tls = "none" => env.relay = "loopback" /\ env.user = "unset"
                                  /\ env.password = "unset"
           /\ \A n \in {60, 61} : (n - 1) * sample < interval => n <= 60

\* With a token configured, every path but the exempt ones needs it, and a wrong one in an
\* earlier place is not rescued by a right one in a later.
RequestsGuarded ==
    agentInput.kind = "request" /\ agentInput.configured /\ agentInput.admitted =>
        LET r == agentInput.request
        IN \/ r.path \in Exempt
           \/ /\ "t" \in {r.bearer, r.key, r.query}
              /\ r.bearer \in {"none", "t"} /\ (r.bearer = "none" => r.key \in {"none", "t"})

\* A start is refused before it leaves anything behind, and what it accepts is sound: no two
\* applications share a credential, mail batches fit, and a wrong token is not rescued.
StartSound ==
    /\ RefusalLeavesNothing
    /\ ApplicationsSound
    /\ MailSound
    /\ RequestsGuarded
=============================================================================
