------------------------------ MODULE HubStart ------------------------------
(***************************************************************************)
(* The hub process from its arguments to serving (main.rs): the mail-key     *)
(* subcommand, the configuration read first, then the database, the status   *)
(* reset, the first summary, the background tasks and the listener.          *)
(***************************************************************************)
EXTENDS Naturals, Sequences

CONSTANT StoredStatuses   \* what the previous process left a push system's status as

VARIABLES environment,  \* the arguments and variables, chosen once
          step,         \* where `main` and `run` are
          disk,         \* system-hub.db: missing, or there, with the push system's status
          firstSummary, \* the status the first summary shows, or "none"
          resetFailed,  \* the status reset failed
          code          \* the process's exit code, or 0 while it runs

startHubVars == <<environment, step, disk, firstSummary, resetFailed, code>>

EnvUnset == {"unset", "empty"}
Environments ==
    [args : {<<>>, <<"mail-key", "good">>, <<"mail-key", "invalid">>, <<"mail-key", "not_unicode">>,
             <<"mail-key">>, <<"serve">>},
     listen : {"unset", "good", "bad"}, token : {"empty", "set", "not_unicode"},
     static : {"unset", "directory", "missing", "file", "unsearchable"},
     mailDir : {"empty", "maildir", "not_maildir"},
     mailKey : {"unset", "good", "not_base64", "short", "not_unicode"}]

HubStartInit ==
    /\ environment \in Environments /\ step = "args" /\ code = 0 /\ firstSummary = "none"
    /\ resetFailed = FALSE
    /\ disk \in {"missing"} \cup StoredStatuses

Goes(to) == step' = to /\ UNCHANGED <<environment, disk, firstSummary, resetFailed, code>>
Exits(with) == step' = "exited" /\ code' = with /\ UNCHANGED <<environment, disk, firstSummary, resetFailed>>

-----------------------------------------------------------------------------
(* The command line and its exit codes.                                    *)

\* parse_args: no argument serves; mail-key takes one system id.
Command(args) ==
    CASE args = <<>> -> "serve"
      [] Len(args) = 2 /\ args[1] = "mail-key" /\ args[2] = "good" -> "mail_key"
      [] OTHER -> "usage"

\* MailMasterKey::from_base64.
GoodKey(key) == key = "good"

ParseArgs ==
    /\ step = "args"
    /\ CASE Command(environment.args) = "serve" -> Goes("listen")
         [] Command(environment.args) = "mail_key" -> Goes("mail_key")
         [] OTHER -> Exits(64)

\* print_mail_key: a missing or unusable key is 78; else the derived key is printed.
PrintMailKey ==
    /\ step = "mail_key"
    /\ IF GoodKey(environment.mailKey) THEN Goes("printed") \/ Exits(1) ELSE Exits(78)

-----------------------------------------------------------------------------
(* The configuration.                                                      *)

\* ListenAddress, PushAuth and StaticDir from_env, the last checked on disk.
ListenOk == environment.listen # "bad"
TokenOk == environment.token # "not_unicode"
StaticDirOk == environment.static \in EnvUnset \cup {"directory"}

\* mutant: a key without a directory leaves mail off.
MailIntakeLax ==
    IF environment.mailDir \in EnvUnset THEN "off"
    ELSE IF GoodKey(environment.mailKey) THEN "on" ELSE "refused"

\* MailIntakeConfig::from_env: both variables or neither, and a usable key.
MailIntakeConfig ==
    CASE environment.mailKey = "not_unicode" -> "refused"
      [] environment.mailDir \in EnvUnset /\ environment.mailKey \in EnvUnset -> "off"
      [] environment.mailDir \notin EnvUnset /\ GoodKey(environment.mailKey) -> "on"
      [] OTHER -> "refused"

\* check_maildir: its `new` and `cur` are directories.
MaildirOk == MailIntakeConfig = "on" => environment.mailDir = "maildir"

Configuration == <<"listen", "token", "static", "mail", "maildir", "database">>

Configured(i) ==
    CASE i = 1 -> ListenOk [] i = 2 -> TokenOk [] i = 3 -> StaticDirOk
      [] i = 4 -> MailIntakeConfig # "refused" [] i = 5 -> MaildirOk

\* run: each variable in turn; the first that is refused ends the process.
Configure ==
    \E i \in 1..5 :
        /\ step = Configuration[i]
        /\ IF Configured(i) THEN Goes(Configuration[i + 1]) ELSE Exits(1)

-----------------------------------------------------------------------------
(* The database and what follows it.                                       *)

\* Database::new opens or creates the file.
OpenDatabase ==
    /\ step = "database"
    /\ \/ /\ step' = "reset" /\ disk' = IF disk = "missing" THEN "unknown" ELSE disk
          /\ UNCHANGED <<environment, firstSummary, resetFailed, code>>
       \/ Exits(1)

\* mutant: the first summary is built before the reset.
SummaryFirst ==
    /\ step = "reset" /\ step' = "summary" /\ firstSummary' = disk
    /\ disk' = IF disk = "online" THEN "unknown" ELSE disk
    /\ UNCHANGED <<environment, resetFailed, code>>

\* reset_push_status: an online push system becomes unknown; a failure is logged.
ResetPushStatus ==
    /\ step = "reset" /\ step' = "summary"
    /\ disk' = IF disk = "online" THEN "unknown" ELSE disk
    /\ UNCHANGED <<environment, firstSummary, resetFailed, code>>

ResetFails ==
    /\ step = "reset" /\ step' = "summary" /\ resetFailed' = TRUE
    /\ UNCHANGED <<environment, disk, firstSummary, code>>

\* AppState::new: the first summary; a panic or a serialisation error ends the process.
FirstSummary ==
    /\ step = "summary"
    /\ \/ /\ step' = "tasks"
          /\ firstSummary' = IF firstSummary = "none" THEN disk ELSE firstSummary
          /\ UNCHANGED <<environment, disk, resetFailed, code>>
       \/ Exits(1)

\* The collectors, the retention, the publisher, the sweep and the mail intake start.
StartTasks == step = "tasks" /\ Goes("bind")

\* serve: binds, and serves until it fails.
Serve == \/ step = "bind" /\ (Goes("serving") \/ Exits(1))
         \/ step = "serving" /\ Exits(1)

HubStartNext ==
    \/ ParseArgs \/ PrintMailKey \/ Configure \/ OpenDatabase \/ ResetPushStatus \/ ResetFails
    \/ FirstSummary \/ StartTasks \/ Serve

-----------------------------------------------------------------------------
\* A start refused over its arguments or its configuration leaves nothing behind, and mail-key
\* never touches the database, whatever else is configured (`run`: "Configuration first").
RefusedStartLeavesNothing ==
    disk' # disk =>
       /\ Command(environment.args) = "serve"
       /\ ListenOk /\ TokenOk /\ StaticDirOk /\ MaildirOk
       /\ environment.mailDir \in EnvUnset <=> environment.mailKey \in EnvUnset

\* A hub that serves never showed a push status its previous process wrote as if it were live,
\* unless the reset failed (RFC 0016 §4: no connection's end ran since).
FirstSummaryFresh == ~resetFailed => firstSummary # "online"

\* Neither a refused start nor a restart misleads: the first leaves the database alone, the
\* second shows no status of the previous process.
StartsClean ==
    [][/\ FirstSummaryFresh'
       /\ RefusedStartLeavesNothing]_startHubVars
=============================================================================
