---------------------------- MODULE PushSession -----------------------------
(***************************************************************************)
(* The life of the hub's push sockets (push/mod.rs, RFC 0007 §3-4): the      *)
(* handshake under its deadline, the refusals and their answers, the         *)
(* receive loop under the idle deadline, the oversize linger, and the one    *)
(* unit that ends a connection.  Meanwhile the operator deletes the row or   *)
(* PUTs another url, and a mailed report registers it anew.  What a frame    *)
(* does once decoded is PushPresence's and RoundIntake's.                    *)
(*                                                                         *)
(* A deadline is a countdown of ticks.  One that has run out may still lose  *)
(* to a message: the receive is polled before its timer.  A send has one     *)
(* too: it is delivered or it is not.                                        *)
(***************************************************************************)
EXTENDS Naturals, FiniteSets

CONSTANTS Sockets,
          HandshakeTimeout, IdleTimeout, OversizeLinger,  \* in ticks
          WarningEvery    \* the hourly warning's spacing, in ticks

ASSUME SessionAssumption ==
    /\ HandshakeTimeout \in Nat /\ IdleTimeout \in Nat
    /\ OversizeLinger \in Nat /\ WarningEvery \in Nat

VARIABLES auth,      \* PushAuth: Open or Required
          known,     \* the registry row the sockets' id has: absent, push, polled or mail
          sess,      \* each socket: where it is, its deadline's countdown (0 without one), ...
          outlived,  \* for the property only: the sockets let in under an earlier row or url
          silent,    \* the sockets whose client sends nothing more, not even a close
          warnAge    \* ticks since the mail system's mismatch was warned about, saturated

sessVars == <<auth, known, sess, outlived, silent, warnAge>>

FirstMessages == [shape : BOOLEAN, token : BOOLEAN, id : {"good", "invalid"}]
Rejections == {"expected auth message", "invalid token", "invalid system_id"}
Answers == Rejections \cup
           {"handshake timeout", "transport mismatch", "registry unavailable", "auth_ok"}

\* A socket just upgraded, its first receive under the handshake deadline.
Upgraded == [at |-> "handshake", wait |-> HandshakeTimeout, token |-> FALSE,
             answer |-> "none", lease |-> FALSE, held |-> 0]

SessionInit ==
    /\ auth \in {"open", "required"} /\ known \in {"absent", "push", "polled", "mail"}
    /\ sess = [s \in Sockets |-> [Upgraded EXCEPT !.at = "none"]]
    /\ outlived = {} /\ silent = {} /\ warnAge = WarningEvery

Upgrade(s) ==
    /\ sess[s].at = "none" /\ sess' = [sess EXCEPT ![s] = Upgraded]
    /\ UNCHANGED <<auth, known, outlived, silent, warnAge>>

LessRaw(n) == n - 1  \* mutant: a timer at zero wraps

Less(n) == IF n = 0 THEN 0 ELSE n - 1

\* A tick of every countdown; `held` counts a linger's ticks.
SessionTick ==
    /\ sess' = [s \in Sockets |->
                  [sess[s] EXCEPT !.wait = Less(@),
                                  !.held = IF sess[s].at = "lingering" /\ sess[s].wait > 0
                                           THEN @ + 1 ELSE @]]
    /\ warnAge' = IF warnAge < WarningEvery THEN warnAge + 1 ELSE warnAge
    /\ UNCHANGED <<auth, known, outlived, silent>>

GoesSilent(s) ==
    /\ s \notin silent /\ sess[s].at \notin {"none", "over"} /\ silent' = silent \cup {s}
    /\ UNCHANGED <<auth, known, sess, outlived, warnAge>>

-----------------------------------------------------------------------------
(* The handshake.                                                          *)

\* mutant: an unauthenticated client learns whether its id is well formed.
AuthenticateIdFirst(m) ==
    IF ~m.shape THEN "expected auth message"
    ELSE IF m.id = "invalid" THEN "invalid system_id"
    ELSE IF auth = "required" /\ ~m.token THEN "invalid token"
    ELSE "none"

\* authenticate: the shape, then the token, then the id; "none" is the id accepted.
Authenticate(m) ==
    IF ~m.shape THEN "expected auth message"
    ELSE IF auth = "required" /\ ~m.token THEN "invalid token"
    ELSE IF m.id = "invalid" THEN "invalid system_id"
    ELSE "none"

\* A refusal, or auth_ok, goes to the socket under SEND_TIMEOUT.
Answering(s, answer) == [s EXCEPT !.at = "answering", !.wait = 0, !.answer = answer]

\* The first message is text: its rejection is answered, or its id goes to the registry.
FirstText(s) ==
    /\ sess[s].at = "handshake" /\ s \notin silent
    /\ \E m \in FirstMessages :
          sess' = [sess EXCEPT ![s] =
                     IF Authenticate(m) = "none"
                     THEN [@ EXCEPT !.at = "registering", !.wait = 0, !.token = m.token]
                     ELSE Answering([@ EXCEPT !.token = m.token], Authenticate(m))]
    /\ UNCHANGED <<auth, known, outlived, silent, warnAge>>

\* Any other message, an oversize one, a close or an error: no answer.
FirstOther(s) ==
    /\ sess[s].at = "handshake" /\ s \notin silent
    /\ sess' = [sess EXCEPT ![s].at = "over", ![s].wait = 0]
    /\ UNCHANGED <<auth, known, outlived, silent, warnAge>>

HandshakeTimesOut(s) ==
    /\ sess[s].at = "handshake" /\ sess[s].wait = 0
    /\ sess' = [sess EXCEPT ![s] = Answering(@, "handshake timeout")]
    /\ UNCHANGED <<auth, known, outlived, silent, warnAge>>

\* What a registration finds: no row, one whose url is the push sentinel, or another's.
Registration ==
    CASE known = "absent" -> "Inserted"
      [] known = "push" -> "Same"
      [] known = "mail" -> "Mail"
      [] known = "polled" -> "Other"

\* mutant: a mail system's id is admitted like a push system's.
RegisterMail(s) ==
    /\ sess[s].at = "registering"
    /\ known' = IF known = "absent" THEN "push" ELSE known
    /\ sess' = [sess EXCEPT ![s] = [Answering(@, "auth_ok") EXCEPT !.lease = known # "polled"]]
    /\ UNCHANGED <<auth, outlived, silent, warnAge>>

\* register: a new id gets its row and, like a push system's, the connection its lease; a polled
\* system's id gets no lease; a mail system's is refused, with a warning at most hourly.
Register(s) ==
    /\ sess[s].at = "registering"
    /\ IF Registration = "Mail"
       THEN /\ sess' = [sess EXCEPT ![s] = Answering(@, "transport mismatch")]
            /\ warnAge' = IF warnAge = WarningEvery THEN 0 ELSE warnAge
            /\ UNCHANGED known
       ELSE /\ known' = IF Registration = "Inserted" THEN "push" ELSE known
            /\ sess' = [sess EXCEPT ![s] =
                          [Answering(@, "auth_ok") EXCEPT !.lease = Registration # "Other"]]
            /\ UNCHANGED warnAge
    /\ UNCHANGED <<auth, outlived, silent>>

\* The database fails, or the unit panics.
RegisterFails(s) ==
    /\ sess[s].at = "registering"
    /\ sess' = [sess EXCEPT ![s] = Answering(@, "registry unavailable")]
    /\ UNCHANGED <<auth, known, outlived, silent, warnAge>>

AfterAnswerDropped(s, delivered) ==  \* mutant: an undelivered auth_ok just returns
    IF s.answer # "auth_ok" \/ ~delivered THEN [s EXCEPT !.at = "over"]
    ELSE [s EXCEPT !.at = "receiving", !.wait = IdleTimeout]

\* send_answer: a refused handshake is over whether or not its answer arrived; an authenticated
\* one receives if it did, and ends if it did not.
AfterAnswer(s, delivered) ==
    IF s.answer # "auth_ok" THEN [s EXCEPT !.at = "over"]
    ELSE IF delivered THEN [s EXCEPT !.at = "receiving", !.wait = IdleTimeout]
    ELSE [s EXCEPT !.at = "ending"]

AnswerSent(s) ==
    /\ sess[s].at = "answering"
    /\ \E delivered \in BOOLEAN : sess' = [sess EXCEPT ![s] = AfterAnswer(@, delivered)]
    /\ UNCHANGED <<auth, known, outlived, silent, warnAge>>

-----------------------------------------------------------------------------
(* receive_frames.                                                         *)

\* A binary message: out of budget, undecodable or refused, it is counted; otherwise it is
\* ingested on the blocking pool, and the socket is not read meanwhile.
Binary(s) ==
    /\ sess[s].at = "receiving" /\ s \notin silent
    /\ \/ sess' = [sess EXCEPT ![s].wait = IdleTimeout]
       \/ sess' = [sess EXCEPT ![s].at = "ingesting", ![s].wait = 0]
    /\ UNCHANGED <<auth, known, outlived, silent, warnAge>>

\* The unit is done, and the idle deadline starts anew: the store asks only that a row is there,
\* whoever feeds it.  The system is gone, or the unit panicked, and the connection stops.
Ingested(s) ==
    /\ sess[s].at = "ingesting"
    /\ \/ /\ known # "absent"
          /\ sess' = [sess EXCEPT ![s].at = "receiving", ![s].wait = IdleTimeout]
       \/ sess' = [sess EXCEPT ![s].at = "ending"]
    /\ UNCHANGED <<auth, known, outlived, silent, warnAge>>

\* A text, a ping or a pong: tungstenite answers pings; the deadline starts anew.
Other(s) ==
    /\ sess[s].at = "receiving" /\ s \notin silent
    /\ sess' = [sess EXCEPT ![s].wait = IdleTimeout]
    /\ UNCHANGED <<auth, known, outlived, silent, warnAge>>

IdleUnbounded(s) == FALSE  \* mutant: the receive has no deadline

IdleTimesOut(s) ==
    /\ sess[s].at = "receiving" /\ sess[s].wait = 0
    /\ sess' = [sess EXCEPT ![s].at = "ending"]
    /\ UNCHANGED <<auth, known, outlived, silent, warnAge>>

\* The peer closed, the socket errored or the stream ended.
Ended(s) ==
    /\ sess[s].at = "receiving" /\ s \notin silent
    /\ sess' = [sess EXCEPT ![s].at = "ending", ![s].wait = 0]
    /\ UNCHANGED <<auth, known, outlived, silent, warnAge>>

OversizeDropped(s) ==  \* mutant: dropped at once
    /\ sess[s].at = "receiving" /\ s \notin silent
    /\ sess' = [sess EXCEPT ![s].at = "lingering", ![s].wait = 0]
    /\ UNCHANGED <<auth, known, outlived, silent, warnAge>>

\* A message over the size limit: the socket is held unread for the linger.
Oversize(s) ==
    /\ sess[s].at = "receiving" /\ s \notin silent
    /\ sess' = [sess EXCEPT ![s].at = "lingering", ![s].wait = OversizeLinger]
    /\ UNCHANGED <<auth, known, outlived, silent, warnAge>>

LingerOver(s) ==
    /\ sess[s].at = "lingering" /\ sess[s].wait = 0
    /\ sess' = [sess EXCEPT ![s].at = "ending"]
    /\ UNCHANGED <<auth, known, outlived, silent, warnAge>>

\* end_connection on the blocking pool: the lease is taken, and with it the presence's end runs;
\* a unit that panics drops the lease with it.
EndConnection(s) ==
    /\ sess[s].at = "ending"
    /\ sess' = [sess EXCEPT ![s].at = "over", ![s].lease = FALSE, ![s].held = 0]
    /\ outlived' = outlived \ {s} /\ UNCHANGED <<auth, known, silent, warnAge>>

-----------------------------------------------------------------------------
(* The others who write the row.                                           *)

LetIn == {s \in Sockets : sess[s].answer = "auth_ok" /\ sess[s].at # "over"}

\* DELETE /api/systems/{id}: no connection is told.
RowDeleted ==
    /\ known # "absent" /\ known' = "absent" /\ outlived' = LetIn
    /\ UNCHANGED <<auth, sess, silent, warnAge>>

\* PUT /api/systems/{id} with a url, which may be a sentinel.
RowMoved ==
    /\ known # "absent" /\ known' \in {"push", "polled", "mail"} /\ outlived' = LetIn
    /\ UNCHANGED <<auth, sess, silent, warnAge>>

\* store_mail_report: an unknown sender's first report registers it as a mail system.
MailRegisters ==
    /\ known = "absent" /\ known' = "mail"
    /\ UNCHANGED <<auth, sess, outlived, silent, warnAge>>

HubSteps(s) ==
    \/ HandshakeTimesOut(s) \/ Register(s) \/ AnswerSent(s) \/ Ingested(s) \/ IdleTimesOut(s)
    \/ LingerOver(s) \/ EndConnection(s)

SessionNext ==
    \/ SessionTick \/ RowDeleted \/ RowMoved \/ MailRegisters
    \/ \E s \in Sockets :
          \/ Upgrade(s) \/ GoesSilent(s) \/ FirstText(s) \/ FirstOther(s) \/ RegisterFails(s)
          \/ Binary(s) \/ Other(s) \/ Ended(s) \/ Oversize(s) \/ HubSteps(s)

SessionSpec == SessionInit /\ [][SessionNext]_sessVars

-----------------------------------------------------------------------------
Places == {"none", "handshake", "registering", "answering", "receiving", "ingesting",
           "lingering", "ending", "over"}

SessionTypeOK ==
    /\ auth \in {"open", "required"} /\ known \in {"absent", "push", "polled", "mail"}
    /\ \A s \in Sockets :
          /\ sess[s].at \in Places /\ sess[s].token \in BOOLEAN
          /\ sess[s].wait \in Nat /\ sess[s].held \in 0..OversizeLinger
          /\ sess[s].answer \in Answers \cup {"none"} /\ sess[s].lease \in BOOLEAN
    /\ outlived \subseteq Sockets /\ silent \subseteq Sockets /\ warnAge \in 0..WarningEvery

\* A client without the token learns nothing of ids and leaves nothing: whatever id it named, its
\* answer is one the token or the shape decides, and it holds no lease (`authenticate`).
NoProbing ==
    \A s \in Sockets :
        (auth = "required" /\ ~sess[s].token) =>
            /\ sess[s].answer \in {"none", "expected auth message", "invalid token",
                                   "handshake timeout"}
            /\ ~sess[s].lease /\ sess[s].at \notin {"receiving", "ingesting", "lingering"}

\* A refused handshake leaves no lease, and a connection that is over has given its lease back,
\* also when its auth_ok could not be sent (handle_push's one exit).
LeasesReturned ==
    \A s \in Sockets : sess[s].lease => sess[s].answer = "auth_ok" /\ sess[s].at # "over"

\* No push connection is let in to a mail system's row, or to none: one that is there, and that
\* the store would take a snapshot from, was let in before a DELETE or a PUT of the operator's.
OnlyOutlivedFeedMail == known \in {"mail", "absent"} => LetIn \subseteq outlived

\* An authenticated sender of an oversize message is held for the whole linger before its
\* connection ends, so that an agent without backoff waits too.
OversizeHeld ==
    \A s \in Sockets : (sess[s].at = "lingering" /\ sess'[s].at = "ending")
         => sess[s].held = OversizeLinger

\* A client that falls silent, at any point of its connection, is let go of in the end and its
\* lease is back: no receive, send or unit is waited for without a bound.
SilentLetGo == \A s \in Sockets : s \in silent ~> sess[s].at = "over" /\ ~sess[s].lease

\* On every path out of a push connection its lease comes back; no answer tells a client without
\* the token which ids exist, a mail system's row is fed by no connection but one that outlived a
\* change of the row, and the sender of an oversize message is held for the linger.
SocketsSafe ==
    [][/\ (SessionTypeOK /\ NoProbing /\ LeasesReturned /\ OnlyOutlivedFeedMail)'
       /\ OversizeHeld]_sessVars
=============================================================================
