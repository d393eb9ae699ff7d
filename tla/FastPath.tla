------------------------------ MODULE FastPath ------------------------------
(***************************************************************************)
(* One operation on an org, by the direct API when possible and by the CLI *)
(* when not: readFast() of server/src/sf/runtime.ts over send() and soap() *)
(* of server/src/sf/api.ts, with the tokens of module AuthProvider.        *)
(* apex.ts and data.ts use readFast() for writes as well as for reads.     *)
(*                                                                         *)
(* A request travels to the org and is handled there, or not, whatever     *)
(* becomes of its response.                                                *)
(***************************************************************************)
EXTENDS AuthProvider

VARIABLES
  pc,       \* where each request is
  proto,    \* "rest": send();  "soap": soap()
  write,    \* whether the request changes the org
  attempt,  \* attempt number of send()
  msg,      \* the HTTP request: not sent, travelling, or the org's response
  applied,  \* times the org carried out the request's change
  lost,     \* requests whose HTTP response was lost, late or a server error
  gone,     \* requests whose client has disconnected
  why       \* what a failed request reports

vars == <<authVars, pc, proto, write, attempt, msg, applied, lost, gone, why>>
request == <<proto, write, attempt>>

PCs == {"idle", "auth", "sent", "cli", "done", "failed"}
\* What has become of the HTTP request.  "echoed": it was carried out, and the
\* text of the response holds the words INVALID_SESSION_ID somewhere.
Messages == {"none", "travelling", "ok", "echoed", "refused", "401"}
Reasons == {"none", "org", "session", "cli", "aborted"}

TypeOK ==
  /\ AuthTypeOK
  /\ pc \in [Reqs -> PCs]
  /\ proto \in [Reqs -> {"rest", "soap"}]
  /\ write \in [Reqs -> BOOLEAN]
  /\ attempt \in [Reqs -> 0 .. 1]
  /\ msg \in [Reqs -> Messages]
  /\ applied \in [Reqs -> 0 .. 2]
  /\ lost \subseteq Reqs
  /\ gone \subseteq Reqs
  /\ why \in [Reqs -> Reasons]

Init ==
  /\ AuthInit
  /\ pc = [c \in Reqs |-> "idle"]
  /\ proto = [c \in Reqs |-> "rest"]
  /\ write = [c \in Reqs |-> FALSE]
  /\ attempt = [c \in Reqs |-> 0]
  /\ msg = [c \in Reqs |-> "none"]
  /\ applied = [c \in Reqs |-> 0]
  /\ lost = {}
  /\ gone = {}
  /\ why = [c \in Reqs |-> "none"]

Go(c, to) == pc' = [pc EXCEPT ![c] = to] /\ UNCHANGED why
Report(c, reason) ==
  /\ pc' = [pc EXCEPT ![c] = "failed"]
  /\ why' = [why EXCEPT ![c] = reason]

-----------------------------------------------------------------------------
(* The direct path.                                                        *)

Begin(c) ==
  /\ pc[c] = "idle"
  /\ Go(c, "auth")
  /\ \E p \in {"rest", "soap"}, w \in BOOLEAN :
       proto' = [proto EXCEPT ![c] = p] /\ write' = [write EXCEPT ![c] = w]
  /\ UNCHANGED <<authVars, attempt, msg, applied, lost, gone>>

\* credentials(): ask for a token.
Ask(c) ==
  /\ pc[c] = "auth"
  /\ Auth(c)
  /\ UNCHANGED <<pc, request, msg, applied, lost, gone, why>>

\* credentials() throws FastPathUnavailable, and readFast() falls back.
NoToken(c) ==
  /\ pc[c] = "auth"
  /\ given[c] = 0
  /\ Go(c, "cli")
  /\ UNCHANGED <<authVars, request, msg, applied, lost, gone>>

Send(c) ==
  /\ pc[c] = "auth"
  /\ given[c] \in Sessions
  /\ Go(c, "sent")
  /\ msg' = [msg EXCEPT ![c] = "travelling"]
  /\ UNCHANGED <<authVars, request, applied, lost, gone>>

\* The org checks the session, then carries the request out or refuses it.
\* It may do so after the server has given up on the response.  A SOAP response
\* may speak of an invalid session, in a fault, a row or the debug log that
\* executeAnonymous() asks for, though the session is good.
OrgHandles(c) ==
  /\ msg[c] = "travelling"
  /\ \/ /\ given[c] # session \/ proto[c] = "soap"
        /\ msg' = [msg EXCEPT ![c] = "401"] /\ UNCHANGED applied
     \/ given[c] = session /\ msg' = [msg EXCEPT ![c] = "refused"] /\ UNCHANGED applied
     \/ /\ given[c] = session
        /\ \E m \in {"ok"} \cup (IF proto[c] = "soap" THEN {"echoed"} ELSE {}) :
             msg' = [msg EXCEPT ![c] = m]
        /\ applied' = IF write[c] THEN [applied EXCEPT ![c] = @ + 1] ELSE applied
  /\ UNCHANGED <<authVars, pc, request, lost, gone, why>>

\* Mutant: the empty body of a 204 is an unreadable response.
AcceptedUnreadable(c) ==
  /\ pc[c] = "sent" /\ msg[c] = "ok"
  /\ Go(c, "cli")
  /\ UNCHANGED <<authVars, request, msg, applied, lost, gone>>

Accepted(c) ==
  /\ pc[c] = "sent" /\ msg[c] = "ok"
  /\ Go(c, "done")
  /\ UNCHANGED <<authVars, request, msg, applied, lost, gone>>

\* A 4xx with an error code, or a SOAP fault, is the org's answer ...
Refused(c) ==
  /\ pc[c] = "sent" /\ msg[c] = "refused"
  /\ Report(c, "org")
  /\ UNCHANGED <<authVars, request, msg, applied, lost, gone>>

\* ... but not a 403, a 429, or a refusal without code or fault.
Throttled(c) ==
  /\ pc[c] = "sent" /\ msg[c] = "refused"
  /\ Go(c, "cli")
  /\ UNCHANGED <<authVars, request, msg, applied, lost, gone>>

\* Mutant: the rejected token is not expired.
KeepToken == UNCHANGED <<entry, drops, secretsOff, acq, on, session, starts>>

DropToken == Drop /\ UNCHANGED <<secretsOff, acq, on, session, starts>>

\* send(): the first 401 expires the token and sends the request once more.
Rejected(c) ==
  /\ pc[c] = "sent" /\ msg[c] = "401" /\ proto[c] = "rest" /\ attempt[c] = 0
  /\ DropToken
  /\ given' = [given EXCEPT ![c] = NotAsked]
  /\ Go(c, "auth")
  /\ attempt' = [attempt EXCEPT ![c] = 1]
  /\ msg' = [msg EXCEPT ![c] = "none"]
  /\ UNCHANGED <<proto, write, applied, lost, gone>>

\* send(): the second 401 carries an error code, so toApiError() does not make
\* it retryable and shouldFallBack() says no.
RejectedAgain(c) ==
  /\ pc[c] = "sent" /\ msg[c] = "401" /\ proto[c] = "rest" /\ attempt[c] = 1
  /\ Report(c, "session")
  /\ UNCHANGED <<authVars, request, msg, applied, lost, gone>>

\* soap(): a 401, or any response that holds the words, expires the token and
\* falls back, whatever the org has done.
SoapRejected(c) ==
  /\ pc[c] = "sent" /\ msg[c] \in {"401", "echoed"} /\ proto[c] = "soap"
  /\ DropToken
  /\ UNCHANGED given
  /\ Go(c, "cli")
  /\ UNCHANGED <<request, msg, applied, lost, gone>>

\* Mutant: a lost response is reported like a refusal.
LoseReported(c) ==
  /\ pc[c] = "sent"
  /\ Report(c, "org")
  /\ lost' = lost \cup {c}
  /\ UNCHANGED <<authVars, request, msg, applied, gone>>

\* Mutant: fetch() has no timeout of its own.
LoseNever(c) ==
  /\ pc[c] = "sent"
  /\ c \in gone
  /\ Report(c, "aborted")
  /\ lost' = lost \cup {c}
  /\ UNCHANGED <<authVars, request, msg, applied, gone>>

\* A transport error, the timeout of fetch(), a 5xx or an unreadable body: the
\* request falls back, unless its client has left.
Lose(c) ==
  /\ pc[c] = "sent"
  /\ IF c \in gone THEN Report(c, "aborted") ELSE Go(c, "cli")
  /\ lost' = lost \cup {c}
  /\ UNCHANGED <<authVars, request, msg, applied, gone>>

-----------------------------------------------------------------------------
(* The CLI, and the client.                                                *)

CliOk(c) ==
  /\ pc[c] = "cli" /\ c \notin gone
  /\ Go(c, "done")
  /\ applied' = IF write[c] THEN [applied EXCEPT ![c] = @ + 1] ELSE applied
  /\ UNCHANGED <<authVars, request, msg, lost, gone>>

\* The command fails, before or after the org carried the change out.
CliErr(c) ==
  /\ pc[c] = "cli"
  /\ Report(c, IF c \in gone THEN "aborted" ELSE "cli")
  /\ applied' \in {applied, IF write[c] THEN [applied EXCEPT ![c] = @ + 1] ELSE applied}
  /\ UNCHANGED <<authVars, request, msg, lost, gone>>

\* Only reads carry the signal of their client; while the request awaits a
\* token, nothing listens to it.
Abort(c) ==
  /\ pc[c] \in {"auth", "sent", "cli"} /\ ~write[c] /\ c \notin gone
  /\ gone' = gone \cup {c}
  /\ IF pc[c] = "auth" THEN UNCHANGED <<pc, why>> ELSE Report(c, "aborted")
  /\ UNCHANGED <<authVars, request, msg, applied, lost>>

Respond(c) ==
  \/ Accepted(c) \/ Refused(c) \/ Throttled(c)
  \/ Rejected(c) \/ RejectedAgain(c) \/ SoapRejected(c)
  \/ Lose(c)

ReqNext(c) ==
  \/ Begin(c) \/ Ask(c) \/ NoToken(c) \/ Send(c) \/ OrgHandles(c)
  \/ Respond(c) \/ CliOk(c) \/ CliErr(c) \/ Abort(c)

rest == <<pc, request, msg, applied, lost, gone, why>>

Next ==
  \/ \E c \in Reqs : ReqNext(c)
  \/ (\E a \in Acqs : AcqNext(a)) /\ UNCHANGED rest
  \/ Surroundings /\ UNCHANGED rest

Spec == Init /\ [][Next]_vars

\* Continuations run.  send(), soap() and CliRunner arm timers, so a response that
\* does not begin is a lost one and a command that hangs is a failed one; the
\* timer is cleared before response.text(), so that a body that stalls rests on
\* the body timeout of fetch() itself.
FairSpec ==
  /\ Spec
  /\ \A c \in Reqs : /\ WF_vars(Ask(c) \/ NoToken(c) \/ Send(c))
                     /\ WF_vars(Respond(c))
                     /\ WF_vars(CliErr(c))
  /\ \A a \in Acqs : WF_vars(AcquireFails(a) /\ UNCHANGED rest)

-----------------------------------------------------------------------------
(* Properties.                                                             *)

\* The response says nothing of what the org did: it was lost, or it was taken
\* for the rejection of the session.
Unclear(c) == c \in lost \/ msg[c] = "echoed"

\* A write is carried out at most once, though it may be sent twice and then
\* given to the CLI, unless readFast() could not tell what its response said.
AppliedOnceUnlessUnclear ==
  TypeOK /\ \A c \in Reqs : ~Unclear(c) => applied[c] <= 1

\* What a write reports is true: success means carried out, and a refusal by
\* the org, or a rejected session, means not carried out.
ReportsAreTrue ==
  \A c \in Reqs : write[c] =>
    /\ pc[c] = "done" => applied[c] >= 1
    /\ why[c] \in {"org", "session"} => applied[c] = 0

\* Every request ends: joins on acquisitions that were dropped, retries and
\* fallbacks included.
EveryRequestEnds == \A c \in Reqs : (pc[c] # "idle") ~> (pc[c] \in {"done", "failed"})

-----------------------------------------------------------------------------
(* What the documentation says, and the code does not do.                  *)

\* runtime.ts: "the CLI runs and the user never sees a difference beyond
\* latency".  A write is carried out twice, when its response is lost or when
\* the response that says it was done is taken for a rejected session.
AppliedOnce == \A c \in Reqs : applied[c] <= 1
=============================================================================
