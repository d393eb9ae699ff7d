--------------------------- MODULE BackgroundJobs ---------------------------
(***************************************************************************)
(* Work that outlives the page that started it, and the strip that shows   *)
(* it: server/src/routes/retrievals.ts, client/src/lib/jobs.ts, JobStrip   *)
(* and the pages that start retrievals and deployments.                    *)
(*                                                                         *)
(* A retrieval is a command the server runs in the background; its record  *)
(* is part of the state StateStore saves, so a crash may forget a record   *)
(* or its outcome, and a restart ends the command but not the record. A    *)
(* deployment of a local project runs in the org and is known to the       *)
(* window alone, which polls it.                                           *)
(***************************************************************************)
EXTENDS Naturals, Sequences, FiniteSets

CONSTANTS Retrievals,    \* identifiers of retrievals
          MaxWork,       \* bound: retrievals and deployments
          MaxRestarts    \* bound: restarts of the server

VARIABLES
  record,     \* state.retrievals: the status of each record
  saved,      \* the same in the state file
  command,    \* the command of each retrieval
  archive,    \* metadata.zip of each: "none", "partial" or "whole"
  orphans,    \* retrievals whose command or outcome a restart has lost
  asked,      \* retrievals whose POST has not brought its answer to the window
  loading,    \* the GET of the list: "none", "sent" or "read" by the server
  answer,     \* what it read
  view,       \* the list the window has
  missed,     \* retrievals announced over a GET that had read too early
  restarts,   \* bounded by MaxRestarts
  org,        \* the deployments in the org
  strip,      \* jobs: the deployments the window tracks
  timers,     \* dismissals to come, 20 seconds after an outcome
  jobId       \* the job of the deployment page

serverVars == <<record, saved, command, archive, orphans, restarts>>
viewVars == <<asked, loading, answer, view, missed>>
deployVars == <<org, strip, timers, jobId>>
vars == <<serverVars, viewVars, deployVars>>

Ended == {"success", "failed"}
Nothing == [r \in Retrievals |-> "none"]
Started == Cardinality({r \in Retrievals : command[r] # "none"}) + Len(org)
NotTracked == [label |-> "none", status |-> "none"]

Init ==
  /\ record = Nothing /\ saved = Nothing /\ view = Nothing /\ answer = Nothing
  /\ command = Nothing /\ archive = Nothing
  /\ orphans = {} /\ asked = {} /\ missed = {} /\ restarts = 0
  /\ loading = "sent"   \* the strip asks when the window opens
  /\ org = <<>> /\ strip = <<>> /\ timers = {} /\ jobId = 0

-----------------------------------------------------------------------------
(***************************************************************************)
(* Retrievals on the server.                                               *)
(***************************************************************************)
\* A page that starts a retrieval and leaves the list alone.
RetrieveQuietly(r) ==
  /\ Started < MaxWork
  /\ record[r] = "none" /\ command[r] = "none"
  /\ record' = [record EXCEPT ![r] = "running"]
  /\ command' = [command EXCEPT ![r] = "running"]
  /\ UNCHANGED <<saved, archive, orphans, restarts, viewVars, deployVars>>

\* Both routes: the record is there and the command started when the answer
\* is sent.
Retrieve(r) ==
  /\ Started < MaxWork
  /\ record[r] = "none" /\ command[r] = "none"
  /\ record' = [record EXCEPT ![r] = "running"]
  /\ command' = [command EXCEPT ![r] = "running"]
  /\ asked' = asked \cup {r}
  /\ UNCHANGED <<saved, archive, orphans, restarts, loading, answer, view, missed, deployVars>>

\* The command writes the archive, and may fail at any time.
WriteArchive(r) ==
  /\ command[r] = "running" /\ archive[r] # "whole"
  /\ archive' = [archive EXCEPT ![r] = IF @ = "none" THEN "partial" ELSE "whole"]
  /\ UNCHANGED <<record, saved, command, orphans, restarts, viewVars, deployVars>>

CommandEnds(r, ok) ==
  /\ command[r] = "running"
  /\ ok => archive[r] = "whole"
  /\ command' = [command EXCEPT ![r] = IF ok THEN "success" ELSE "failed"]
  /\ UNCHANGED <<record, saved, archive, orphans, restarts, viewVars, deployVars>>

\* The outcome as it would be if starting the command were all that is awaited.
RecordStart(r) ==
  /\ command[r] = "running" /\ record[r] = "running"
  /\ record' = [record EXCEPT ![r] = "success"]
  /\ UNCHANGED <<saved, command, archive, orphans, restarts, viewVars, deployVars>>

\* trackRetrieval: the outcome goes to the record, if the state has it.
RecordOutcome(r) ==
  /\ command[r] \in Ended
  /\ record' = [record EXCEPT ![r] = IF @ = "none" THEN @ ELSE command[r]]
  /\ command' = [command EXCEPT ![r] = "recorded"]
  /\ UNCHANGED <<saved, archive, orphans, restarts, viewVars, deployVars>>

\* A flush of the state file.
Save ==
  /\ saved' = record
  /\ saved # record
  /\ UNCHANGED <<record, command, archive, orphans, restarts, viewVars, deployVars>>

\* A signal saves first; a crash loses what was not saved. The window keeps
\* what it has, and requests in flight fail, unless the list was on its way. A
\* retrieval that the window had not heard of is not one it will ask for.
Restart(graceful) ==
  /\ restarts < MaxRestarts
  /\ restarts' = restarts + 1
  /\ saved' = IF graceful THEN record ELSE saved
  /\ record' = saved'
  /\ orphans' = orphans \cup {r \in Retrievals :
                              \/ command[r] \in {"running"} \cup Ended
                              \/ record'[r] # record[r]
                              \/ record[r] # "none" /\ view[r] = "none"}
  /\ command' = [r \in Retrievals |-> IF command[r] = "none" THEN "none" ELSE "recorded"]
  /\ asked' = {}
  /\ loading' \in {"none"} \cup ({loading} \cap {"read"})
  /\ UNCHANGED <<archive, answer, view, missed, deployVars>>

-----------------------------------------------------------------------------
(***************************************************************************)
(* The list in the window: one entry of the client's cache (module         *)
(* ClientResource), fetched when a retrieval was started, by an interval   *)
(* while the list has one that is running, and when a page shows it. There *)
(* is one GET at a time, and whoever wants another while it is in flight   *)
(* gets its answer.                                                        *)
(***************************************************************************)
Polling == \E r \in Retrievals : view[r] = "running"
\* The history page links to the archives of the list it has.
Offered == {r \in Retrievals : view[r] = "success"}

Load == loading' = IF loading = "none" THEN "sent" ELSE loading

\* The POST is answered: the page invalidates the list.
Announced(r) ==
  /\ r \in asked
  /\ asked' = asked \ {r}
  /\ Load
  /\ missed' = IF loading = "read" /\ answer[r] = "none" THEN missed \cup {r} ELSE missed
  /\ UNCHANGED <<answer, view, serverVars, deployVars>>

PollList ==
  /\ Polling /\ loading = "none"
  /\ Load
  /\ UNCHANGED <<asked, answer, view, missed, serverVars, deployVars>>

\* The overview or the history is opened, and what it has is no longer fresh.
OpenPage ==
  /\ loading = "none"
  /\ Load
  /\ UNCHANGED <<asked, answer, view, missed, serverVars, deployVars>>

ReadList ==
  /\ loading = "sent"
  /\ loading' = "read"
  /\ answer' = record
  /\ UNCHANGED <<asked, view, missed, serverVars, deployVars>>

ListArrives ==
  /\ loading = "read"
  /\ loading' = "none"
  /\ view' = answer
  /\ UNCHANGED <<asked, answer, missed, serverVars, deployVars>>

-----------------------------------------------------------------------------
(***************************************************************************)
(* Deployments of a local project.                                         *)
(***************************************************************************)
Tracked == {i \in DOMAIN strip : strip[i].status # "none"}
\* trackDeploy does nothing for a job that is on the strip. `strip` has an
\* entry for each job of the org.
Track(s, id, label) ==
  IF s[id].status # "none" THEN s
  ELSE [s EXCEPT ![id] = [label |-> label, status |-> "running"]]

\* `start` is asynchronous and tracked; `validate` is answered when the
\* validation is over.
StartDeploy ==
  /\ Started < MaxWork
  /\ org' = Append(org, [kind |-> "deploy", state |-> "running"])
  /\ jobId' = Len(org')
  /\ strip' = Track(Append(strip, NotTracked), jobId', "Deploy")
  /\ UNCHANGED <<timers, serverVars, viewVars>>

Validate(state) ==
  /\ Started < MaxWork
  /\ org' = Append(org, [kind |-> "validate", state |-> state])
  /\ jobId' = Len(org')
  /\ strip' = Append(strip, NotTracked)
  /\ UNCHANGED <<timers, serverVars, viewVars>>

\* The page tracks the identifier in its field, which is that of the
\* validation, under the name of the quick deployment.
QuickDeploy ==
  /\ jobId # 0 /\ Started < MaxWork
  /\ org[jobId] = [kind |-> "validate", state |-> "succeeded"]
  /\ org' = Append(org, [kind |-> "quick", state |-> "running"])
  /\ strip' = Track(Append(strip, NotTracked), jobId, "Quick deploy")
  /\ UNCHANGED <<timers, jobId, serverVars, viewVars>>

EnterJob(id) ==
  /\ id \in DOMAIN org /\ id # jobId
  /\ jobId' = id
  /\ UNCHANGED <<org, strip, timers, serverVars, viewVars>>

Cancel ==
  /\ jobId # 0 /\ org[jobId].state = "running"
  /\ org' = [org EXCEPT ![jobId].state = "canceling"]
  /\ UNCHANGED <<strip, timers, jobId, serverVars, viewVars>>

JobEnds(id, state) ==
  /\ id \in DOMAIN org /\ org[id].state \in {"running", "canceling"}
  /\ state = "canceled" => org[id].state = "canceling"
  /\ org' = [org EXCEPT ![id].state = state]
  /\ UNCHANGED <<strip, timers, jobId, serverVars, viewVars>>

\* How a status is read, with any word that begins as "canceled" does as an end,
OutcomeByPrefix(state) == IF state = "succeeded" THEN "success"
                          ELSE IF state \in {"failed", "canceled", "canceling"} THEN "failed" ELSE "running"
\* and without the two spellings of it.
OutcomeOfFailure(state) == IF state = "failed" THEN "failed"
                           ELSE IF state = "succeeded" THEN "success" ELSE "running"

\* The effect polls the tracked jobs that run, one after the other, every five
\* seconds; it starts anew with each change of the list. A report that cannot
\* be had is skipped.
Outcome(state) == IF state = "succeeded" THEN "success"
                  ELSE IF state \in {"failed", "canceled"} THEN "failed" ELSE "running"

Poll(id) ==
  /\ id \in DOMAIN strip /\ strip[id].status = "running"
  /\ Outcome(org[id].state) # "running"
  /\ strip' = [strip EXCEPT ![id].status = Outcome(org[id].state)]
  /\ timers' = timers \cup {id}
  /\ UNCHANGED <<org, jobId, serverVars, viewVars>>

Dismiss(id) ==
  /\ id \in Tracked
  /\ strip' = [strip EXCEPT ![id] = NotTracked]
  /\ UNCHANGED <<org, timers, jobId, serverVars, viewVars>>

\* The timer of an outcome dismisses whatever has the identifier then.
TimerFires(id) ==
  /\ id \in timers
  /\ timers' = timers \ {id}
  /\ strip' = [strip EXCEPT ![id] = NotTracked]
  /\ UNCHANGED <<org, jobId, serverVars, viewVars>>

ServerNext ==
  \/ \E r \in Retrievals : \/ Retrieve(r) \/ WriteArchive(r) \/ RecordOutcome(r)
                           \/ \E ok \in BOOLEAN : CommandEnds(r, ok)
  \/ Save
  \/ \E graceful \in BOOLEAN : Restart(graceful)
DeployNext ==
  \/ StartDeploy \/ QuickDeploy \/ Cancel
  \/ \E state \in {"succeeded", "failed"} : Validate(state)
  \/ \E id \in DOMAIN org : \/ EnterJob(id) \/ Poll(id) \/ Dismiss(id) \/ TimerFires(id)
                            \/ \E state \in {"succeeded", "failed", "canceled"} : JobEnds(id, state)
ViewNext ==
  \/ \E r \in Retrievals : Announced(r)
  \/ PollList \/ OpenPage \/ ReadList \/ ListArrives
Next == ServerNext \/ ViewNext \/ DeployNext

Spec == Init /\ [][Next]_vars

\* Commands have a time limit, the promise that waits for one runs, the server
\* answers, intervals fire and the org ends its jobs. Whether a page is opened
\* or anything dismissed by hand, and when the state is saved, is left open.
Fairness ==
  /\ \A r \in Retrievals : /\ WF_vars(\E ok \in BOOLEAN : CommandEnds(r, ok))
                           /\ WF_vars(RecordOutcome(r))
                           /\ WF_vars(Announced(r))
  /\ WF_vars(PollList) /\ WF_vars(ReadList) /\ WF_vars(ListArrives)
  /\ \A id \in 1 .. MaxWork : /\ WF_vars(Poll(id))
                              /\ WF_vars(\E state \in {"succeeded", "failed", "canceled"} : JobEnds(id, state))
FairSpec == Spec /\ Fairness

-----------------------------------------------------------------------------
TypeOK ==
  /\ {record, saved, answer, view} \subseteq [Retrievals -> {"none", "running"} \cup Ended]
  /\ command \in [Retrievals -> {"none", "running", "recorded"} \cup Ended]
  /\ loading \in {"none", "sent", "read"} /\ asked \cup missed \subseteq Retrievals
  /\ Len(strip) = Len(org) /\ jobId \in 0 .. Len(org)

\* A retrieval is recorded as a success, in memory or in the file, only when
\* its archive is whole, so that what the history offers for download is
\* there: through failing commands, crashes and restarts.
SuccessIsDownloadable ==
  /\ TypeOK
  /\ \A r \in Retrievals :
       r \in Offered \/ "success" \in {record[r], saved[r]} => archive[r] = "whole"

\* A retrieval started from the window comes to be shown with its outcome.
\* Excepted are those a restart of the server has interrupted, whose records
\* say "running" from then on, or are gone, or were not heard of; and those
\* announced while a GET that had read the list before was in flight, over
\* which invalidate() does not reload (resource.ts:95-99).
RetrievalIsShown ==
  \A r \in Retrievals :
    record[r] = "running" ~> view[r] \in Ended \/ r \in orphans \cup missed

\* The strip says of a deployment only what the org has said of it. Excepted is
\* a quick deployment: its entry carries the identifier of the validation, so
\* that "Succeeded" there says nothing of the deployment that is running.
StripTellsTruth ==
  \A id \in Tracked :
    /\ strip[id].label = "Deploy" =>
         CASE strip[id].status = "success" -> org[id] = [kind |-> "deploy", state |-> "succeeded"]
           [] strip[id].status = "failed" -> org[id].state \in {"failed", "canceled"}
           [] OTHER -> org[id].kind = "deploy"
    /\ strip[id].label = "Quick deploy" => org[id].kind = "validate"

\* A deployment on the strip does not stay "running" there when it is over.
DeployIsReported ==
  \A id \in 1 .. MaxWork :
    id \in Tracked /\ strip[id].status = "running" ~> id \notin Tracked \/ strip[id].status \in Ended
=============================================================================
