------------------------ MODULE BackgroundWork_proofs ------------------------
(***************************************************************************)
(* Theorems about what goes on in the background of a page: the retrievals *)
(* and deployments of BackgroundJobs, for any set of retrievals and any    *)
(* number of jobs and restarts, and the updater of DesktopUpdater, for any *)
(* number of clicks and of releases, and whichever of those are signed or  *)
(* compatible.                                                             *)
(***************************************************************************)
EXTENDS BackgroundJobs, DesktopUpdater, SequenceTheorems, TLAPS

Jobs == [kind : {"deploy", "validate", "quick"},
         state : {"running", "canceling", "succeeded", "failed", "canceled"}]
Entries == [label : {"none", "Deploy", "Quick deploy"},
            status : {"none", "running", "success", "failed"}]

\* SuccessIsDownloadable is kept because a command that ended well has written
\* its archive, and nothing unwrites it: a success seen anywhere, in the command,
\* the record, the file, an answer on its way or the window, comes from there.
Backed(r) == "success" \in {record[r], saved[r], answer[r], view[r], command[r]} => archive[r] = "whole"
Archives == \A r \in Retrievals : Backed(r)

\* What an entry of the strip may say of the job that has its identifier.
Truth(e, j) ==
  /\ e.label = "Deploy" /\ e.status = "running" => j.kind = "deploy"
  /\ e.label = "Deploy" /\ e.status = "success" => j.kind = "deploy" /\ j.state = "succeeded"
  /\ e.label = "Deploy" /\ e.status = "failed" => j.kind = "deploy" /\ j.state \in {"failed", "canceled"}
  /\ e.label = "Quick deploy" /\ e.status # "none" => j.kind = "validate"
StripInv == \A id \in DOMAIN strip : Truth(strip[id], org[id])

ServerInv == /\ {record, saved, answer, view} \subseteq [Retrievals -> {"none", "running"} \cup Ended]
             /\ command \in [Retrievals -> {"none", "running", "recorded"} \cup Ended]
             /\ archive \in [Retrievals -> {"none", "partial", "whole"}]
             /\ loading \in {"none", "sent", "read"} /\ asked \cup missed \subseteq Retrievals
             /\ Archives
DeployInv == /\ org \in Seq(Jobs) /\ strip \in Seq(Entries)
             /\ Len(strip) = Len(org) /\ jobId \in 0 .. Len(org)
             /\ StripInv

IndInv == ServerInv /\ DeployInv

-----------------------------------------------------------------------------
(* Retrievals.                                                             *)

\* At first there is no retrieval, so none is a success.
LEMMA ServerInit == Init => ServerInv
BY DEF Init, ServerInv, Archives, Backed, Nothing, Ended

\* No step of a retrieval claims a success that has no archive.
LEMMA RetrieveInv ==
  ASSUME ServerInv, NEW r \in Retrievals,
         Retrieve(r) \/ WriteArchive(r) \/ RecordOutcome(r) \/ \E ok \in BOOLEAN : CommandEnds(r, ok)
  PROVE  ServerInv'
<1> USE DEF ServerInv, Archives, Backed, Ended, viewVars
<1>1. CASE Retrieve(r)
  BY <1>1 DEF Retrieve
<1>2. CASE WriteArchive(r)
  BY <1>2 DEF WriteArchive
<1>3. CASE RecordOutcome(r)
  BY <1>3 DEF RecordOutcome
<1>4. ASSUME NEW ok \in BOOLEAN, CommandEnds(r, ok) PROVE ServerInv'
  BY <1>4 DEF CommandEnds
<1>5. QED
  BY <1>1, <1>2, <1>3, <1>4

\* Saving and restarting copy between memory and file, and end commands.
LEMMA SaveInv ==
  ASSUME ServerInv, Save \/ \E graceful \in BOOLEAN : Restart(graceful)
  PROVE  ServerInv'
<1> USE DEF ServerInv, Archives, Backed, Ended, viewVars
<1>1. CASE Save
  BY <1>1 DEF Save
<1>2. ASSUME NEW graceful \in BOOLEAN, Restart(graceful) PROVE ServerInv'
  <2>1. /\ saved' \in {record, saved} /\ record' = saved'
        /\ UNCHANGED <<answer, view, archive, missed>> /\ asked' = {}
        /\ loading' \in {"none", loading}
    BY <1>2 DEF Restart
  <2>2. command' \in [Retrievals -> {"none", "recorded"}]
    BY <1>2 DEF Restart
  <2>3. QED
    BY <2>1, <2>2
<1>3. QED
  BY <1>1, <1>2

\* The window's list is what the server remembered when it read it.
LEMMA ViewInv ==
  ASSUME ServerInv, ViewNext
  PROVE  ServerInv'
<1> USE DEF ServerInv, Archives, Backed, serverVars, Load
<1>1. ASSUME NEW r \in Retrievals, Announced(r) PROVE ServerInv'
  BY <1>1 DEF Announced
<1>2. CASE PollList \/ OpenPage
  BY <1>2 DEF PollList, OpenPage
<1>3. CASE ReadList
  BY <1>3 DEF ReadList
<1>4. CASE ListArrives
  BY <1>4 DEF ListArrives
<1>5. QED
  BY <1>1, <1>2, <1>3, <1>4 DEF ViewNext

-----------------------------------------------------------------------------
(* Deployments.                                                            *)

\* At first the strip is empty.
LEMMA DeployInit == Init => DeployInv
BY DEF Init, DeployInv, StripInv

\* An entry without a job is silent, and the entries of the pages are true.
LEMMA EntryValues ==
  /\ NotTracked \in Entries /\ \A j : Truth(NotTracked, j)
  /\ \A label \in {"Deploy", "Quick deploy"} :
       LET e == [label |-> label, status |-> "running"]
       IN e \in Entries /\ e.label = label /\ e.status = "running"
BY DEF NotTracked, Entries, Truth

\* A new job comes with an entry that is silent.
LEMMA NewJob ==
  ASSUME DeployInv, NEW j \in Jobs
  PROVE  /\ Append(org, j) \in Seq(Jobs) /\ Append(strip, NotTracked) \in Seq(Entries)
         /\ Len(Append(strip, NotTracked)) = Len(Append(org, j))
         /\ Len(Append(org, j)) = Len(org) + 1 /\ Len(org) \in Nat
         /\ Append(org, j)[Len(org) + 1] = j
         /\ \A id \in 1 .. Len(org) : Append(org, j)[id] = org[id]
         /\ \A id \in DOMAIN Append(strip, NotTracked) :
              Truth(Append(strip, NotTracked)[id], Append(org, j)[id])
<1> DEFINE o == Append(org, j)
           s == Append(strip, NotTracked)
<1>1. /\ o \in Seq(Jobs) /\ Len(o) = Len(org) + 1 /\ o[Len(org) + 1] = j
      /\ \A id \in 1 .. Len(org) : o[id] = org[id]
  BY AppendProperties DEF DeployInv
<1>2. /\ s \in Seq(Entries) /\ Len(s) = Len(strip) + 1 /\ s[Len(strip) + 1] = NotTracked
      /\ \A id \in 1 .. Len(strip) : s[id] = strip[id]
  <2>1. NotTracked \in Entries
    BY EntryValues
  <2>2. QED
    BY <2>1, AppendProperties DEF DeployInv
<1>3. Len(org) \in Nat /\ Len(strip) = Len(org) /\ DOMAIN strip = 1 .. Len(org)
  BY LenProperties DEF DeployInv
<1>4. DOMAIN s = 1 .. Len(org) + 1
  BY <1>2, <1>3, LenProperties
<1> HIDE DEF o, s
<1>5. \A id \in 1 .. Len(org) : Truth(s[id], o[id])
  BY <1>1, <1>2, <1>3 DEF DeployInv, StripInv
<1>6. Truth(s[Len(org) + 1], o[Len(org) + 1])
  BY <1>2, <1>3, EntryValues
<1>7. \A id \in DOMAIN s : id \in 1 .. Len(org) \/ id = Len(org) + 1
  BY <1>3, <1>4
<1>8. QED
  BY <1>1, <1>2, <1>3, <1>5, <1>6, <1>7 DEF o, s

\* Tracking a job is true if the job is of the kind the label says.
LEMMA TrackTrue ==
  ASSUME NEW s \in Seq(Entries), NEW o \in Seq(Jobs), Len(s) = Len(o), NEW id \in DOMAIN s,
         NEW label \in {"Deploy", "Quick deploy"},
         \A i \in DOMAIN s : Truth(s[i], o[i]),
         o[id].kind = IF label = "Deploy" THEN "deploy" ELSE "validate"
  PROVE  /\ Track(s, id, label) \in Seq(Entries) /\ Len(Track(s, id, label)) = Len(o)
         /\ \A i \in DOMAIN Track(s, id, label) : Truth(Track(s, id, label)[i], o[i])
<1> DEFINE e == [label |-> label, status |-> "running"]
<1>1. e \in Entries /\ Truth(e, o[id])
  BY EntryValues DEF Truth
<1>2. CASE s[id].status # "none"
  BY <1>2 DEF Track
<1>3. CASE s[id].status = "none"
  <2>1. Track(s, id, label) = [s EXCEPT ![id] = e]
    BY <1>3 DEF Track
  <2> HIDE DEF e
  <2>2. DOMAIN s = 1 .. Len(s)
    BY LenProperties
  <2>3. /\ Track(s, id, label) \in Seq(Entries) /\ Len(Track(s, id, label)) = Len(o)
        /\ \A i \in 1 .. Len(s) : Track(s, id, label)[i] = IF i = id THEN e ELSE s[i]
    <3>1. id \in 1 .. Len(s) /\ e \in Entries
      BY <1>1, <2>2
    <3>2. [s EXCEPT ![id] = e] \in Seq(Entries) /\ Len([s EXCEPT ![id] = e]) = Len(s)
      BY <3>1, ExceptSeq
    <3>3. \A i \in 1 .. Len(s) : [s EXCEPT ![id] = e][i] = IF i = id THEN e ELSE s[i]
      BY <3>1, LenProperties
    <3>4. QED
      BY <2>1, <3>2, <3>3
  <2>4. DOMAIN Track(s, id, label) = 1 .. Len(s)
    BY <2>3, LenProperties
  <2>5. QED
    BY <1>1, <2>2, <2>3, <2>4
<1>4. QED
  BY <1>2, <1>3

\* The pages that start jobs.
LEMMA StartInv ==
  ASSUME DeployInv, StartDeploy
  PROVE  DeployInv'
<1> DEFINE j == [kind |-> "deploy", state |-> "running"]
           o == Append(org, j)
           s == Append(strip, NotTracked)
<1>1. j \in Jobs /\ j.kind = "deploy"
  BY DEF Jobs
<1>2. org' = o /\ jobId' = Len(o) /\ strip' = Track(s, Len(o), "Deploy")
  BY DEF StartDeploy
<1> HIDE DEF j
<1>3. /\ o \in Seq(Jobs) /\ s \in Seq(Entries) /\ Len(s) = Len(o)
      /\ Len(o) = Len(org) + 1 /\ Len(org) \in Nat /\ o[Len(o)] = j
      /\ \A id \in DOMAIN s : Truth(s[id], o[id])
  BY <1>1, NewJob
<1>4. Len(o) \in DOMAIN s
  BY <1>3, LenProperties
<1> HIDE DEF o, s
<1>5. /\ strip' \in Seq(Entries) /\ Len(strip') = Len(o)
      /\ \A i \in DOMAIN strip' : Truth(strip'[i], o[i])
  BY <1>1, <1>2, <1>3, <1>4, TrackTrue
<1>6. jobId' \in 0 .. Len(o)
  BY <1>2, <1>3
<1>7. QED
  BY <1>2, <1>3, <1>5, <1>6 DEF DeployInv, StripInv

\* A validation is a job that the strip does not track.
LEMMA ValidateInv ==
  ASSUME DeployInv, NEW state \in {"succeeded", "failed"}, Validate(state)
  PROVE  DeployInv'
<1> DEFINE j == [kind |-> "validate", state |-> state]
           o == Append(org, j)
<1>1. j \in Jobs
  BY DEF Jobs
<1>2. org' = o /\ jobId' = Len(o) /\ strip' = Append(strip, NotTracked)
  BY DEF Validate
<1> HIDE DEF j
<1>3. /\ o \in Seq(Jobs) /\ strip' \in Seq(Entries) /\ Len(strip') = Len(o)
      /\ Len(o) = Len(org) + 1 /\ Len(org) \in Nat
      /\ \A id \in DOMAIN strip' : Truth(strip'[id], o[id])
  BY <1>1, <1>2, NewJob
<1> HIDE DEF o
<1>4. jobId' \in 0 .. Len(o)
  BY <1>2, <1>3
<1>5. QED
  BY <1>2, <1>3, <1>4 DEF DeployInv, StripInv

\* A quick deployment is tracked under the identifier of its validation.
LEMMA QuickInv ==
  ASSUME DeployInv, QuickDeploy
  PROVE  DeployInv'
<1> DEFINE j == [kind |-> "quick", state |-> "running"]
           o == Append(org, j)
           s == Append(strip, NotTracked)
<1>1. j \in Jobs
  BY DEF Jobs
<1>2. /\ org' = o /\ strip' = Track(s, jobId, "Quick deploy") /\ UNCHANGED jobId
  BY DEF QuickDeploy
<1> HIDE DEF j
<1>q. jobId # 0 /\ org[jobId] = [kind |-> "validate", state |-> "succeeded"]
  BY DEF QuickDeploy
<1>k. org[jobId].kind = "validate"
  BY <1>q
<1>3. /\ o \in Seq(Jobs) /\ s \in Seq(Entries) /\ Len(s) = Len(o)
      /\ Len(o) = Len(org) + 1 /\ Len(org) \in Nat
      /\ \A id \in 1 .. Len(org) : o[id] = org[id]
      /\ \A id \in DOMAIN s : Truth(s[id], o[id])
  BY <1>1, NewJob
<1>4. jobId \in 1 .. Len(org)
  <2>1. jobId \in 0 .. Len(org)
    BY DEF DeployInv
  <2>2. QED
    BY <1>q, <1>3, <2>1
<1>5. jobId \in DOMAIN s /\ o[jobId].kind = "validate"
  <2>1. jobId \in 1 .. Len(s)
    BY <1>3, <1>4
  <2>2. QED
    BY <1>k, <1>3, <1>4, <2>1, LenProperties
<1>u. jobId' = jobId
  BY DEF QuickDeploy
<1> HIDE DEF o, s
<1>6. /\ strip' \in Seq(Entries) /\ Len(strip') = Len(o)
      /\ \A i \in DOMAIN strip' : Truth(strip'[i], o[i])
  BY <1>2, <1>3, <1>5, TrackTrue
<1>7. jobId' \in 0 .. Len(o)
  BY <1>u, <1>3, <1>4
<1>8. QED
  BY <1>2, <1>3, <1>6, <1>7 DEF DeployInv, StripInv

\* A step that replaces one entry of the strip by a true one.
LEMMA ReplaceEntry ==
  ASSUME DeployInv, NEW id \in DOMAIN strip, NEW e \in Entries, Truth(e, org[id]),
         strip' = [strip EXCEPT ![id] = e], UNCHANGED <<org, jobId>>
  PROVE  DeployInv'
<1>1. DOMAIN strip = 1 .. Len(strip)
  BY LenProperties DEF DeployInv
<1>2. strip' \in Seq(Entries) /\ Len(strip') = Len(strip)
  BY <1>1, ExceptSeq DEF DeployInv
<1>3. DOMAIN strip' = DOMAIN strip /\ \A i \in DOMAIN strip : strip'[i] = IF i = id THEN e ELSE strip[i]
  OBVIOUS
<1>4. QED
  BY <1>2, <1>3 DEF DeployInv, StripInv

\* A step that replaces one job of the org by one that the strip may show in the
\* same way.
LEMMA ReplaceJob ==
  ASSUME DeployInv, NEW id \in DOMAIN org, NEW j \in Jobs, j.kind = org[id].kind,
         org[id].state \notin {"succeeded", "failed", "canceled"},
         org' = [org EXCEPT ![id] = j], UNCHANGED <<strip, jobId>>
  PROVE  DeployInv'
<1>1. DOMAIN org = 1 .. Len(org) /\ DOMAIN strip = 1 .. Len(strip) /\ Len(strip) = Len(org)
  BY LenProperties DEF DeployInv
<1>2. org' \in Seq(Jobs) /\ Len(org') = Len(org)
  BY <1>1, ExceptSeq DEF DeployInv
<1>3. \A i \in DOMAIN org : org'[i] = IF i = id THEN j ELSE org[i]
  OBVIOUS
<1>4. Truth(strip[id], org[id])
  BY <1>1 DEF DeployInv, StripInv
<1>5. Truth(strip[id], j)
  BY <1>4 DEF Truth
<1>6. QED
  BY <1>1, <1>2, <1>3, <1>5 DEF DeployInv, StripInv

\* A job ends, or is asked to, and stays what it was.
LEMMA JobInv ==
  ASSUME DeployInv, Cancel \/ \E id \in DOMAIN org, state \in {"succeeded", "failed", "canceled"} : JobEnds(id, state)
  PROVE  DeployInv'
<1>1. PICK id \in DOMAIN org, state \in {"canceling", "succeeded", "failed", "canceled"} :
        /\ org' = [org EXCEPT ![id].state = state]
        /\ org[id].state \in {"running", "canceling"}
        /\ UNCHANGED <<strip, jobId>>
  <2>1. CASE Cancel
    <3>1. DOMAIN org = 1 .. Len(org) /\ jobId \in 0 .. Len(org) /\ Len(org) \in Nat
      BY LenProperties DEF DeployInv
    <3>2. jobId \in DOMAIN org
      BY <2>1, <3>1 DEF Cancel
    <3>3. QED
      BY <2>1, <3>2 DEF Cancel
  <2>2. CASE \E id \in DOMAIN org, state \in {"succeeded", "failed", "canceled"} : JobEnds(id, state)
    BY <2>2 DEF JobEnds
  <2>3. QED
    BY <2>1, <2>2
<1> DEFINE j == [kind |-> org[id].kind, state |-> state]
<1>2. org[id] \in Jobs
  BY ElementOfSeq, LenProperties DEF DeployInv
<1>3. j \in Jobs /\ j.kind = org[id].kind
  BY <1>2 DEF Jobs
<1>4. [org[id] EXCEPT !.state = state] = j
  BY <1>2 DEF Jobs
<1>5. org' = [org EXCEPT ![id] = j]
  BY <1>1, <1>4
<1> HIDE DEF j
<1>6. QED
  BY <1>1, <1>3, <1>5, ReplaceJob

\* An entry of the strip keeps its label when its status changes.
LEMMA StatusReplaced ==
  ASSUME NEW L, NEW S, NEW e \in [label : L, status : S], NEW x \in S
  PROVE  [e EXCEPT !.status = x] = [label |-> e.label, status |-> x]
OBVIOUS

\* A poll says of a job what the org says of it; a dismissal says nothing.
LEMMA PollInv ==
  ASSUME DeployInv, NEW id \in DOMAIN strip, Poll(id)
  PROVE  DeployInv'
<1> DEFINE e == [label |-> strip[id].label, status |-> Outcome(org[id].state)]
<1>1. strip[id] \in Entries
  BY ElementOfSeq, LenProperties DEF DeployInv
<1>2. Outcome(org[id].state) \in {"success", "failed"}
  BY DEF Poll, Outcome
<1>3. e \in Entries /\ e.label = strip[id].label /\ e.status = Outcome(org[id].state)
  BY <1>1, <1>2 DEF Entries
<1>4. strip[id].status = "running" /\ Truth(strip[id], org[id])
  BY DEF Poll, DeployInv, StripInv
<1>5. Truth(e, org[id])
  BY <1>3, <1>4 DEF Truth, Outcome
<1>6. [strip[id] EXCEPT !.status = Outcome(org[id].state)] = e
  <2> DEFINE L == {"none", "Deploy", "Quick deploy"}
             S == {"none", "running", "success", "failed"}
  <2>1. strip[id] \in [label : L, status : S] /\ Outcome(org[id].state) \in S
    BY <1>1, <1>2 DEF Entries
  <2> HIDE DEF L, S
  <2>2. QED
    BY <2>1, StatusReplaced
<1>7. strip' = [strip EXCEPT ![id] = e] /\ UNCHANGED <<org, jobId>>
  BY <1>6 DEF Poll
<1> HIDE DEF e
<1>8. QED
  BY <1>3, <1>5, <1>7, ReplaceEntry

\* An entry that leaves the strip says nothing any more.
LEMMA DismissInv ==
  ASSUME DeployInv, NEW id \in DOMAIN org, Dismiss(id) \/ TimerFires(id)
  PROVE  DeployInv'
<1>1. id \in DOMAIN strip
  BY LenProperties DEF DeployInv
<1>2. strip' = [strip EXCEPT ![id] = NotTracked] /\ UNCHANGED <<org, jobId>>
  BY DEF Dismiss, TimerFires
<1>3. QED
  BY <1>1, <1>2, EntryValues, ReplaceEntry

\* An identifier that is typed in changes nothing in the strip.
LEMMA EnterInv ==
  ASSUME DeployInv, NEW id \in DOMAIN org, EnterJob(id)
  PROVE  DeployInv'
<1>1. id \in 0 .. Len(org)
  BY LenProperties DEF DeployInv
<1>2. QED
  BY <1>1 DEF EnterJob, DeployInv, StripInv

-----------------------------------------------------------------------------
(* The theorems.                                                           *)

\* Retrievals and deployments share no variable.
LEMMA NextInv == IndInv /\ [Next]_vars => IndInv'
<1> SUFFICES ASSUME IndInv, [Next]_vars PROVE IndInv'
  OBVIOUS
<1>1. ASSUME UNCHANGED <<serverVars, viewVars>> PROVE ServerInv'
  BY <1>1 DEF IndInv, ServerInv, Archives, Backed, serverVars, viewVars
<1>2. ASSUME UNCHANGED deployVars PROVE DeployInv'
  BY <1>2 DEF IndInv, DeployInv, StripInv, deployVars
<1>3. CASE UNCHANGED vars
  BY <1>1, <1>2, <1>3 DEF vars, IndInv
<1>4. CASE ServerNext
  <2>1. UNCHANGED deployVars
    BY <1>4 DEF ServerNext, Retrieve, WriteArchive, RecordOutcome, CommandEnds, Save, Restart
  <2>2. ServerInv'
    BY <1>4, RetrieveInv, SaveInv DEF IndInv, ServerNext
  <2>3. QED
    BY <1>2, <2>1, <2>2 DEF IndInv
<1>5. CASE ViewNext
  <2>1. UNCHANGED deployVars
    BY <1>5 DEF ViewNext, Announced, PollList, OpenPage, ReadList, ListArrives
  <2>2. QED
    BY <1>2, <1>5, <2>1, ViewInv DEF IndInv
<1>6. CASE DeployNext
  <2>1. UNCHANGED <<serverVars, viewVars>>
    BY <1>6 DEF DeployNext, StartDeploy, QuickDeploy, Cancel, Validate, EnterJob, Poll, Dismiss,
       TimerFires, JobEnds
  <2>2. ASSUME NEW id \in DOMAIN org, Poll(id) PROVE DeployInv'
    BY <2>2, PollInv DEF IndInv, Poll
  <2>3. DeployInv'
    BY <1>6, <2>2, StartInv, QuickInv, ValidateInv, JobInv, DismissInv, EnterInv
    DEF DeployNext, IndInv
  <2>4. QED
    BY <1>1, <2>1, <2>3 DEF IndInv
<1>7. QED
  BY <1>3, <1>4, <1>5, <1>6 DEF Next

\* The invariant holds in every state of the two workflows.
LEMMA Invariance == Spec => []IndInv
<1>1. Init => IndInv
  BY ServerInit, DeployInit DEF IndInv
<1>2. QED
  BY <1>1, NextInv, PTL DEF Spec

\* A retrieval is recorded or listed as a success only when its archive is
\* whole, through failing commands and any number of crashes and restarts; and
\* every variable keeps its type.
THEOREM SuccessHasArchive == Spec => []SuccessIsDownloadable
<1>1. IndInv => SuccessIsDownloadable
  BY DEF IndInv, ServerInv, DeployInv, Archives, Backed, Offered, SuccessIsDownloadable, TypeOK
<1>2. QED
  BY <1>1, Invariance, PTL

\* The strip says of a deployment only what the org has said of it, for any
\* number of jobs, polls, dismissals and late timers.
THEOREM StripIsTrue == Spec => []StripTellsTruth
<1>1. ASSUME IndInv PROVE StripTellsTruth
  <2> SUFFICES ASSUME NEW id \in Tracked
               PROVE  /\ strip[id].label = "Deploy" =>
                           CASE strip[id].status = "success" -> org[id] = [kind |-> "deploy", state |-> "succeeded"]
                             [] strip[id].status = "failed" -> org[id].state \in {"failed", "canceled"}
                             [] OTHER -> org[id].kind = "deploy"
                      /\ strip[id].label = "Quick deploy" => org[id].kind = "validate"
    BY DEF StripTellsTruth
  <2>1. id \in DOMAIN strip /\ strip[id].status # "none" /\ Truth(strip[id], org[id])
    BY <1>1 DEF Tracked, IndInv, DeployInv, StripInv
  <2>2. strip[id] \in Entries /\ org[id] \in Jobs
    BY <1>1, <2>1, ElementOfSeq, LenProperties DEF IndInv, DeployInv
  <2>3. ASSUME org[id].kind = "deploy", org[id].state = "succeeded"
        PROVE  org[id] = [kind |-> "deploy", state |-> "succeeded"]
    BY <2>2, <2>3 DEF Jobs
  <2>4. QED
    BY <2>1, <2>2, <2>3 DEF Truth, Entries
<1>2. QED
  BY <1>1, Invariance, PTL

-----------------------------------------------------------------------------
(* The updater of the desktop shell.                                        *)

Stages == {"idle", "check", "checked", "fetch", "write", "sums", "ready", "over"}
Progresses == [at : Stages, of : 0 .. Newest, sums : 0 .. Newest]
Active(c) == click[c].at \notin {"idle", "over"}

Shape == click \in [Clicks -> Progresses] /\ overlapped \in BOOLEAN

\* What a click relies on from step to step: the release it downloads is the
\* one the module knows, and the file it verifies or installs is its own.
Fits(c) ==
  /\ click[c].at \in {"fetch", "write"} => click[c].of = release /\ release \in Compatible
  /\ click[c].at = "write" => path = release
  /\ click[c].at \in {"sums", "ready"} => path \in Compatible
  /\ click[c].at = "ready" => /\ disk[path] \in {"good", "damaged"}
                              /\ path \in Signed => disk[path] = "good"

\* InstalledIsVerified is kept because a click that no other one overlapped is
\* alone, and nobody touches what it relies on.
Alone == \A c, d \in Clicks : Active(c) /\ Active(d) => c = d
OwnFile == \A c \in Clicks : Fits(c)
Verified == installed # None => /\ installed.content \in {"good", "damaged"}
                                /\ installed.of \in Signed => installed.content = "good"

UpdaterInv == UpdaterTypeOK /\ Shape /\ (~overlapped => Alone /\ OwnFile /\ Verified)

-----------------------------------------------------------------------------
(* The three ways in which a step changes the progress of a click.         *)

\* A step of one click leaves the others where they are, and changes of its own
\* only the fields it names.
LEMMA Moved ==
  ASSUME Shape, NEW c \in Clicks, NEW at \in Stages, Move(c, at)
  PROVE  /\ click' \in [Clicks -> Progresses]
         /\ click'[c].at = at /\ click'[c].of = click[c].of /\ click'[c].sums = click[c].sums
         /\ \A d \in Clicks \ {c} : click'[d] = click[d]
<1>1. click[c] \in Progresses
  BY DEF Shape
<1>2. click'[c] = [at |-> at, of |-> click[c].of, sums |-> click[c].sums]
  BY <1>1 DEF Shape, Move, Progresses
<1>3. click'[c] \in Progresses /\ \A d \in Clicks \ {c} : click'[d] = click[d]
  BY <1>1, <1>2 DEF Shape, Move, Progresses
<1>4. QED
  BY <1>2, <1>3 DEF Shape, Move

\* A click that goes on to the download has the release it found.
LEMMA MovedToFetch ==
  ASSUME Shape, release \in 0 .. Newest, NEW c \in Clicks,
         click' = [click EXCEPT ![c].at = "fetch", ![c].of = release]
  PROVE  /\ click' \in [Clicks -> Progresses]
         /\ click'[c].at = "fetch" /\ click'[c].of = release
         /\ \A d \in Clicks \ {c} : click'[d] = click[d]
<1>1. click[c] \in Progresses
  BY DEF Shape
<1>2. click'[c] = [at |-> "fetch", of |-> release, sums |-> click[c].sums]
  BY <1>1 DEF Shape, Progresses
<1>3. click'[c] \in Progresses /\ \A d \in Clicks \ {c} : click'[d] = click[d]
  BY <1>1, <1>2 DEF Shape, Progresses, Stages
<1>4. QED
  BY <1>2, <1>3 DEF Shape

\* A click that goes on to the checksums keeps the release it found.
LEMMA MovedToSums ==
  ASSUME Shape, release \in 0 .. Newest, NEW c \in Clicks,
         click' = [click EXCEPT ![c].at = "sums", ![c].sums = release]
  PROVE  /\ click' \in [Clicks -> Progresses]
         /\ click'[c].at = "sums" /\ click'[c].of = click[c].of
         /\ \A d \in Clicks \ {c} : click'[d] = click[d]
<1>1. click[c] \in Progresses
  BY DEF Shape
<1>2. click'[c] = [at |-> "sums", of |-> click[c].of, sums |-> release]
  BY <1>1 DEF Shape, Progresses
<1>3. click'[c] \in Progresses /\ \A d \in Clicks \ {c} : click'[d] = click[d]
  BY <1>1, <1>2 DEF Shape, Progresses, Stages
<1>4. QED
  BY <1>2, <1>3 DEF Shape

\* While no click has overlapped another, the one that moves is the only one
\* whose progress matters.
LEMMA OnlyOne ==
  ASSUME Shape, Alone, NEW c \in Clicks, Active(c),
         \A d \in Clicks \ {c} : click'[d] = click[d]
  PROVE  /\ Alone'
         /\ Fits(c)' => OwnFile'
<1>1. \A d \in Clicks \ {c} : click'[d].at \in {"idle", "over"}
  BY DEF Alone, Active
<1>2. Alone'
  BY <1>1 DEF Alone, Active
<1>3. \A d \in Clicks \ {c} : Fits(d)'
  BY <1>1 DEF Fits
<1>4. QED
  BY <1>2, <1>3 DEF OwnFile

\* A step of one click keeps the invariant if it keeps types and what that click
\* relies on, and hands nothing to the installer.
LEMMA StepInv ==
  ASSUME UpdaterInv, NEW c \in Clicks, Active(c), installed = None,
         UpdaterTypeOK', Shape', UNCHANGED overlapped,
         \A d \in Clicks \ {c} : click'[d] = click[d],
         ~overlapped => Fits(c)',
         installed' # None /\ ~overlapped => Verified'
  PROVE  UpdaterInv'
<1>1. ASSUME ~overlapped PROVE Alone' /\ OwnFile'
  BY <1>1, OnlyOne DEF UpdaterInv
<1>2. ASSUME ~overlapped PROVE Verified'
  BY <1>2 DEF UpdaterInv, Verified
<1>3. QED
  BY <1>1, <1>2 DEF UpdaterInv

-----------------------------------------------------------------------------
(* The invariant, action by action.                                        *)

\* At first there is no file and no click is at work.
LEMMA InitInv == UpdaterInit => UpdaterInv
<1> SUFFICES ASSUME UpdaterInit PROVE UpdaterInv
  OBVIOUS
<1>1. \A c \in Clicks : click[c] = Idle
  BY DEF UpdaterInit
<1>2. Idle.at = "idle" /\ Idle.of = 0 /\ Idle.sums = 0
  BY DEF Idle
<1>3. published \in 0 .. Newest /\ 0 \in 0 .. Newest
  BY NewestAssumption DEF UpdaterInit
<1>4. UpdaterTypeOK
  BY <1>1, <1>2, <1>3 DEF UpdaterInit, UpdaterTypeOK, Statuses
<1>5. Shape
  BY <1>3 DEF UpdaterInit, Shape, Idle, Progresses, Stages
<1>6. Alone /\ OwnFile /\ Verified
  BY <1>1, <1>2 DEF UpdaterInit, Alone, Active, OwnFile, Fits, Verified
<1>7. QED
  BY <1>4, <1>5, <1>6 DEF UpdaterInv

\* A click while another is under way counts as overlapped, and the first one
\* relies on nothing.
LEMMA ClickInv ==
  ASSUME UpdaterInv, NEW c \in Clicks, Click(c)
  PROVE  UpdaterInv'
<1> USE DEF UpdaterInv
<1>1. Move(c, "check") /\ "check" \in Stages /\ installed = None /\ installed' = None
  BY DEF Click, At, Stages
<1>2. /\ click' \in [Clicks -> Progresses] /\ click'[c].at = "check"
      /\ \A d \in Clicks \ {c} : click'[d] = click[d]
  BY <1>1, Moved
<1>3. Shape'
  BY <1>2 DEF Click, Shape
<1>4. UpdaterTypeOK'
  BY <1>2 DEF Click, UpdaterTypeOK, Progresses, Statuses, Working
<1>5. ASSUME ~overlapped' PROVE Alone' /\ OwnFile' /\ Verified'
  <2>1. \A d \in Clicks \ {c} : click'[d].at \in {"idle", "over"}
    BY <1>2, <1>5 DEF Click
  <2>2. Alone'
    BY <2>1 DEF Alone, Active
  <2>3. OwnFile'
    BY <1>2, <2>1 DEF OwnFile, Fits
  <2>4. QED
    BY <1>1, <2>2, <2>3 DEF Verified
<1>6. QED
  BY <1>3, <1>4, <1>5

\* A newer release on GitHub is not one the module knows.
LEMMA PublishInv ==
  ASSUME UpdaterInv, Publish
  PROVE  UpdaterInv'
<1>1. published' \in 0 .. Newest
  BY NewestAssumption DEF UpdaterInv, UpdaterTypeOK, Publish
<1>2. UpdaterTypeOK' /\ Shape'
  BY <1>1 DEF UpdaterInv, UpdaterTypeOK, Shape, Publish
<1>3. QED
  BY <1>2 DEF UpdaterInv, Publish, Alone, Active, OwnFile, Fits, Verified

\* The handlers that end a click, or that leave it with nothing to rely on.
LEMMA QuietInv ==
  ASSUME UpdaterInv, NEW c \in Clicks, CheckAnswers(c) \/ Fails(c)
  PROVE  UpdaterInv'
<1> USE DEF UpdaterInv
<1>1. PICK at \in {"checked", "over"} : Move(c, at)
  BY DEF CheckAnswers, Fails
<1>2. /\ click' \in [Clicks -> Progresses] /\ click'[c].at = at
      /\ \A d \in Clicks \ {c} : click'[d] = click[d]
  BY <1>1, Moved DEF Stages
<1>3. Active(c) /\ installed = None /\ installed' = None /\ UNCHANGED overlapped
  BY DEF CheckAnswers, Fails, At, Active
<1>4. Shape'
  BY <1>2, <1>3 DEF Shape
<1>5. UpdaterTypeOK'
  BY <1>2 DEF CheckAnswers, Fails, UpdaterTypeOK, Progresses, Statuses
<1>6. Fits(c)'
  BY <1>2 DEF Fits
<1>7. QED
  BY <1>2, <1>3, <1>4, <1>5, <1>6, StepInv

\* The download takes the release the module knows, which has an artifact.
LEMMA DownloadInv ==
  ASSUME UpdaterInv, NEW c \in Clicks, Download(c)
  PROVE  UpdaterInv'
<1> USE DEF UpdaterInv
<1>1. /\ Active(c) /\ installed = None /\ installed' = None
      /\ UNCHANGED <<overlapped, release, path, disk, published>>
  BY DEF Download, At, Active
<1>2. release \in 0 .. Newest
  BY DEF UpdaterTypeOK
<1>3. CASE Move(c, "over")
  <2>1. /\ click' \in [Clicks -> Progresses] /\ click'[c].at = "over"
        /\ \A d \in Clicks \ {c} : click'[d] = click[d]
    BY <1>3, Moved DEF Stages
  <2>2. UpdaterTypeOK' /\ Shape'
    BY <1>1, <2>1 DEF Download, UpdaterTypeOK, Shape, Progresses, Statuses, Working
  <2>3. Fits(c)'
    BY <2>1 DEF Fits
  <2>4. QED
    BY <1>1, <2>1, <2>2, <2>3, StepInv
<1>4. CASE /\ release \in Compatible
           /\ click' = [click EXCEPT ![c].at = "fetch", ![c].of = release]
  <2>1. /\ click' \in [Clicks -> Progresses] /\ click'[c].at = "fetch" /\ click'[c].of = release
        /\ \A d \in Clicks \ {c} : click'[d] = click[d]
    BY <1>2, <1>4, MovedToFetch
  <2>2. UpdaterTypeOK' /\ Shape'
    BY <1>1, <2>1 DEF Download, UpdaterTypeOK, Shape, Progresses, Statuses, Working
  <2>3. Fits(c)'
    BY <1>1, <1>4, <2>1 DEF Fits
  <2>4. QED
    BY <1>1, <2>1, <2>2, <2>3, StepInv
<1>5. QED
  BY <1>3, <1>4 DEF Download

\* A chunk only changes the status.
LEMMA ChunkInv ==
  ASSUME UpdaterInv, NEW c \in Clicks, Chunk(c)
  PROVE  UpdaterInv'
<1>1. UpdaterTypeOK' /\ Shape'
  BY DEF UpdaterInv, UpdaterTypeOK, Shape, Chunk, Statuses, Working
<1>2. QED
  BY <1>1 DEF UpdaterInv, Chunk, Alone, Active, OwnFile, Fits, Verified

\* The artifact is written under the name of the release it was asked for.
LEMMA WriteInv ==
  ASSUME UpdaterInv, NEW c \in Clicks, BeginWrite(c)
  PROVE  UpdaterInv'
<1> USE DEF UpdaterInv
<1>1. /\ Active(c) /\ installed = None /\ installed' = None /\ click[c].at = "fetch"
      /\ UNCHANGED <<overlapped, release, status, published>> /\ path' = click[c].of
  BY DEF BeginWrite, At, Active
<1>2. /\ click' \in [Clicks -> Progresses] /\ click'[c].at = "write" /\ click'[c].of = click[c].of
      /\ \A d \in Clicks \ {c} : click'[d] = click[d]
  BY Moved DEF BeginWrite, Stages
<1>3. click[c].of \in 0 .. Newest
  BY DEF Shape, Progresses
<1>4. disk' \in [1 .. Newest -> {"none", "partial", "good", "damaged"}]
  BY DEF BeginWrite, UpdaterTypeOK
<1>5. UpdaterTypeOK' /\ Shape'
  BY <1>1, <1>2, <1>3, <1>4 DEF UpdaterTypeOK, Shape, Progresses
<1>6. ASSUME ~overlapped PROVE Fits(c)'
  BY <1>1, <1>2, <1>6 DEF OwnFile, Fits
<1>7. QED
  BY <1>1, <1>2, <1>5, <1>6, StepInv

\* Without a checksum the artifact is ready as it is; with one it waits for it.
LEMMA WrittenInv ==
  ASSUME UpdaterInv, NEW c \in Clicks, NEW content \in {"good", "damaged"}, EndWrite(c, content)
  PROVE  UpdaterInv'
<1> USE DEF UpdaterInv
<1>1. /\ Active(c) /\ installed = None /\ installed' = None /\ click[c].at = "write"
      /\ UNCHANGED <<overlapped, release, path, published>>
      /\ disk' = [disk EXCEPT ![click[c].of] = content]
  BY DEF EndWrite, At, Active
<1>2. release \in 0 .. Newest /\ disk' \in [1 .. Newest -> {"none", "partial", "good", "damaged"}]
  BY <1>1 DEF UpdaterTypeOK
<1>3. ASSUME ~overlapped
      PROVE  path = release /\ path \in Compatible /\ disk'[path] = content
  <2>1. path = release /\ click[c].of = release /\ release \in Compatible
    BY <1>1, <1>3 DEF OwnFile, Fits
  <2>2. release \in 1 .. Newest
    BY <2>1, ReleaseAssumption
  <2>3. QED
    BY <1>1, <2>1, <2>2 DEF UpdaterTypeOK
<1>4. CASE /\ release \in Signed /\ UNCHANGED status
           /\ click' = [click EXCEPT ![c].at = "sums", ![c].sums = release]
  <2>1. /\ click' \in [Clicks -> Progresses] /\ click'[c].at = "sums"
        /\ \A d \in Clicks \ {c} : click'[d] = click[d]
    BY <1>2, <1>4, MovedToSums
  <2>2. UpdaterTypeOK' /\ Shape'
    BY <1>1, <1>2, <1>4, <2>1 DEF UpdaterTypeOK, Shape, Progresses
  <2>3. ASSUME ~overlapped PROVE Fits(c)'
    BY <1>1, <1>3, <2>1, <2>3 DEF Fits
  <2>4. QED
    BY <1>1, <2>1, <2>2, <2>3, StepInv
<1>5. CASE release \notin Signed /\ Move(c, "ready") /\ status' = "ready"
  <2>1. /\ click' \in [Clicks -> Progresses] /\ click'[c].at = "ready"
        /\ \A d \in Clicks \ {c} : click'[d] = click[d]
    BY <1>5, Moved DEF Stages
  <2>2. UpdaterTypeOK' /\ Shape'
    BY <1>1, <1>2, <1>5, <2>1 DEF UpdaterTypeOK, Shape, Progresses, Statuses
  <2>3. ASSUME ~overlapped PROVE Fits(c)'
    BY <1>1, <1>3, <1>5, <2>1, <2>3 DEF Fits
  <2>4. QED
    BY <1>1, <2>1, <2>2, <2>3, StepInv
<1>6. QED
  BY <1>4, <1>5 DEF EndWrite

\* Only a file that matches its checksum becomes ready here.
LEMMA VerifyInv ==
  ASSUME UpdaterInv, NEW c \in Clicks, Verify(c)
  PROVE  UpdaterInv'
<1> USE DEF UpdaterInv
<1>1. /\ Active(c) /\ installed = None /\ installed' = None /\ click[c].at = "sums"
      /\ UNCHANGED <<overlapped, release, path, disk, published>>
  BY DEF Verify, At, Active
<1>2. PICK at \in {"ready", "over"} : Move(c, at) /\ (at = "ready" => Matches(c))
  BY DEF Verify
<1>3. /\ click' \in [Clicks -> Progresses] /\ click'[c].at = at
      /\ \A d \in Clicks \ {c} : click'[d] = click[d]
  BY <1>2, Moved DEF Stages
<1>4. status' \in Statuses
  BY DEF Verify, Statuses
<1>5. UpdaterTypeOK' /\ Shape'
  BY <1>1, <1>3, <1>4 DEF UpdaterTypeOK, Shape, Progresses
<1>6. ASSUME ~overlapped PROVE Fits(c)'
  BY <1>1, <1>2, <1>3, <1>6 DEF OwnFile, Fits, Matches
<1>7. QED
  BY <1>1, <1>3, <1>5, <1>6, StepInv

\* What is handed over is the file of the click that was ready.
LEMMA InstallInv ==
  ASSUME UpdaterInv, NEW c \in Clicks, Install(c)
  PROVE  UpdaterInv'
<1> USE DEF UpdaterInv
<1>1. /\ Active(c) /\ installed = None /\ click[c].at = "ready"
      /\ UNCHANGED <<overlapped, release, path, disk, published>>
  BY DEF Install, At, Active
<1>2. /\ click' \in [Clicks -> Progresses] /\ click'[c].at = "over"
      /\ \A d \in Clicks \ {c} : click'[d] = click[d]
  BY Moved DEF Install, Stages
<1>3. status' \in Statuses
  BY DEF Install, UpdaterTypeOK, Statuses, Working
<1>4. UpdaterTypeOK' /\ Shape'
  BY <1>1, <1>2, <1>3 DEF UpdaterTypeOK, Shape, Progresses
<1>5. Fits(c)'
  BY <1>2 DEF Fits
<1>6. ASSUME ~overlapped, installed' # None PROVE Verified'
  <2>1. installed'.of = path /\ installed'.content = disk[path]
    BY <1>1, <1>6 DEF Install
  <2>2. disk[path] \in {"good", "damaged"} /\ (path \in Signed => disk[path] = "good")
    BY <1>1, <1>6 DEF OwnFile, Fits
  <2>3. QED
    BY <2>1, <2>2 DEF Verified
<1>7. QED
  BY <1>1, <1>2, <1>4, <1>5, <1>6, StepInv

\* Every step of the updater keeps the invariant.
LEMMA UpdaterNextInv == UpdaterInv /\ [UpdaterNext]_updaterVars => UpdaterInv'
<1> SUFFICES ASSUME UpdaterInv, [UpdaterNext]_updaterVars PROVE UpdaterInv'
  OBVIOUS
<1>1. CASE UNCHANGED updaterVars
  BY <1>1 DEF updaterVars, UpdaterInv, UpdaterTypeOK, Shape, Alone, Active, OwnFile, Fits, Verified
<1>2. CASE Publish
  BY <1>2, PublishInv
<1>3. ASSUME NEW c \in Clicks, Click(c) PROVE UpdaterInv'
  BY <1>3, ClickInv
<1>4. ASSUME NEW c \in Clicks, Handler(c) PROVE UpdaterInv'
  BY <1>4, QuietInv, DownloadInv, ChunkInv, WriteInv, WrittenInv, VerifyInv, InstallInv
  DEF Handler
<1>5. QED
  BY <1>1, <1>2, <1>3, <1>4 DEF UpdaterNext

-----------------------------------------------------------------------------
(* The theorems.                                                           *)

\* The invariant holds in every state of the updater.
LEMMA UpdaterInvariance == UpdaterSpec => []UpdaterInv
BY InitInv, UpdaterNextInv, PTL DEF UpdaterSpec

\* Whatever is published while a click is at work, what it hands to the
\* installer is a whole artifact, and one that matches its checksum if its
\* release has one, unless clicks overlapped; and every variable keeps its type.
THEOREM OnlyVerifiedIsInstalled == UpdaterSpec => []InstalledIsVerified
<1>1. UpdaterInv => InstalledIsVerified
  BY DEF UpdaterInv, Verified, InstalledIsVerified
<1>2. QED
  BY <1>1, UpdaterInvariance, PTL
=============================================================================
