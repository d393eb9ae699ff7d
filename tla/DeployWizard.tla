---------------------------- MODULE DeployWizard ----------------------------
(***************************************************************************)
(* The page that deploys metadata from one org to another, with its five   *)
(* steps: client/src/features/orgDeploy. OrgDeploy models the server       *)
(* behind it; here a comparison and a deployment are a request in flight   *)
(* and its answer, and the orgs' jobs run to their end alone.              *)
(*                                                                         *)
(* Every request is answered into whatever the page has become meanwhile:  *)
(* the step tabs stay enabled while a comparison or a deployment is out,   *)
(* and leaving a step unmounts the review pane or the result panel with    *)
(* the effects they run.                                                   *)
(***************************************************************************)
EXTENDS Naturals, Sequences, FiniteSets

CONSTANTS Targets,      \* orgs that can be chosen as the target
          Sandboxes,    \* those of them that are sandboxes
          Rows,         \* rows of a comparison
          Status,       \* status of each row when the target could be read
          None,         \* no row, no request, no comparison
          MaxCompares,  \* bound: comparisons
          MaxWork       \* bound: comparisons and jobs together

ASSUME TargetAssumption == Sandboxes \subseteq Targets
ASSUME StatusAssumption ==
  Status \in [Rows -> {"new", "changed", "identical", "missing-source"}]

\* What the page holds: a comparison, the diff pane, the answer of a deployment
\* and the result panel, whose jobs are numbered from 1 (0: not known).
Ends == {"succeeded", "failed"}
Comparison == [id : Nat, target : Targets, available : BOOLEAN]
Pane == [active : Rows \cup {None}, diff : Rows \cup {None}, asked : Rows \cup {None},
         loading : BOOLEAN]
Answer == [job : Nat, of : Nat]
Panel == [job : Nat, of : Nat, status : {"running"} \cup Ends, polling : BOOLEAN,
          quick : Nat \cup {None}, heard : BOOLEAN]

\* What the orgs and the server hold: jobs, records and reports about records.
Job == [kind : {"validate", "deploy", "quick"}, target : Targets, of : Nat,
        state : {"running", "canceling"} \cup Ends]
Record == [mode : {"validate", "deploy"}, target : Targets, status : {"running"} \cup Ends]
Report == [of : Nat, status : Ends]

ASSUME NoneAssumption ==
  None \notin Rows \cup Targets \cup Nat \cup Comparison \cup Pane \cup Answer \cup Panel

VARIABLES
  step,        \* the step shown
  target,      \* targetOrg, kept in local storage
  compare,     \* the comparison under review
  selected,    \* selectedKeys
  doomed,      \* destructiveKeys
  ticked,      \* target-only rows the user ticked in this comparison
  result,      \* the deployment whose result can be shown
  comparing,   \* the target a comparison in flight was sent with
  executing,   \* the answer a deployment in flight is to have
  pane,        \* the diff pane, while the review step is mounted
  panel,       \* the result panel, while the result step is mounted
  jobs,        \* the jobs given to the orgs
  history,     \* status of each recorded deployment
  patches,     \* status reports on their way to the server
  swapped,     \* records that came under a panel opened for another
  compares     \* bounded by MaxCompares

reviewVars == <<compare, selected, doomed, ticked>>
requestVars == <<comparing, executing>>
orgVars == <<jobs, history, patches, swapped>>
vars == <<step, target, result, pane, panel, reviewVars, requestVars, orgVars, compares>>

Steps == {"orgs", "metadata", "review", "settings", "result"}
FromSource(r) == Status[r] # "missing-source"
\* The rows of a comparison: without the target nothing is target-only.
RowsOf(c) == IF c = None THEN {} ELSE IF c.available THEN Rows ELSE {r \in Rows : FromSource(r)}
HasDiff(c, r) == r \in RowsOf(c) /\ c.available /\ Status[r] # "identical"
Pending == {"running", "canceling"}

\* The effect of the pane, below, without the cleanup that aborts.
PaneEffectKeepsRequest(c, r, loading) ==
  [active |-> r, diff |-> None,
   asked |-> IF pane # None /\ pane.asked # None THEN pane.asked
             ELSE IF HasDiff(c, r) THEN r ELSE None,
   loading |-> loading \/ HasDiff(c, r)]

(***************************************************************************)
(* The pane runs one effect for the active row of the comparison. It ends  *)
(* early, and does not clear `loading`, when there is nothing to fetch;    *)
(* starting again aborts the request of the previous run.                  *)
(***************************************************************************)
PaneEffect(c, r, loading) ==
  [active |-> r, diff |-> None,
   asked |-> IF HasDiff(c, r) THEN r ELSE None,
   loading |-> loading \/ HasDiff(c, r)]

\* The review step mounts on the first row; the panel polls from its mount.
FirstRow(c) == IF RowsOf(c) = {} THEN None ELSE CHOOSE r \in RowsOf(c) : TRUE
OpenPane(c) == PaneEffect(c, FirstRow(c), FALSE)
OpenPanel(res) ==
  [job |-> res.job, of |-> res.of, status |-> "running", polling |-> res.job # 0,
   quick |-> None, heard |-> res.job # 0]

Init ==
  /\ step = "orgs" /\ target \in Targets
  /\ compare = None /\ selected = {} /\ doomed = {} /\ ticked = {}
  /\ result = None
  /\ comparing = None /\ executing = None
  /\ pane = None /\ panel = None
  /\ jobs = <<>> /\ history = <<>> /\ patches = {} /\ swapped = {}
  /\ compares = 0

-----------------------------------------------------------------------------
(***************************************************************************)
(* Steps. The tabs and the back and next buttons show a step that is       *)
(* unlocked; showing review or result mounts it afresh, and showing        *)
(* another unmounts it.                                                    *)
(***************************************************************************)
Unlocked == {"orgs", "metadata"}
            \cup (IF compare # None THEN {"review", "settings"} ELSE {})
            \cup (IF result # None THEN {"result"} ELSE {})

Show(s, c, res) ==
  /\ step' = s
  /\ IF s # "review" THEN pane' = None
     ELSE IF step = "review"
     THEN pane' = IF c = compare THEN pane ELSE PaneEffect(c, pane.active, pane.loading)
     ELSE pane' = OpenPane(c)
  /\ panel' = IF s # "result" THEN None ELSE IF step = "result" THEN panel ELSE OpenPanel(res)

GoTo(s) ==
  /\ s \in Unlocked \ {step}
  /\ Show(s, compare, result)
  /\ UNCHANGED <<result, reviewVars, target, requestVars, orgVars, compares>>

\* The pickers of the first step. The comparison under review is kept.
ChooseTarget(t) ==
  /\ step = "orgs" /\ t # target
  /\ target' = t
  /\ UNCHANGED <<step, result, pane, panel, reviewVars, requestVars, orgVars, compares>>

\* The selection, of at least one entry, is left out.
RunCompare ==
  /\ step = "metadata" /\ comparing = None /\ compares < MaxCompares /\ compares + Len(jobs) < MaxWork
  /\ comparing' = target
  /\ compares' = compares + 1
  /\ UNCHANGED <<step, result, pane, panel, reviewVars, target, executing, orgVars>>

\* The same without the last line of it: deletions chosen before are kept.
SetCompareButDoomed(c) ==
  /\ compare' = c
  /\ selected' = {r \in RowsOf(c) : FromSource(r)}
  /\ doomed' = doomed

\* The comparison replaces the one under review, with its choices.
SetCompare(c) ==
  /\ compare' = c
  /\ selected' = {r \in RowsOf(c) : FromSource(r)}
  /\ doomed' = {}
CompareAnswers(available) ==
  /\ comparing # None
  /\ LET c == [id |-> compares, target |-> comparing, available |-> available]
     IN SetCompare(c) /\ Show("review", c, result)
  /\ ticked' = {}
  /\ comparing' = None
  /\ UNCHANGED <<result, target, executing, orgVars, compares>>

CompareFails ==
  /\ comparing # None
  /\ comparing' = None
  /\ UNCHANGED <<step, result, pane, panel, reviewVars, target, executing, orgVars, compares>>

-----------------------------------------------------------------------------
(***************************************************************************)
(* Review.                                                                 *)
(***************************************************************************)
\* A row of the table, a child of a type, the tray or the previous and next
\* buttons make a row active.
Activate(r) ==
  /\ step = "review" /\ r \in RowsOf(compare) \ {pane.active}
  /\ pane' = PaneEffect(compare, r, pane.loading)
  /\ UNCHANGED <<step, result, panel, reviewVars, target, requestVars, orgVars, compares>>

DiffAnswers(found) ==
  /\ pane # None /\ pane.asked # None
  /\ pane' = [pane EXCEPT !.diff = IF found THEN pane.asked ELSE None, !.asked = None, !.loading = FALSE]
  /\ UNCHANGED <<step, result, panel, reviewVars, target, requestVars, orgVars, compares>>

Flip(set, r) == IF r \in set THEN set \ {r} ELSE set \cup {r}
\* A target-only row is chosen for deletion, any other for deployment.
Toggle(r) ==
  /\ step = "review" /\ r \in RowsOf(compare)
  /\ IF FromSource(r)
     THEN selected' = Flip(selected, r) /\ UNCHANGED <<doomed, ticked>>
     ELSE doomed' = Flip(doomed, r) /\ ticked' = Flip(ticked, r) /\ UNCHANGED selected
  /\ UNCHANGED <<step, compare, result, pane, panel, target, requestVars, orgVars, compares>>

\* "Select visible" and "Clear visible", under any filter.
SelectVisible(visible, on) ==
  /\ step = "review"
  /\ LET rows == {r \in visible \cap RowsOf(compare) : FromSource(r)}
     IN selected' = IF on THEN selected \cup rows ELSE selected \ rows
  /\ UNCHANGED <<step, compare, doomed, ticked, result, pane, panel, target, requestVars, orgVars, compares>>

-----------------------------------------------------------------------------
(***************************************************************************)
(* Settings. A deployment is sent with the choices and the target of the   *)
(* moment of the click, and is refused or becomes a job with a record. The *)
(* mode buttons are a choice made with the click; the preview, which shows *)
(* a text and nothing else, is left out.                                   *)
(***************************************************************************)
\* The server takes a deployment only for the target of the comparison.
Accepts(to) == compare.target = to /\ selected \cup doomed # {}

\* One that the server or the org refuses is reported and changes nothing.
Execute(mode) ==
  /\ step = "settings" /\ executing = None /\ compares + Len(jobs) < MaxWork
  /\ Accepts(target)
  /\ jobs' = Append(jobs, [kind |-> mode, target |-> target,
                          of |-> Len(history) + 1, state |-> "running"])
  /\ history' = Append(history, [mode |-> mode, target |-> target, status |-> "running"])
  /\ executing' = [job |-> Len(jobs) + 1, of |-> Len(history) + 1]
  /\ UNCHANGED <<step, result, pane, panel, reviewVars, target, comparing, patches, swapped, compares>>

\* What the polling effect does when its record changes under it: the job
\* identifier is state of the panel and stays what it was.
Repoll(p, of) == [p EXCEPT !.of = of, !.polling = p.job # 0]

\* The answer shows the result step, remounted unless it was shown already.
\* It may lack the identifier of the job.
ExecuteAnswers(named) ==
  /\ executing # None
  /\ result' = [executing EXCEPT !.job = IF named THEN @ ELSE 0]
  /\ step' = "result" /\ pane' = None
  /\ panel' = IF step = "result" THEN Repoll(panel, executing.of) ELSE OpenPanel(result')
  /\ swapped' = swapped \cup (IF step = "result" THEN {panel.of, executing.of} ELSE {})
  /\ executing' = None
  /\ UNCHANGED <<reviewVars, target, comparing, jobs, history, patches, compares>>

-----------------------------------------------------------------------------
(***************************************************************************)
(* The result panel.                                                       *)
(***************************************************************************)
\* A poll that takes a job being cancelled for an ended one.
PollHasty ==
  /\ panel # None /\ panel.polling
  /\ LET state == jobs[panel.job].state
     IN /\ state # "running"
        /\ panel' = [panel EXCEPT !.status = IF state = "succeeded" THEN state ELSE "failed", !.polling = FALSE]
        /\ patches' = patches \cup {[of |-> panel.of, status |-> panel'.status]}
  /\ UNCHANGED <<step, result, pane, reviewVars, target, requestVars, jobs, history, swapped, compares>>

\* A poll that finds the job ended reports it and polls no more; one that
\* finds it running, or fails, is followed by another.
Poll ==
  /\ panel # None /\ panel.polling
  /\ LET state == jobs[panel.job].state
     IN /\ state \notin Pending
        /\ panel' = [panel EXCEPT !.status = state, !.polling = FALSE]
        /\ patches' = patches \cup {[of |-> panel.of, status |-> state]}
  /\ UNCHANGED <<step, result, pane, reviewVars, target, requestVars, jobs, history, swapped, compares>>
DeliverPatch(p) ==
  /\ p \in patches
  /\ patches' = patches \ {p}
  /\ history' = [history EXCEPT ![p.of].status = p.status]
  /\ UNCHANGED <<step, result, pane, panel, reviewVars, target, requestVars, jobs, swapped, compares>>

Cancel ==
  /\ panel # None /\ panel.status = "running" /\ panel.job # 0 /\ panel.quick = None
  /\ jobs[panel.job].state = "running"
  /\ jobs' = [jobs EXCEPT ![panel.job].state = "canceling"]
  /\ UNCHANGED <<step, result, pane, panel, reviewVars, target, requestVars, history, patches, swapped, compares>>

\* Offered after the validation of a production org; that org takes it for a
\* validation of its own which has succeeded.
QuickDeploy ==
  /\ panel # None /\ panel.quick = None /\ panel.status = "succeeded" /\ panel.job # 0
  /\ LET record == history[panel.of]
         job == jobs[panel.job]
     IN /\ record.mode = "validate" /\ record.target \notin Sandboxes /\ compares + Len(jobs) < MaxWork
        /\ job.kind = "validate" /\ job.state = "succeeded" /\ job.target = record.target
        /\ panel' = [panel EXCEPT !.quick = Len(jobs) + 1]
        /\ jobs' = Append(jobs, [job EXCEPT !.kind = "quick", !.of = panel.of, !.state = "running"])
  /\ UNCHANGED <<step, result, pane, reviewVars, target, requestVars, history, patches, swapped, compares>>

\* The answer of a quick deployment, if the effect depended on the record alone.
QuickAnswersUnwatched(named) ==
  /\ panel # None /\ panel.quick # None
  /\ panel' = [panel EXCEPT !.status = "running", !.quick = None,
                            !.job = IF named THEN panel.quick ELSE @,
                            !.heard = named]
  /\ UNCHANGED <<step, result, pane, reviewVars, target, requestVars, orgVars, compares>>

\* The polling effect runs again only if the answer names another job.
QuickAnswers(named) ==
  /\ panel # None /\ panel.quick # None
  /\ panel' = [panel EXCEPT !.status = "running", !.quick = None,
                            !.job = IF named THEN panel.quick ELSE @,
                            !.polling = named \/ @, !.heard = named]
  /\ UNCHANGED <<step, result, pane, reviewVars, target, requestVars, orgVars, compares>>
\* "Start another deployment". What is in flight stays in flight.
Restart ==
  /\ panel # None /\ panel.status # "running"
  /\ compare' = None /\ selected' = {} /\ doomed' = {} /\ ticked' = {}
  /\ result' = None
  /\ Show("metadata", None, None)
  /\ UNCHANGED <<target, requestVars, orgVars, compares>>

\* Another page is opened and this one again: only the target is kept, and
\* answers still to come find no page.
Leave ==
  /\ step' = "orgs"
  /\ compare' = None /\ selected' = {} /\ doomed' = {} /\ ticked' = {}
  /\ result' = None /\ pane' = None /\ panel' = None
  /\ comparing' = None /\ executing' = None
  /\ UNCHANGED <<target, orgVars, compares>>

\* The org ends a job; a cancelled one may have succeeded before.
JobEnds(n, state) ==
  /\ n \in DOMAIN jobs /\ jobs[n].state \in Pending
  /\ jobs' = [jobs EXCEPT ![n].state = state]
  /\ UNCHANGED <<step, result, pane, panel, reviewVars, target, requestVars, history, patches, swapped, compares>>

Next ==
  \/ \E s \in Steps : GoTo(s)
  \/ \E t \in Targets : ChooseTarget(t)
  \/ RunCompare \/ CompareFails
  \/ \E b \in BOOLEAN : CompareAnswers(b) \/ DiffAnswers(b) \/ ExecuteAnswers(b) \/ QuickAnswers(b)
  \/ \E r \in Rows : Activate(r) \/ Toggle(r)
  \/ \E visible \in SUBSET Rows, on \in BOOLEAN : SelectVisible(visible, on)
  \/ \E m \in {"validate", "deploy"} : Execute(m)
  \/ Poll \/ Cancel \/ QuickDeploy \/ Restart \/ Leave
  \/ \E p \in patches : DeliverPatch(p)
  \/ \E n \in DOMAIN jobs, state \in {"succeeded", "failed"} : JobEnds(n, state)

Spec == Init /\ [][Next]_vars

\* The panel's timer polls again and again, requests are answered and the
\* orgs end their jobs; nobody has to press a button.
Fairness ==
  /\ WF_vars(Poll)
  /\ WF_vars(\E b \in BOOLEAN : QuickAnswers(b))
  /\ WF_vars(\E n \in DOMAIN jobs, state \in {"succeeded", "failed"} : JobEnds(n, state))
FairSpec == Spec /\ Fairness

-----------------------------------------------------------------------------
TypeOK ==
  /\ step \in Steps /\ target \in Targets
  /\ compare \in {None} \cup Comparison
  /\ selected \subseteq Rows /\ doomed \subseteq Rows /\ ticked \subseteq Rows
  /\ result \in {None} \cup Answer /\ executing \in {None} \cup Answer
  /\ comparing \in {None} \cup Targets /\ compares \in Nat
  /\ pane \in {None} \cup Pane /\ panel \in {None} \cup Panel
  /\ jobs \in Seq(Job) /\ history \in Seq(Record)
  /\ patches \subseteq Report /\ swapped \subseteq Nat
  /\ step = "review" <=> pane # None
  /\ step = "result" <=> panel # None
  /\ step \in {"review", "settings"} => compare # None
  /\ result # None => result.of \in DOMAIN history /\ result.job \in 0 .. Len(jobs)
  /\ panel # None => panel.of = result.of /\ panel.job \in 0 .. Len(jobs)

\* What the pane shows or is waiting for is the difference of the row that is
\* active, in the comparison under review, however fast the user moves through
\* the rows and whatever comparison is answered meanwhile.
PaneIsOfActiveRow ==
  /\ TypeOK
  /\ pane # None =>
    /\ {pane.diff, pane.asked} \subseteq {None, pane.active}
    /\ pane.asked # None => pane.loading /\ pane.diff = None
    /\ pane.diff # None => HasDiff(compare, pane.active)

\* A package goes to the org it was compared with, and deletes there only rows
\* the user has ticked in the comparison it is made from ("Target-only metadata
\* is never deleted automatically"), though the target can be changed and a new
\* comparison answered at any time.
ShipsAsReviewed ==
  [][(\E mode \in {"validate", "deploy"} : Execute(mode)) =>
       /\ jobs'[Len(jobs')].target = compare.target
       /\ doomed \subseteq {r \in ticked \cap RowsOf(compare) : Status[r] = "missing-source"}]_vars

\* The history says of a deployment that it succeeded or failed only if a job
\* made for it has ended so. Excepted are records that came under a panel which
\* was open for another one: the panel goes on polling the job it had and
\* reports it under the new record.
HistoryTellsOutcome ==
  \A k \in DOMAIN history \ swapped :
    history[k].status # "running" =>
      \E n \in DOMAIN jobs : jobs[n].of = k /\ jobs[n].state = history[k].status

\* A panel that knows a job comes to show how it ended, unless the user leaves
\* it: through failing polls, a cancellation and a quick deployment. Excepted is
\* a quick deployment whose answer names no job: the status returns to running
\* and nothing polls.
MonitoredToTheEnd ==
  panel # None /\ panel.heard /\ panel.status = "running"
    ~> panel = None \/ ~panel.heard \/ panel.status # "running"
=============================================================================
