------------------------ MODULE DeployWizard_proofs ------------------------
(***************************************************************************)
(* Theorems about the deployment page, for any orgs, any comparison and    *)
(* any number of comparisons, deployments and jobs.                        *)
(***************************************************************************)
EXTENDS DeployWizard, SequenceTheorems, TLAPS

(* The pane: what it shows or awaits is about the active row of c.         *)
PaneOk(p, c) ==
  /\ {p.diff, p.asked} \subseteq {None, p.active}
  /\ p.asked # None => p.loading /\ p.diff = None
  /\ p.diff # None => HasDiff(c, p.active)
  /\ p.asked # None => HasDiff(c, p.active)
PaneInv == pane # None => PaneOk(pane, compare)

(* The rows chosen for deletion are those ticked in the comparison that is  *)
(* under review, and exist in the target only.                             *)
ChoiceInv ==
  /\ doomed = ticked
  /\ \A r \in doomed : r \in RowsOf(compare) /\ ~FromSource(r)

(* Every number the page holds is the number of a job or of a record.      *)
IdInv ==
  /\ executing # None => executing.job \in DOMAIN jobs /\ executing.of \in DOMAIN history
  /\ panel # None =>
       /\ result # None
       /\ panel.polling => panel.job # 0
       /\ panel.quick # None => panel.quick \in DOMAIN jobs
  /\ \A p \in patches : p.of \in DOMAIN history

(* A job that the page follows for a record was made for it, and what is   *)
(* reported of the record is how a job made for it ended, unless another    *)
(* record came under the panel.                                            *)
Outcome(k, status) == \E n \in DOMAIN jobs : jobs[n].of = k /\ jobs[n].state = status
MadeFor(n, k) == n \in DOMAIN jobs => jobs[n].of = k

TruthInv ==
  /\ executing # None => MadeFor(executing.job, executing.of)
  /\ result # None => MadeFor(result.job, result.of)
  /\ panel # None /\ panel.of \notin swapped =>
       /\ MadeFor(panel.job, panel.of)
       /\ panel.quick # None => MadeFor(panel.quick, panel.of)
  /\ \A p \in patches : p.of \notin swapped => Outcome(p.of, p.status)
  /\ HistoryTellsOutcome

IndInv == TypeOK /\ PaneInv /\ ChoiceInv /\ IdInv /\ TruthInv

-----------------------------------------------------------------------------
(* The parts of the page.                                                  *)

\* None stands for no row, org, number or record of the page.
LEMMA NoneIs ==
  /\ None \notin Rows /\ None \notin Targets /\ None \notin Nat
  /\ None \notin Comparison /\ None \notin Pane /\ None \notin Answer /\ None \notin Panel
BY NoneAssumption

\* What is there is of its type.
LEMMA Present ==
  ASSUME TypeOK
  PROVE  /\ compare # None => compare \in Comparison
         /\ result # None => result \in Answer
         /\ executing # None => executing \in Answer
         /\ pane # None => pane \in Pane
         /\ panel # None => panel \in Panel
BY DEF TypeOK

\* The rows of a comparison are rows, and there is none without a comparison.
LEMMA RowsAre ==
  ASSUME NEW c
  PROVE  /\ RowsOf(c) \subseteq Rows
         /\ RowsOf(None) = {}
         /\ FirstRow(c) \in Rows \cup {None}
<1>1. RowsOf(c) \subseteq Rows /\ RowsOf(None) = {}
  BY DEF RowsOf
<1>2. CASE RowsOf(c) = {}
  BY <1>1, <1>2 DEF FirstRow
<1>3. CASE RowsOf(c) # {}
  <2>1. (CHOOSE r \in RowsOf(c) : TRUE) \in RowsOf(c)
    BY <1>3
  <2>2. QED
    BY <1>1, <1>3, <2>1 DEF FirstRow
<1>4. QED
  BY <1>1, <1>2, <1>3

\* The effect of the pane makes one that is about the active row.
LEMMA EffectIs ==
  ASSUME NEW c, NEW r \in Rows \cup {None}, NEW b \in BOOLEAN
  PROVE  PaneEffect(c, r, b) \in Pane /\ PaneOk(PaneEffect(c, r, b), c)
<1> DEFINE p == PaneEffect(c, r, b)
           h == HasDiff(c, r)
<1>1. p.active = r /\ p.diff = None /\ p.asked = (IF h THEN r ELSE None) /\ p.loading = (b \/ h)
  BY DEF PaneEffect
<1>2. (IF h THEN r ELSE None) \in Rows \cup {None} /\ (b \/ h) \in BOOLEAN
  OBVIOUS
<1>3. p \in Pane
  <2> HIDE DEF h
  <2>1. p = [active |-> r, diff |-> None, asked |-> IF h THEN r ELSE None, loading |-> b \/ h]
    BY DEF PaneEffect, h
  <2>2. QED
    BY <1>2, <2>1 DEF Pane
<1>4. PaneOk(p, c)
  <2> HIDE DEF p
  <2>1. CASE h
    BY <1>1, <2>1 DEF PaneOk
  <2>2. CASE ~h
    BY <1>1, <2>2 DEF PaneOk
  <2>3. QED
    BY <2>1, <2>2
<1>5. QED
  BY <1>3, <1>4

\* The fields of the diff pane.
LEMMA PaneFields ==
  ASSUME NEW p \in Pane
  PROVE  /\ p.active \in Rows \cup {None} /\ p.diff \in Rows \cup {None}
         /\ p.asked \in Rows \cup {None} /\ p.loading \in BOOLEAN
BY DEF Pane

\* The fields of an answer.
LEMMA AnswerFields ==
  ASSUME NEW a \in Answer
  PROVE  a.job \in Nat /\ a.of \in Nat
BY DEF Answer

\* The fields of the panel.
LEMMA PanelFields ==
  ASSUME NEW p \in Panel
  PROVE  /\ p.job \in Nat /\ p.of \in Nat /\ p.status \in {"running"} \cup Ends
         /\ p.polling \in BOOLEAN /\ p.quick \in Nat \cup {None} /\ p.heard \in BOOLEAN
BY DEF Panel

\* A panel that is opened follows the job of the result, if it is known.
LEMMA OpenPanelIs ==
  ASSUME NEW a \in Answer, NEW p, p = OpenPanel(a)
  PROVE  /\ p \in Panel /\ p.job = a.job /\ p.of = a.of /\ p.quick = None
         /\ p.polling => p.job # 0
<1>1. a.job \in Nat /\ a.of \in Nat
  BY AnswerFields
<1>2. p.job = a.job /\ p.of = a.of /\ p.quick = None /\ (p.polling => p.job # 0)
  BY DEF OpenPanel
<1>3. p \in Panel
  BY <1>1 DEF OpenPanel, Panel
<1>4. QED
  BY <1>2, <1>3

\* Showing a step mounts what belongs to it.
LEMMA ShowDoes ==
  ASSUME TypeOK, PaneInv, NEW s \in Steps, NEW c, NEW res,
         s = "review" => c # None,
         s = "result" => res \in Answer /\ (step = "result" => res = result),
         Show(s, c, res)
  PROVE  /\ step' = s
         /\ pane' \in {None} \cup Pane
         /\ s = "review" <=> pane' # None
         /\ pane' # None => PaneOk(pane', c)
         /\ panel' \in {None} \cup Panel
         /\ s = "result" <=> panel' # None
         /\ panel' # None => \/ step = "result" /\ panel' = panel
                             \/ panel' = OpenPanel(res)
<1>0. /\ None \notin Pane /\ None \notin Panel
      /\ step = "review" <=> pane # None
      /\ step = "result" <=> panel # None
      /\ pane # None => pane \in Pane
      /\ panel # None => panel \in Panel
  BY NoneIs DEF TypeOK
<1>1. step' = s
  BY DEF Show
<1>2. /\ pane' \in {None} \cup Pane
      /\ s = "review" <=> pane' # None
      /\ pane' # None => PaneOk(pane', c)
  <2>1. CASE s # "review"
    BY <2>1 DEF Show
  <2>2. CASE s = "review"
    <3>1. CASE step = "review" /\ c = compare
      <4>1. pane' = pane
        BY <2>2, <3>1 DEF Show
      <4>2. QED
        BY <1>0, <2>2, <3>1, <4>1 DEF PaneInv
    <3>2. CASE step = "review" /\ c # compare
      <4>1. pane' = PaneEffect(c, pane.active, pane.loading)
        BY <2>2, <3>2 DEF Show
      <4>2. pane.active \in Rows \cup {None} /\ pane.loading \in BOOLEAN
        BY <1>0, <3>2, PaneFields
      <4>3. QED
        BY <1>0, <2>2, <4>1, <4>2, EffectIs
    <3>3. CASE step # "review"
      <4>1. pane' = PaneEffect(c, FirstRow(c), FALSE)
        BY <2>2, <3>3 DEF Show, OpenPane
      <4>2. QED
        BY <1>0, <2>2, <4>1, EffectIs, RowsAre
    <3>4. QED
      BY <3>1, <3>2, <3>3
  <2>3. QED
    BY <2>1, <2>2
<1>3. /\ panel' \in {None} \cup Panel
      /\ s = "result" <=> panel' # None
      /\ panel' # None => \/ step = "result" /\ panel' = panel
                          \/ panel' = OpenPanel(res)
  <2>1. CASE s # "result"
    BY <2>1 DEF Show
  <2>2. CASE s = "result" /\ step = "result"
    BY <1>0, <2>2 DEF Show
  <2>3. CASE s = "result" /\ step # "result"
    <3>1. panel' = OpenPanel(res)
      BY <2>3 DEF Show
    <3>2. QED
      BY <1>0, <2>3, <3>1, OpenPanelIs
  <2>4. QED
    BY <2>1, <2>2, <2>3
<1>4. QED
  BY <1>1, <1>2, <1>3

-----------------------------------------------------------------------------
(* Jobs and records.                                                       *)

\* No job disappears or changes the record it was made for, and one that has
\* ended stays as it is.
JobsGrow ==
  /\ jobs' \in Seq(Job) /\ Len(jobs') >= Len(jobs)
  /\ \A n \in 1 .. Len(jobs) :
       /\ jobs'[n].of = jobs[n].of
       /\ jobs[n].state \in Ends => jobs'[n].state = jobs[n].state

\* The jobs and the records are numbered from 1.
LEMMA Lengths ==
  ASSUME TypeOK
  PROVE  /\ Len(jobs) \in Nat /\ DOMAIN jobs = 1 .. Len(jobs)
         /\ Len(history) \in Nat /\ DOMAIN history = 1 .. Len(history)
         /\ \A n \in 1 .. Len(jobs) : jobs[n] \in Job
         /\ \A k \in 1 .. Len(history) : history[k] \in Record
<1>1. jobs \in Seq(Job) /\ history \in Seq(Record)
  BY DEF TypeOK
<1>2. QED
  BY <1>1, LenProperties, ElementOfSeq

\* The fields of a job.
LEMMA JobFields ==
  ASSUME NEW j \in Job
  PROVE  /\ j.kind \in {"validate", "deploy", "quick"} /\ j.target \in Targets
         /\ j.of \in Nat /\ j.state \in {"running", "canceling"} \cup Ends
BY DEF Job

\* A change of the state alone.
LEMMA StateSet ==
  ASSUME NEW j \in Job, NEW st \in {"running", "canceling"} \cup Ends,
         NEW x, x = [j EXCEPT !.state = st]
  PROVE  x \in Job /\ x.of = j.of /\ x.state = st
BY DEF Job

\* A new job.
LEMMA JobAdded ==
  ASSUME TypeOK, NEW j \in Job, jobs' = Append(jobs, j)
  PROVE  JobsGrow /\ Len(jobs') = Len(jobs) + 1 /\ jobs'[Len(jobs) + 1] = j
<1>1. jobs \in Seq(Job) /\ Len(jobs) \in Nat
  BY Lengths DEF TypeOK
<1>2. /\ jobs' \in Seq(Job) /\ Len(jobs') = Len(jobs) + 1
      /\ \A n \in 1 .. Len(jobs) : jobs'[n] = jobs[n]
      /\ jobs'[Len(jobs) + 1] = j
  BY <1>1, AppendProperties
<1>3. QED
  BY <1>1, <1>2 DEF JobsGrow

\* The state of a job that has not ended.
LEMMA JobMoved ==
  ASSUME TypeOK, NEW n \in 1 .. Len(jobs), jobs[n].state \notin Ends,
         NEW st \in {"running", "canceling"} \cup Ends, jobs' = [jobs EXCEPT ![n].state = st]
  PROVE  JobsGrow /\ Len(jobs') = Len(jobs)
<1>1. jobs \in Seq(Job) /\ jobs[n] \in Job /\ Len(jobs) \in Nat
  BY Lengths DEF TypeOK
<1>2. PICK x : x = [jobs[n] EXCEPT !.state = st]
  OBVIOUS
<1>3. x \in Job /\ x.of = jobs[n].of
  BY <1>1, <1>2, StateSet
<1>4. jobs' = [jobs EXCEPT ![n] = x]
  BY <1>2
<1>5. /\ jobs' \in Seq(Job) /\ Len(jobs') = Len(jobs)
      /\ \A m \in 1 .. Len(jobs) : jobs'[m] = IF m = n THEN x ELSE jobs[m]
  BY <1>1, <1>3, <1>4, ExceptSeq
<1>6. QED
  BY <1>1, <1>3, <1>5 DEF JobsGrow

\* Jobs that stay as they are.
LEMMA JobsStay ==
  ASSUME TypeOK, UNCHANGED jobs
  PROVE  JobsGrow
BY Lengths DEF JobsGrow, TypeOK

\* What a job was made for and how one ended stays true.
LEMMA Lasting ==
  ASSUME TypeOK, JobsGrow
  PROVE  /\ \A k : \A n \in 1 .. Len(jobs) : MadeFor(n, k) => MadeFor(n, k)'
         /\ \A k, st : st \in Ends /\ Outcome(k, st) => Outcome(k, st)'
         /\ DOMAIN jobs' = 1 .. Len(jobs') /\ Len(jobs') \in Nat
         /\ DOMAIN jobs \subseteq DOMAIN jobs'
<1>1. /\ DOMAIN jobs' = 1 .. Len(jobs') /\ Len(jobs') \in Nat
      /\ DOMAIN jobs = 1 .. Len(jobs) /\ Len(jobs) \in Nat
      /\ 1 .. Len(jobs) \subseteq 1 .. Len(jobs')
  <2>1. jobs' \in Seq(Job) /\ Len(jobs') >= Len(jobs)
    BY DEF JobsGrow
  <2>2. DOMAIN jobs' = 1 .. Len(jobs') /\ Len(jobs') \in Nat
    BY <2>1, LenProperties
  <2>3. QED
    BY <2>1, <2>2, Lengths
<1>2. \A k : \A n \in 1 .. Len(jobs) : MadeFor(n, k) => MadeFor(n, k)'
  BY <1>1 DEF JobsGrow, MadeFor
<1>3. ASSUME NEW k, NEW st, st \in Ends, Outcome(k, st)
      PROVE  Outcome(k, st)'
  BY <1>1, <1>3 DEF JobsGrow, Outcome
<1>4. QED
  BY <1>1, <1>2, <1>3

\* The job 0, which is not known, was made for anything.
LEMMA UnknownJob ==
  ASSUME TypeOK
  PROVE  \A k : MadeFor(0, k)
BY Lengths DEF MadeFor

\* A job that was made for a record stays so while jobs only grow.
LEMMA StillMade ==
  ASSUME TypeOK, JobsGrow
  PROVE  \A k : \A n \in 0 .. Len(jobs) : MadeFor(n, k) => MadeFor(n, k)'
<1> SUFFICES ASSUME NEW n \in 0 .. Len(jobs), NEW k, MadeFor(n, k)
             PROVE  MadeFor(n, k)'
  OBVIOUS
<1>1. CASE n = 0
  <2>1. 0 \notin DOMAIN jobs'
    BY Lasting
  <2>2. QED
    BY <1>1, <2>1 DEF MadeFor
<1>2. CASE n # 0
  <2>1. n \in 1 .. Len(jobs)
    BY <1>2, Lengths
  <2>2. QED
    BY <2>1, Lasting
<1>3. QED
  BY <1>1, <1>2

\* The history stays true when records and reports stay and no job that ended
\* changes.
LEMMA HistoryKept ==
  ASSUME TypeOK, HistoryTellsOutcome, JobsGrow, UNCHANGED history, swapped \subseteq swapped'
  PROVE  HistoryTellsOutcome'
<1> SUFFICES ASSUME NEW k \in DOMAIN history, k \notin swapped, history[k].status # "running"
             PROVE  Outcome(k, history[k].status)'
  BY DEF HistoryTellsOutcome, Outcome
<1>1. Outcome(k, history[k].status)
  BY DEF HistoryTellsOutcome, Outcome
<1>2. history[k].status \in Ends
  <2>1. history[k] \in Record
    BY Lengths
  <2>2. QED
    BY <2>1 DEF Record
<1>3. QED
  BY <1>1, <1>2, Lasting

\* Every step that keeps the records and the reports, lets no job go back, and
\* leaves of the answers and of the panel what was there or nothing, or opens
\* the panel for the result, keeps what the page knows true.
LEMMA Kept ==
  ASSUME TypeOK, IdInv, TruthInv, JobsGrow,
         UNCHANGED <<patches, swapped, history>>,
         executing' = executing \/ executing' = None,
         result' = result \/ result' = None,
         panel' # None =>
           /\ result' = result /\ result # None
           /\ panel' = panel \/ panel' = OpenPanel(result)
  PROVE  IdInv' /\ TruthInv'
<1>1. DOMAIN jobs \subseteq DOMAIN jobs' /\ DOMAIN jobs = 1 .. Len(jobs) /\ Len(jobs) \in Nat
  BY Lasting, Lengths
<1>2. \A k : \A n \in 0 .. Len(jobs) : MadeFor(n, k) => MadeFor(n, k)'
  BY StillMade
<1>3. result # None => result.job \in 0 .. Len(jobs)
  BY DEF TypeOK
<1>4. panel # None => panel.job \in 0 .. Len(jobs)
  BY DEF TypeOK
<1>5. result # None => OpenPanel(result).job = result.job /\ OpenPanel(result).of = result.of
                       /\ OpenPanel(result).quick = None
                       /\ (OpenPanel(result).polling => OpenPanel(result).job # 0)
  BY Present, OpenPanelIs
<1>6. IdInv'
  BY <1>1, <1>5 DEF IdInv
<1>7. executing' # None => MadeFor(executing.job, executing.of)' /\ executing' = executing
  <2>1. executing # None => executing.job \in 0 .. Len(jobs)
    BY <1>1 DEF IdInv
  <2>2. QED
    BY <1>2, <2>1 DEF TruthInv
<1>8. result' # None => MadeFor(result.job, result.of)' /\ result' = result
  BY <1>2, <1>3 DEF TruthInv
<1>9. panel' # None /\ panel'.of \notin swapped' =>
        /\ MadeFor(panel.job, panel.of)' \/ panel' # panel
        /\ panel'.quick # None => MadeFor(panel.quick, panel.of)' /\ panel' = panel
  <2>1. panel # None /\ panel.quick # None => panel.quick \in 0 .. Len(jobs)
    BY <1>1 DEF IdInv
  <2>2. QED
    BY <1>2, <1>4, <1>5, <2>1 DEF TruthInv
<1>10. \A p \in patches : p.of \notin swapped => Outcome(p.of, p.status)'
  <2> SUFFICES ASSUME NEW p \in patches, p.of \notin swapped
               PROVE  Outcome(p.of, p.status)'
    OBVIOUS
  <2>1. p \in Report /\ Outcome(p.of, p.status)
    BY DEF TypeOK, TruthInv
  <2>2. p.status \in Ends
    BY <2>1 DEF Report
  <2>3. QED
    BY <2>1, <2>2, Lasting
<1>11. HistoryTellsOutcome'
  BY HistoryKept DEF TruthInv
<1>12. QED
  BY <1>5, <1>6, <1>7, <1>8, <1>9, <1>10, <1>11 DEF TruthInv

-----------------------------------------------------------------------------
(* The invariant, action by action.                                        *)

\* What the page knows of jobs and records, when a step leaves all of it alone.
LEMMA Alone ==
  ASSUME TypeOK, IdInv, TruthInv,
         UNCHANGED <<jobs, history, patches, swapped, executing, result, panel>>
  PROVE  IdInv' /\ TruthInv'
<1>1. JobsGrow
  BY JobsStay
<1>2. panel # None => result # None
  BY DEF IdInv
<1>3. QED
  BY <1>1, <1>2, Kept

\* A choice of the target, and the start or the failure of a comparison.
LEMMA TargetKeeps ==
  ASSUME IndInv, RunCompare \/ CompareFails \/ \E t \in Targets : ChooseTarget(t)
  PROVE  IndInv'
<1>1. /\ UNCHANGED <<step, result, pane, panel, compare, selected, doomed, ticked, executing,
                     jobs, history, patches, swapped>>
      /\ target' \in Targets /\ comparing' \in {None} \cup Targets /\ compares' \in Nat
  BY DEF IndInv, TypeOK, RunCompare, CompareFails, ChooseTarget, reviewVars, requestVars, orgVars
<1>2. TypeOK'
  BY <1>1 DEF IndInv, TypeOK
<1>3. PaneInv'
  BY <1>1 DEF IndInv, PaneInv, PaneOk, HasDiff, RowsOf
<1>4. ChoiceInv'
  BY <1>1 DEF IndInv, ChoiceInv, RowsOf
<1>5. IdInv' /\ TruthInv'
  BY <1>1, Alone DEF IndInv
<1>6. QED
  BY <1>2, <1>3, <1>4, <1>5 DEF IndInv

\* A row is made active, or the difference of one is answered.
LEMMA PaneKeeps ==
  ASSUME IndInv, (\E r \in Rows : Activate(r)) \/ (\E found \in BOOLEAN : DiffAnswers(found))
  PROVE  IndInv'
<1>0. TypeOK /\ pane # None /\ pane \in Pane /\ None \notin Pane
  BY Present, NoneIs DEF IndInv, TypeOK, Activate, DiffAnswers
<1>1. UNCHANGED <<step, result, panel, compare, selected, doomed, ticked, target, comparing,
                  executing, jobs, history, patches, swapped, compares>>
  BY DEF Activate, DiffAnswers, reviewVars, requestVars, orgVars
<1>2. pane' \in Pane /\ PaneOk(pane', compare)
  <2>1. ASSUME NEW r \in Rows, Activate(r)
        PROVE  pane' \in Pane /\ PaneOk(pane', compare)
    <3>1. pane' = PaneEffect(compare, r, pane.loading) /\ pane.loading \in BOOLEAN
      BY <1>0, <2>1, PaneFields DEF Activate
    <3>2. QED
      BY <3>1, EffectIs
  <2>2. ASSUME NEW found \in BOOLEAN, DiffAnswers(found)
        PROVE  pane' \in Pane /\ PaneOk(pane', compare)
    <3>1. PICK d : /\ d = IF found THEN pane.asked ELSE None
                   /\ pane' = [pane EXCEPT !.diff = d, !.asked = None, !.loading = FALSE]
      BY <2>2 DEF DiffAnswers
    <3>2. d \in Rows \cup {None}
      BY <1>0, <3>1, PaneFields
    <3>3. pane' \in Pane
      BY <1>0, <3>1, <3>2 DEF Pane
    <3>4. pane'.active = pane.active /\ pane'.diff = d /\ pane'.asked = None
      BY <1>0, <3>1, <3>2 DEF Pane
    <3>5. PaneOk(pane, compare)
      BY <1>0 DEF IndInv, PaneInv
    <3>6. QED
      BY <3>1, <3>3, <3>4, <3>5 DEF PaneOk
  <2>3. QED
    BY <2>1, <2>2
<1>3. TypeOK'
  BY <1>0, <1>1, <1>2 DEF TypeOK
<1>4. PaneInv'
  BY <1>1, <1>2 DEF PaneInv
<1>5. ChoiceInv'
  BY <1>1 DEF IndInv, ChoiceInv, RowsOf
<1>6. IdInv' /\ TruthInv'
  BY <1>1, Alone DEF IndInv
<1>7. QED
  BY <1>3, <1>4, <1>5, <1>6 DEF IndInv

\* Rows are chosen; one is chosen for deletion exactly when it is ticked.
LEMMA ChoiceKeeps ==
  ASSUME IndInv,
         (\E r \in Rows : Toggle(r))
           \/ (\E visible \in SUBSET Rows, on \in BOOLEAN : SelectVisible(visible, on))
  PROVE  IndInv'
<1>0. TypeOK /\ ChoiceInv
  BY DEF IndInv
<1>1. UNCHANGED <<step, compare, result, pane, panel, target, comparing, executing, jobs,
                  history, patches, swapped, compares>>
  BY DEF Toggle, SelectVisible, requestVars, orgVars
<1>2. selected' \subseteq Rows /\ doomed' \subseteq Rows /\ ChoiceInv'
  <2>1. ASSUME NEW r \in Rows, Toggle(r)
        PROVE  selected' \subseteq Rows /\ doomed' \subseteq Rows /\ ChoiceInv'
    <3>1. CASE FromSource(r)
      BY <1>0, <1>1, <2>1, <3>1 DEF Toggle, Flip, TypeOK, ChoiceInv, RowsOf
    <3>2. CASE ~FromSource(r)
      <4>1. /\ r \in RowsOf(compare)
            /\ doomed' = Flip(doomed, r) /\ ticked' = Flip(ticked, r) /\ selected' = selected
        BY <2>1, <3>2 DEF Toggle
      <4>2. doomed' = ticked' /\ doomed' \subseteq doomed \cup {r}
        BY <1>0, <4>1 DEF ChoiceInv, Flip
      <4>3. \A q \in doomed' : q \in RowsOf(compare) /\ ~FromSource(q)
        BY <1>0, <3>2, <4>1, <4>2 DEF ChoiceInv
      <4>4. QED
        BY <1>0, <1>1, <4>1, <4>2, <4>3 DEF TypeOK, ChoiceInv
    <3>3. QED
      BY <3>1, <3>2
  <2>2. ASSUME NEW visible \in SUBSET Rows, NEW on \in BOOLEAN, SelectVisible(visible, on)
        PROVE  selected' \subseteq Rows /\ doomed' \subseteq Rows /\ ChoiceInv'
    BY <1>0, <1>1, <2>2 DEF SelectVisible, TypeOK, ChoiceInv
  <2>3. QED
    BY <2>1, <2>2
<1>3. TypeOK'
  BY <1>0, <1>1, <1>2 DEF TypeOK, ChoiceInv
<1>4. PaneInv'
  BY <1>1 DEF IndInv, PaneInv
<1>5. IdInv' /\ TruthInv'
  BY <1>1, Alone DEF IndInv
<1>6. QED
  BY <1>2, <1>3, <1>4, <1>5 DEF IndInv

\* A step that shows another step of the page.
LEMMA Shown ==
  ASSUME IndInv, NEW s \in Steps, compare' \in {None} \cup Comparison,
         result' \in {None} \cup Answer, result' = result \/ (result' = None /\ s # "result"),
         s \in {"review", "settings"} => compare' # None,
         s = "result" => result' # None,
         Show(s, compare', result'),
         selected' \subseteq Rows, doomed' \subseteq Rows, ticked' \subseteq Rows, ChoiceInv',
         comparing' \in {None} \cup Targets,
         UNCHANGED <<target, executing, jobs, history, patches, swapped, compares>>
  PROVE  IndInv'
<1>0. TypeOK /\ PaneInv /\ IdInv /\ TruthInv
  BY DEF IndInv
<1>1. s = "result" => result' \in Answer /\ (step = "result" => result' = result)
  OBVIOUS
<1>2. /\ step' = s
      /\ pane' \in {None} \cup Pane
      /\ s = "review" <=> pane' # None
      /\ pane' # None => PaneOk(pane', compare')
      /\ panel' \in {None} \cup Panel
      /\ s = "result" <=> panel' # None
      /\ panel' # None => \/ step = "result" /\ panel' = panel
                          \/ panel' = OpenPanel(result')
  BY <1>0, <1>1, ShowDoes
<1>3. panel' # None => panel'.of = result'.of /\ panel'.job \in 0 .. Len(jobs)
  <2>1. CASE step = "result" /\ panel' = panel /\ panel' # None
    BY <1>0, <1>2, <2>1 DEF TypeOK
  <2>2. CASE panel' = OpenPanel(result') /\ panel' # None
    <3>1. result' = result /\ result \in Answer
      BY <1>2, <2>2
    <3>2. result.job \in 0 .. Len(jobs)
      BY <1>0, <1>2, <2>2, <3>1 DEF TypeOK
    <3>3. QED
      BY <2>2, <3>1, <3>2, OpenPanelIs
  <2>3. QED
    BY <1>2, <2>1, <2>2
<1>4. TypeOK'
  BY <1>0, <1>2, <1>3 DEF TypeOK
<1>5. PaneInv'
  BY <1>2 DEF PaneInv
<1>6. JobsGrow
  BY <1>0, JobsStay
<1>7. IdInv' /\ TruthInv'
  BY <1>0, <1>2, <1>6, Kept
<1>8. QED
  BY <1>4, <1>5, <1>7 DEF IndInv

\* A step of the page that is left drops its pane and its panel.
LEMMA GoToKeeps ==
  ASSUME IndInv, NEW s \in Steps, GoTo(s)
  PROVE  IndInv'
<1>1. /\ Show(s, compare, result)
      /\ s \in Unlocked
      /\ UNCHANGED <<result, compare, selected, doomed, ticked, target, comparing, executing,
                     jobs, history, patches, swapped, compares>>
  BY DEF GoTo, reviewVars, requestVars, orgVars
<1>2. s \in {"review", "settings"} => compare # None
  BY <1>1 DEF Unlocked
<1>3. s = "result" => result # None
  BY <1>1 DEF Unlocked
<1>4. ChoiceInv'
  BY <1>1 DEF IndInv, ChoiceInv, RowsOf
<1>5. Show(s, compare', result')
  BY <1>1
<1>6. QED
  BY <1>1, <1>2, <1>3, <1>4, <1>5, Shown DEF IndInv, TypeOK

\* A new comparison replaces what was chosen in the one before.
LEMMA CompareAnswersKeeps ==
  ASSUME IndInv, NEW available \in BOOLEAN, CompareAnswers(available)
  PROVE  IndInv'
<1> DEFINE c == [id |-> compares, target |-> comparing, available |-> available]
<1>0. TypeOK
  BY DEF IndInv
<1>1. /\ compare' = c /\ selected' = {r \in RowsOf(c) : FromSource(r)}
      /\ doomed' = {} /\ ticked' = {} /\ comparing' = None
      /\ Show("review", c, result)
      /\ UNCHANGED <<result, target, executing, jobs, history, patches, swapped, compares>>
  BY DEF CompareAnswers, SetCompare, orgVars
<1>2. c \in Comparison
  BY <1>0 DEF CompareAnswers, TypeOK, Comparison
<1>3. c # None
  BY <1>2, NoneIs
<1>4. ChoiceInv'
  BY <1>1 DEF ChoiceInv
<1>5. "review" \in Steps /\ selected' \subseteq Rows
  BY <1>1, RowsAre DEF Steps
<1> HIDE DEF c
<1>6. Show("review", compare', result')
  BY <1>1
<1>7. QED
  BY <1>0, <1>1, <1>2, <1>3, <1>4, <1>5, <1>6, Shown DEF TypeOK

\* A restart of the wizard drops what was compared and chosen.
LEMMA RestartKeeps ==
  ASSUME IndInv, Restart
  PROVE  IndInv'
<1>1. /\ compare' = None /\ selected' = {} /\ doomed' = {} /\ ticked' = {} /\ result' = None
      /\ Show("metadata", None, None)
      /\ UNCHANGED <<target, comparing, executing, jobs, history, patches, swapped, compares>>
  BY DEF Restart, requestVars, orgVars
<1>2. ChoiceInv'
  BY <1>1 DEF ChoiceInv
<1>3. "metadata" \in Steps
  BY DEF Steps
<1>4. Show("metadata", compare', result')
  BY <1>1
<1>5. QED
  BY <1>1, <1>2, <1>3, <1>4, Shown DEF IndInv, TypeOK

\* A page that is left shows nothing and asks for nothing.
LEMMA LeaveKeeps ==
  ASSUME IndInv, Leave
  PROVE  IndInv'
<1>0. TypeOK /\ IdInv /\ TruthInv
  BY DEF IndInv
<1>1. /\ step' = "orgs" /\ compare' = None /\ selected' = {} /\ doomed' = {} /\ ticked' = {}
      /\ result' = None /\ pane' = None /\ panel' = None
      /\ comparing' = None /\ executing' = None
      /\ UNCHANGED <<target, jobs, history, patches, swapped, compares>>
  BY DEF Leave, orgVars
<1>2. TypeOK'
  BY <1>0, <1>1 DEF TypeOK, Steps
<1>3. PaneInv' /\ ChoiceInv'
  BY <1>1 DEF PaneInv, ChoiceInv
<1>4. IdInv' /\ TruthInv'
  BY <1>0, <1>1, JobsStay, Kept
<1>5. QED
  BY <1>2, <1>3, <1>4 DEF IndInv

\* A job that has not ended changes its state.
LEMMA OrgMoves ==
  ASSUME IndInv, NEW n \in 1 .. Len(jobs), jobs[n].state \notin Ends,
         NEW st \in {"running", "canceling"} \cup Ends, jobs' = [jobs EXCEPT ![n].state = st],
         UNCHANGED <<step, target, result, pane, panel, reviewVars, requestVars,
                     history, patches, swapped, compares>>
  PROVE  IndInv'
<1>0. TypeOK /\ IdInv /\ TruthInv
  BY DEF IndInv
<1>1. JobsGrow /\ Len(jobs') = Len(jobs) /\ jobs' \in Seq(Job)
  BY <1>0, JobMoved DEF JobsGrow
<1>2. TypeOK'
  BY <1>0, <1>1 DEF TypeOK, reviewVars, requestVars
<1>3. PaneInv' /\ ChoiceInv'
  BY DEF IndInv, PaneInv, ChoiceInv, reviewVars
<1>4. panel # None => result # None
  BY <1>0 DEF IdInv
<1>5. IdInv' /\ TruthInv'
  BY <1>0, <1>1, <1>4, Kept DEF requestVars
<1>6. QED
  BY <1>2, <1>3, <1>5 DEF IndInv

\* A job that is being cancelled has not ended.
LEMMA CancelKeeps ==
  ASSUME IndInv, Cancel
  PROVE  IndInv'
<1>0. TypeOK
  BY DEF IndInv
<1>1. /\ panel # None /\ panel.job # 0 /\ jobs[panel.job].state = "running"
      /\ jobs' = [jobs EXCEPT ![panel.job].state = "canceling"]
      /\ UNCHANGED <<step, target, result, pane, panel, reviewVars, requestVars,
                     history, patches, swapped, compares>>
  BY DEF Cancel
<1>2. panel.job \in 1 .. Len(jobs)
  BY <1>0, <1>1, Lengths DEF TypeOK
<1>3. jobs[panel.job].state \notin Ends
  BY <1>1 DEF Ends
<1>4. QED
  BY <1>1, <1>2, <1>3, OrgMoves

\* A job that ends has an outcome that does not change again.
LEMMA JobEndsKeeps ==
  ASSUME IndInv, NEW n \in DOMAIN jobs, NEW st \in {"succeeded", "failed"}, JobEnds(n, st)
  PROVE  IndInv'
<1>1. n \in 1 .. Len(jobs)
  BY Lengths DEF IndInv
<1>2. /\ jobs[n].state \in Pending
      /\ jobs' = [jobs EXCEPT ![n].state = st]
      /\ UNCHANGED <<step, target, result, pane, panel, reviewVars, requestVars,
                     history, patches, swapped, compares>>
  BY DEF JobEnds
<1>3. jobs[n].state \notin Ends /\ st \in Ends
  BY <1>2 DEF Pending, Ends
<1>4. QED
  BY <1>1, <1>2, <1>3, OrgMoves

\* A request carries the choice made in the comparison under review.
LEMMA ExecuteKeeps ==
  ASSUME IndInv, NEW mode \in {"validate", "deploy"}, Execute(mode)
  PROVE  IndInv'
<1> DEFINE j == [kind |-> mode, target |-> target, of |-> Len(history) + 1, state |-> "running"]
           k == [mode |-> mode, target |-> target, status |-> "running"]
           e == [job |-> Len(jobs) + 1, of |-> Len(history) + 1]
<1>0. TypeOK /\ IdInv /\ TruthInv
  BY DEF IndInv
<1>1. /\ jobs' = Append(jobs, j) /\ history' = Append(history, k) /\ executing' = e
      /\ UNCHANGED <<step, target, result, pane, panel, compare, selected, doomed, ticked,
                     comparing, patches, swapped, compares>>
  BY DEF Execute, reviewVars
<1>2. Len(jobs) \in Nat /\ Len(history) \in Nat /\ target \in Targets
      /\ DOMAIN jobs = 1 .. Len(jobs) /\ DOMAIN history = 1 .. Len(history)
  BY <1>0, Lengths DEF TypeOK
<1>3. j \in Job /\ j.of = Len(history) + 1
  BY <1>2 DEF Job
<1>4. k \in Record /\ k.status = "running"
  BY <1>2 DEF Record
<1>5. e \in Answer /\ e.job = Len(jobs) + 1 /\ e.of = Len(history) + 1
  BY <1>2 DEF Answer
<1> HIDE DEF j, k, e
<1>6. JobsGrow /\ Len(jobs') = Len(jobs) + 1 /\ jobs'[Len(jobs) + 1] = j
  BY <1>0, <1>1, <1>3, JobAdded
<1>7. /\ history' \in Seq(Record) /\ Len(history') = Len(history) + 1
      /\ \A n \in 1 .. Len(history) : history'[n] = history[n]
      /\ history'[Len(history) + 1] = k
  <2>1. history \in Seq(Record)
    BY <1>0 DEF TypeOK
  <2>2. QED
    BY <1>1, <1>4, <2>1, AppendProperties
<1>8. DOMAIN jobs' = 1 .. Len(jobs') /\ DOMAIN history' = 1 .. Len(history')
  BY <1>0, <1>6, <1>7, Lasting, LenProperties
<1>9. TypeOK'
  BY <1>0, <1>1, <1>2, <1>5, <1>6, <1>7, <1>8 DEF TypeOK, JobsGrow
<1>10. PaneInv' /\ ChoiceInv'
  BY <1>1 DEF IndInv, PaneInv, ChoiceInv
<1>11. IdInv'
  BY <1>0, <1>1, <1>2, <1>5, <1>6, <1>7, <1>8 DEF IdInv
<1>12. TruthInv'
  <2>1. MadeFor(executing.job, executing.of)'
    <3>1. jobs'[executing'.job].of = executing'.of
      BY <1>1, <1>3, <1>5, <1>6
    <3>2. QED
      BY <3>1 DEF MadeFor
  <2>2. \A m : \A n \in 0 .. Len(jobs) : MadeFor(n, m) => MadeFor(n, m)'
    BY <1>0, <1>6, StillMade
  <2>3. /\ result # None => MadeFor(result.job, result.of)'
        /\ panel # None /\ panel.of \notin swapped =>
             /\ MadeFor(panel.job, panel.of)'
             /\ panel.quick # None => MadeFor(panel.quick, panel.of)'
    <3>1. /\ result # None => result.job \in 0 .. Len(jobs)
          /\ panel # None => panel.job \in 0 .. Len(jobs)
          /\ panel # None /\ panel.quick # None => panel.quick \in 0 .. Len(jobs)
      BY <1>0, <1>2 DEF TypeOK, IdInv
    <3>2. result # None => MadeFor(result.job, result.of)'
      BY <1>0, <1>1, <2>2, <3>1 DEF TruthInv
    <3>3. panel # None /\ panel.of \notin swapped =>
            /\ MadeFor(panel.job, panel.of)'
            /\ panel.quick # None => MadeFor(panel.quick, panel.of)'
      BY <1>0, <1>1, <2>2, <3>1 DEF TruthInv
    <3>4. QED
      BY <3>2, <3>3
  <2>4. \A p \in patches : p.of \notin swapped => Outcome(p.of, p.status)'
    <3> SUFFICES ASSUME NEW p \in patches, p.of \notin swapped
                 PROVE  Outcome(p.of, p.status)'
      OBVIOUS
    <3>1. p.status \in Ends /\ Outcome(p.of, p.status)
      BY <1>0 DEF TypeOK, TruthInv, Report
    <3>2. QED
      BY <1>0, <1>6, <3>1, Lasting
  <2>5. HistoryTellsOutcome'
    <3> SUFFICES ASSUME NEW n \in 1 .. Len(history'), n \notin swapped,
                        history'[n].status # "running"
                 PROVE  \E m \in DOMAIN jobs' :
                          jobs'[m].of = n /\ jobs'[m].state = history'[n].status
      BY <1>1, <1>8 DEF HistoryTellsOutcome
    <3>1. n \in 1 .. Len(history) /\ history'[n] = history[n]
      BY <1>2, <1>4, <1>7
    <3>2. Outcome(n, history[n].status)
      BY <1>0, <1>2, <3>1 DEF TruthInv, HistoryTellsOutcome, Outcome
    <3>3. history[n].status \in Ends
      BY <1>0, <3>1, Lengths DEF Record
    <3>4. ASSUME NEW st, st = history[n].status
          PROVE  Outcome(n, st)'
      BY <1>0, <1>6, <3>2, <3>3, <3>4, Lasting
    <3>5. QED
      BY <3>1, <3>4 DEF Outcome
  <2>6. QED
    BY <1>1, <2>1, <2>3, <2>4, <2>5 DEF TruthInv
<1>13. QED
  BY <1>9, <1>10, <1>11, <1>12 DEF IndInv

\* The panel stands for the job and the record of the answer, or the swap is marked.
LEMMA ExecuteAnswersKeeps ==
  ASSUME IndInv, NEW named \in BOOLEAN, ExecuteAnswers(named)
  PROVE  IndInv'
<1>0. TypeOK /\ IdInv /\ TruthInv /\ executing \in Answer /\ executing # None
  BY Present DEF IndInv, ExecuteAnswers
<1>1. /\ result' = [executing EXCEPT !.job = IF named THEN @ ELSE 0]
      /\ step' = "result" /\ pane' = None /\ executing' = None
      /\ panel' = IF step = "result" THEN Repoll(panel, executing.of) ELSE OpenPanel(result')
      /\ swapped' = swapped \cup (IF step = "result" THEN {panel.of, executing.of} ELSE {})
      /\ UNCHANGED <<compare, selected, doomed, ticked, target, comparing, jobs, history,
                     patches, compares>>
  BY DEF ExecuteAnswers, reviewVars
<1>2. /\ Len(jobs) \in Nat /\ DOMAIN jobs = 1 .. Len(jobs)
      /\ executing.job \in 1 .. Len(jobs) /\ executing.of \in DOMAIN history
      /\ executing.of \in Nat
  BY <1>0, Lengths, AnswerFields DEF IdInv
<1>3. /\ result' \in Answer /\ result'.of = executing.of
      /\ result'.job \in {0, executing.job}
  <2>1. PICK n : n = (IF named THEN executing.job ELSE 0) /\ result' = [executing EXCEPT !.job = n]
    BY <1>1
  <2>2. n \in Nat
    BY <1>2, <2>1
  <2>3. QED
    BY <1>0, <2>1, <2>2 DEF Answer
<1>4. result' # None /\ result'.job \in 0 .. Len(jobs)
  BY <1>2, <1>3, NoneIs
<1>5. step = "result" <=> panel # None
  BY <1>0 DEF TypeOK
<1>6. /\ panel' \in Panel /\ panel' # None /\ panel'.of = result'.of
      /\ panel'.job \in 0 .. Len(jobs) /\ swapped' \subseteq Nat /\ swapped \subseteq swapped'
      /\ IdInv'
      /\ panel'.of \in swapped' \/ (panel'.job = result'.job /\ panel'.quick = None)
  <2>1. CASE step = "result"
    <3>1. panel \in Panel /\ panel' = [panel EXCEPT !.of = executing.of, !.polling = panel.job # 0]
      BY <1>0, <1>1, <1>5, <2>1, Present DEF Repoll
    <3>2. /\ panel'.job = panel.job /\ panel'.of = executing.of /\ panel'.quick = panel.quick
          /\ panel'.polling => panel'.job # 0
      BY <3>1 DEF Panel
    <3>3. panel' \in Panel
      <4>1. (panel.job # 0) \in BOOLEAN
        OBVIOUS
      <4>2. QED
        BY <1>2, <3>1, <4>1 DEF Panel
    <3>4. panel' # None /\ panel.of \in Nat
      BY <3>1, <3>3, NoneIs, PanelFields
    <3>5. panel.job \in 0 .. Len(jobs) /\ (panel.quick # None => panel.quick \in DOMAIN jobs)
      BY <1>0, <1>5, <2>1 DEF TypeOK, IdInv
    <3>6. swapped' = swapped \cup {panel.of, executing.of}
      BY <1>1, <2>1
    <3>7. /\ panel' \in Panel /\ panel' # None /\ panel'.of = result'.of
          /\ panel'.job \in 0 .. Len(jobs) /\ swapped' \subseteq Nat /\ swapped \subseteq swapped'
      BY <1>0, <1>2, <1>3, <3>2, <3>3, <3>4, <3>5, <3>6 DEF TypeOK
    <3>8. IdInv'
      BY <1>0, <1>1, <1>4, <3>2, <3>5 DEF IdInv
    <3>9. panel'.of \in swapped'
      BY <3>2, <3>6
    <3>10. QED
      BY <3>7, <3>8, <3>9
  <2>2. CASE step # "result"
    <3>1. panel' = OpenPanel(result') /\ swapped' = swapped
      BY <1>1, <2>2
    <3>2. /\ panel' \in Panel /\ panel'.job = result'.job /\ panel'.of = result'.of
          /\ panel'.quick = None /\ (panel'.polling => panel'.job # 0)
      BY <1>3, <3>1, OpenPanelIs
    <3>3. panel' # None
      BY <3>2, NoneIs
    <3>4. IdInv'
      BY <1>0, <1>1, <1>4, <3>2 DEF IdInv
    <3>5. QED
      BY <1>0, <1>4, <3>1, <3>2, <3>3, <3>4 DEF TypeOK
  <2>3. QED
    BY <2>1, <2>2
<1>7. TypeOK'
  BY <1>0, <1>1, <1>2, <1>3, <1>4, <1>6 DEF TypeOK, Steps
<1>8. PaneInv' /\ ChoiceInv'
  BY <1>1 DEF IndInv, PaneInv, ChoiceInv
<1>9. TruthInv'
  <2>1. JobsGrow
    BY <1>0, <1>1, JobsStay
  <2>2. HistoryTellsOutcome'
    BY <1>0, <1>1, <1>6, <2>1, HistoryKept DEF TruthInv
  <2>3. MadeFor(result.job, result.of)'
    <3>1. MadeFor(executing.job, executing.of) /\ MadeFor(0, executing.of)
      BY <1>0, UnknownJob DEF TruthInv
    <3>2. QED
      BY <1>1, <1>3, <3>1 DEF MadeFor
  <2>4. panel'.of \notin swapped' => MadeFor(panel.job, panel.of)' /\ panel'.quick = None
    BY <1>6, <2>3
  <2>5. \A p \in patches' : p.of \notin swapped' => Outcome(p.of, p.status)'
    BY <1>0, <1>1, <1>6 DEF TruthInv, Outcome
  <2>6. QED
    BY <1>1, <2>2, <2>3, <2>4, <2>5 DEF TruthInv
<1>10. QED
  BY <1>6, <1>7, <1>8, <1>9 DEF IndInv

\* The panel hears the state of the job it polls, and reports it once it has
\* ended.
LEMMA PollKeeps ==
  ASSUME IndInv, Poll
  PROVE  IndInv'
<1> DEFINE st == jobs[panel.job].state
           p == [of |-> panel.of, status |-> st]
<1>0. TypeOK /\ IdInv /\ TruthInv /\ panel # None /\ panel.polling /\ panel \in Panel
  BY Present DEF IndInv, Poll
<1>1. /\ st \notin Pending
      /\ panel' = [panel EXCEPT !.status = st, !.polling = FALSE]
      /\ patches' = patches \cup {p}
      /\ UNCHANGED <<step, result, pane, compare, selected, doomed, ticked, target, comparing,
                     executing, jobs, history, swapped, compares>>
  BY DEF Poll, reviewVars, requestVars
<1>2. panel.job \in 1 .. Len(jobs) /\ DOMAIN jobs = 1 .. Len(jobs)
  BY <1>0, Lengths DEF TypeOK, IdInv
<1>3. st \in Ends
  <2>1. jobs[panel.job] \in Job
    BY <1>0, <1>2, Lengths
  <2>2. QED
    BY <1>1, <2>1, JobFields DEF Pending
<1>4. panel.of \in Nat /\ panel.of = result.of /\ result # None /\ result.of \in DOMAIN history
  BY <1>0, PanelFields DEF TypeOK, IdInv
<1>5. p \in Report /\ p.of = panel.of /\ p.status = st
  BY <1>3, <1>4 DEF Report
<1>6. panel.of \notin swapped => Outcome(panel.of, st)
  <2>1. panel.of \notin swapped => jobs[panel.job].of = panel.of
    BY <1>0, <1>2 DEF TruthInv, MadeFor
  <2>2. QED
    BY <1>2, <2>1 DEF Outcome
<1> HIDE DEF st, p
<1>7. /\ panel' \in Panel /\ panel'.job = panel.job /\ panel'.of = panel.of
      /\ panel'.quick = panel.quick /\ panel'.polling = FALSE
  BY <1>0, <1>1, <1>3 DEF Panel
<1>8. panel' # None
  BY <1>7, NoneIs
<1>9. TypeOK'
  BY <1>0, <1>1, <1>5, <1>7, <1>8 DEF TypeOK
<1>10. PaneInv' /\ ChoiceInv'
  BY <1>1 DEF IndInv, PaneInv, ChoiceInv
<1>11. IdInv'
  BY <1>0, <1>1, <1>4, <1>5, <1>7 DEF IdInv
<1>12. TruthInv'
  <2>1. \A q \in patches' : q.of \notin swapped => Outcome(q.of, q.status)'
    BY <1>0, <1>1, <1>5, <1>6 DEF TruthInv, Outcome
  <2>2. HistoryTellsOutcome'
    BY <1>0, <1>1 DEF TruthInv, HistoryTellsOutcome
  <2>3. QED
    BY <1>0, <1>1, <1>7, <2>1, <2>2 DEF TruthInv, MadeFor
<1>13. QED
  BY <1>9, <1>10, <1>11, <1>12 DEF IndInv

\* A report that arrives gives its record the outcome of a job made for it.
LEMMA DeliverKeeps ==
  ASSUME IndInv, NEW p \in patches, DeliverPatch(p)
  PROVE  IndInv'
<1>0. TypeOK /\ IdInv /\ TruthInv
  BY DEF IndInv
<1>1. /\ patches' = patches \ {p}
      /\ history' = [history EXCEPT ![p.of].status = p.status]
      /\ UNCHANGED <<step, result, pane, panel, compare, selected, doomed, ticked, target,
                     comparing, executing, jobs, swapped, compares>>
  BY DEF DeliverPatch, reviewVars, requestVars
<1>2. /\ p.of \in 1 .. Len(history) /\ p.status \in Ends
      /\ DOMAIN history = 1 .. Len(history) /\ history[p.of] \in Record
  BY <1>0, Lengths DEF TypeOK, IdInv, Report
<1>3. PICK x : x = [history[p.of] EXCEPT !.status = p.status]
  OBVIOUS
<1>4. x \in Record /\ x.status = p.status
  BY <1>2, <1>3 DEF Record
<1>5. history' = [history EXCEPT ![p.of] = x]
  BY <1>1, <1>3
<1>6. /\ history' \in Seq(Record) /\ Len(history') = Len(history)
      /\ \A k \in 1 .. Len(history) : history'[k] = IF k = p.of THEN x ELSE history[k]
  <2>1. history \in Seq(Record)
    BY <1>0 DEF TypeOK
  <2>2. QED
    BY <1>2, <1>4, <1>5, <2>1, ExceptSeq
<1>7. DOMAIN history' = DOMAIN history
  BY <1>2, <1>6, LenProperties
<1>8. TypeOK'
  BY <1>0, <1>1, <1>6, <1>7 DEF TypeOK
<1>9. PaneInv' /\ ChoiceInv'
  BY <1>1 DEF IndInv, PaneInv, ChoiceInv
<1>10. IdInv'
  BY <1>0, <1>1, <1>7 DEF IdInv
<1>11. HistoryTellsOutcome'
  <2> SUFFICES ASSUME NEW k \in 1 .. Len(history), k \notin swapped,
                      history'[k].status # "running"
               PROVE  \E n \in DOMAIN jobs : jobs[n].of = k /\ jobs[n].state = history'[k].status
    BY <1>1, <1>2, <1>7 DEF HistoryTellsOutcome
  <2>1. CASE k = p.of
    BY <1>0, <1>4, <1>6, <2>1 DEF TruthInv, Outcome
  <2>2. CASE k # p.of
    BY <1>0, <1>2, <1>6, <2>2 DEF TruthInv, HistoryTellsOutcome
  <2>3. QED
    BY <2>1, <2>2
<1>12. TruthInv'
  BY <1>0, <1>1, <1>11 DEF TruthInv, MadeFor, Outcome
<1>13. QED
  BY <1>8, <1>9, <1>10, <1>12 DEF IndInv

\* A quick deployment is sent for the validation that the panel shows.
LEMMA QuickDeployKeeps ==
  ASSUME IndInv, QuickDeploy
  PROVE  IndInv'
<1>0. TypeOK /\ IdInv /\ TruthInv /\ panel # None /\ panel \in Panel /\ panel.job # 0
  BY Present DEF IndInv, QuickDeploy
<1>1. PICK j : j = [jobs[panel.job] EXCEPT !.kind = "quick", !.of = panel.of, !.state = "running"]
  OBVIOUS
<1>2. /\ panel' = [panel EXCEPT !.quick = Len(jobs) + 1]
      /\ jobs' = Append(jobs, j)
      /\ UNCHANGED <<step, result, pane, compare, selected, doomed, ticked, target, comparing,
                     executing, history, patches, swapped, compares>>
  BY <1>1 DEF QuickDeploy, reviewVars, requestVars
<1>3. /\ Len(jobs) \in Nat /\ DOMAIN jobs = 1 .. Len(jobs)
      /\ panel.job \in 1 .. Len(jobs) /\ panel.of \in Nat
  BY <1>0, Lengths, PanelFields DEF TypeOK
<1>4. j \in Job /\ j.of = panel.of
  <2>1. jobs[panel.job] \in Job
    BY <1>0, <1>3, Lengths
  <2>2. QED
    BY <1>1, <1>3, <2>1 DEF Job
<1>5. /\ JobsGrow /\ Len(jobs') = Len(jobs) + 1 /\ jobs'[Len(jobs) + 1] = j
      /\ jobs' \in Seq(Job)
  BY <1>0, <1>2, <1>4, JobAdded DEF JobsGrow
<1>6. DOMAIN jobs' = 1 .. Len(jobs) + 1
  BY <1>0, <1>5, Lasting
<1>7. /\ panel' \in Panel /\ panel'.job = panel.job /\ panel'.of = panel.of
      /\ panel'.quick = Len(jobs) + 1 /\ panel'.polling = panel.polling
  BY <1>0, <1>2, <1>3 DEF Panel
<1>8. panel' # None
  BY <1>7, NoneIs
<1>9. result # None /\ panel.job \in 0 .. Len(jobs) /\ result.job \in 0 .. Len(jobs)
  BY <1>0 DEF TypeOK, IdInv
<1>10. TypeOK'
  <2>1. panel'.job \in 0 .. Len(jobs') /\ result.job \in 0 .. Len(jobs')
    BY <1>3, <1>5, <1>7, <1>9
  <2>2. QED
    BY <1>0, <1>2, <1>5, <1>7, <1>8, <2>1 DEF TypeOK
<1>11. PaneInv' /\ ChoiceInv'
  BY <1>2 DEF IndInv, PaneInv, ChoiceInv
<1>12. IdInv'
  BY <1>0, <1>2, <1>3, <1>6, <1>7 DEF IdInv
<1>13. TruthInv'
  <2>1. \A k : \A n \in 0 .. Len(jobs) : MadeFor(n, k) => MadeFor(n, k)'
    BY <1>0, <1>5, StillMade
  <2>2. executing # None => MadeFor(executing.job, executing.of)'
    <3>1. executing # None => executing.job \in 0 .. Len(jobs)
      BY <1>0, <1>3 DEF IdInv
    <3>2. QED
      BY <1>0, <1>2, <2>1, <3>1 DEF TruthInv
  <2>3. MadeFor(result.job, result.of)'
    BY <1>0, <1>2, <1>9, <2>1 DEF TruthInv
  <2>4. panel.of \notin swapped => MadeFor(panel.job, panel.of)'
    BY <1>0, <1>7, <1>9, <2>1 DEF TruthInv
  <2>5. MadeFor(panel.quick, panel.of)'
    BY <1>4, <1>5, <1>7 DEF MadeFor
  <2>6. \A p \in patches : p.of \notin swapped => Outcome(p.of, p.status)'
    <3> SUFFICES ASSUME NEW p \in patches, p.of \notin swapped
                 PROVE  Outcome(p.of, p.status)'
      OBVIOUS
    <3>1. p.status \in Ends /\ Outcome(p.of, p.status)
      BY <1>0 DEF TypeOK, TruthInv, Report
    <3>2. QED
      BY <1>0, <1>5, <3>1, Lasting
  <2>7. HistoryTellsOutcome'
    BY <1>0, <1>2, <1>5, HistoryKept DEF TruthInv
  <2>8. QED
    BY <1>2, <1>7, <2>2, <2>3, <2>4, <2>5, <2>6, <2>7 DEF TruthInv
<1>14. QED
  BY <1>10, <1>11, <1>12, <1>13 DEF IndInv

\* The job of a quick deployment is made for the record of its validation.
LEMMA QuickAnswersKeeps ==
  ASSUME IndInv, NEW named \in BOOLEAN, QuickAnswers(named)
  PROVE  IndInv'
<1>0. /\ TypeOK /\ IdInv /\ TruthInv
      /\ panel # None /\ panel \in Panel /\ panel.quick # None
  BY Present DEF IndInv, QuickAnswers
<1>1. PICK n, b :
        /\ n = IF named THEN panel.quick ELSE panel.job
        /\ b = (named \/ panel.polling)
        /\ panel' = [panel EXCEPT !.status = "running", !.quick = None, !.job = n,
                                  !.polling = b, !.heard = named]
  BY DEF QuickAnswers
<1>2. UNCHANGED <<step, result, pane, compare, selected, doomed, ticked, target, comparing,
                  executing, jobs, history, patches, swapped, compares>>
  BY DEF QuickAnswers, reviewVars, requestVars, orgVars
<1>3. /\ DOMAIN jobs = 1 .. Len(jobs) /\ Len(jobs) \in Nat
      /\ panel.quick \in 1 .. Len(jobs) /\ panel.job \in 0 .. Len(jobs)
  BY <1>0, Lengths DEF TypeOK, IdInv
<1>4. n \in 0 .. Len(jobs) /\ n \in Nat
  BY <1>1, <1>3
<1>5. /\ panel'.job = n /\ panel'.of = panel.of /\ panel'.quick = None
      /\ panel'.polling = b /\ b \in BOOLEAN
  BY <1>0, <1>1 DEF Panel
<1>6. panel' \in Panel
  BY <1>0, <1>1, <1>4 DEF Panel
<1>7. panel' # None
  BY <1>6, NoneIs
<1>8. TypeOK'
  BY <1>0, <1>2, <1>4, <1>5, <1>6, <1>7 DEF TypeOK
<1>9. PaneInv' /\ ChoiceInv'
  BY <1>2 DEF IndInv, PaneInv, ChoiceInv
<1>10. IdInv'
  <2>1. panel.polling => panel.job # 0
    BY <1>0 DEF IdInv
  <2>2. b => n # 0
    BY <1>1, <1>3, <2>1
  <2>3. QED
    BY <1>0, <1>2, <1>5, <2>2 DEF IdInv
<1>11. TruthInv'
  <2>1. panel.of \notin swapped => MadeFor(n, panel.of)
    BY <1>0, <1>1 DEF TruthInv
  <2>2. HistoryTellsOutcome'
    BY <1>0, <1>2 DEF TruthInv, HistoryTellsOutcome
  <2>3. \A p \in patches' : p.of \notin swapped' => Outcome(p.of, p.status)'
    BY <1>0, <1>2 DEF TruthInv, Outcome
  <2>4. QED
    BY <1>0, <1>2, <1>5, <2>1, <2>2, <2>3 DEF TruthInv, MadeFor
<1>12. QED
  BY <1>8, <1>9, <1>10, <1>11 DEF IndInv

-----------------------------------------------------------------------------
(* The invariant of the specification.                                     *)

\* At first nothing is compared, chosen or sent.
LEMMA InitInv == Init => IndInv
<1> SUFFICES ASSUME Init PROVE IndInv
  OBVIOUS
<1>1. jobs \in Seq(Job) /\ history \in Seq(Record) /\ DOMAIN history = {} /\ DOMAIN jobs = {}
  BY EmptySeq DEF Init
<1>2. TypeOK
  BY <1>1 DEF Init, TypeOK, Steps
<1>3. PaneInv /\ ChoiceInv /\ IdInv
  BY DEF Init, PaneInv, ChoiceInv, IdInv
<1>4. TruthInv
  BY <1>1 DEF Init, TruthInv, HistoryTellsOutcome
<1>5. QED
  BY <1>2, <1>3, <1>4 DEF IndInv

\* A step that changes nothing keeps the invariant.
LEMMA Stuttering ==
  ASSUME IndInv, UNCHANGED vars
  PROVE  IndInv'
<1>1. UNCHANGED <<step, target, result, pane, panel, compare, selected, doomed, ticked,
                  comparing, executing, jobs, history, patches, swapped, compares>>
  BY DEF vars, reviewVars, requestVars, orgVars
<1>2. TypeOK'
  BY <1>1 DEF IndInv, TypeOK
<1>3. PaneInv' /\ ChoiceInv'
  BY <1>1 DEF IndInv, PaneInv, ChoiceInv
<1>4. IdInv' /\ TruthInv'
  BY <1>1, Alone DEF IndInv
<1>5. QED
  BY <1>2, <1>3, <1>4 DEF IndInv

\* Every step of the wizard keeps the invariant.
LEMMA NextInv == IndInv /\ [Next]_vars => IndInv'
<1> SUFFICES ASSUME IndInv, Next PROVE IndInv'
  BY Stuttering
<1>1. ASSUME NEW s \in Steps, GoTo(s) PROVE IndInv'
  BY <1>1, GoToKeeps
<1>2. ASSUME NEW b \in BOOLEAN, CompareAnswers(b) PROVE IndInv'
  BY <1>2, CompareAnswersKeeps
<1>3. ASSUME NEW b \in BOOLEAN, ExecuteAnswers(b) PROVE IndInv'
  BY <1>3, ExecuteAnswersKeeps
<1>4. ASSUME NEW b \in BOOLEAN, QuickAnswers(b) PROVE IndInv'
  BY <1>4, QuickAnswersKeeps
<1>5. ASSUME NEW mode \in {"validate", "deploy"}, Execute(mode) PROVE IndInv'
  BY <1>5, ExecuteKeeps
<1>6. ASSUME NEW p \in patches, DeliverPatch(p) PROVE IndInv'
  BY <1>6, DeliverKeeps
<1>7. ASSUME NEW n \in DOMAIN jobs, NEW st \in {"succeeded", "failed"}, JobEnds(n, st)
      PROVE  IndInv'
  BY <1>7, JobEndsKeeps
<1>8. QED
  BY <1>1, <1>2, <1>3, <1>4, <1>5, <1>6, <1>7, TargetKeeps, PaneKeeps, ChoiceKeeps, PollKeeps,
     CancelKeeps, QuickDeployKeeps, RestartKeeps, LeaveKeeps DEF Next

-----------------------------------------------------------------------------
(* Theorems.                                                               *)

\* The inductive invariant holds of every behaviour of the page.
THEOREM Invariance == Spec => []IndInv
BY InitInv, NextInv, PTL DEF Spec

\* What the pane shows or awaits is the difference of the active row in the
\* comparison under review.
THEOREM PaneShowsActiveRow == Spec => []PaneIsOfActiveRow
<1>1. IndInv => PaneIsOfActiveRow
  BY DEF IndInv, PaneInv, PaneOk, PaneIsOfActiveRow
<1>2. QED
  BY <1>1, Invariance, PTL

\* The history says of a deployment only how a job made for it has ended, but
\* for the records that came under a panel opened for another.
THEOREM HistoryIsTrue == Spec => []HistoryTellsOutcome
<1>1. IndInv => HistoryTellsOutcome
  BY DEF IndInv, TruthInv
<1>2. QED
  BY <1>1, Invariance, PTL

\* A package goes to the org it was compared with and deletes only what was
\* ticked in the comparison it is made from.
THEOREM OnlyReviewedIsShipped == Spec => ShipsAsReviewed
<1>1. IndInv /\ [Next]_vars =>
        [(\E mode \in {"validate", "deploy"} : Execute(mode)) =>
           /\ jobs'[Len(jobs')].target = compare.target
           /\ doomed \subseteq {r \in ticked \cap RowsOf(compare) : Status[r] = "missing-source"}]_vars
  <2> SUFFICES ASSUME IndInv, NEW mode \in {"validate", "deploy"}, Execute(mode)
               PROVE  /\ jobs'[Len(jobs')].target = compare.target
                      /\ doomed \subseteq
                           {r \in ticked \cap RowsOf(compare) : Status[r] = "missing-source"}
    OBVIOUS
  <2>1. PICK j : /\ j = [kind |-> mode, target |-> target, of |-> Len(history) + 1,
                         state |-> "running"]
                 /\ jobs' = Append(jobs, j)
                 /\ compare.target = target
    BY DEF Execute, Accepts
  <2>2. j \in Job /\ j.target = target
    <3>1. Len(history) + 1 \in Nat /\ target \in Targets
      BY Lengths DEF IndInv, TypeOK
    <3>2. QED
      BY <2>1, <3>1 DEF Job
  <2>3. jobs'[Len(jobs')] = j
    <3>1. jobs' = Append(jobs, j) /\ TypeOK
      BY <2>1 DEF IndInv
    <3>2. Len(jobs') = Len(jobs) + 1 /\ jobs'[Len(jobs) + 1] = j
      BY <2>2, <3>1, JobAdded
    <3>3. QED
      BY <3>2
  <2>4. doomed \subseteq {r \in ticked \cap RowsOf(compare) : Status[r] = "missing-source"}
    BY DEF IndInv, ChoiceInv, FromSource
  <2>5. QED
    BY <2>1, <2>2, <2>3, <2>4
<1>2. QED
  BY <1>1, Invariance, PTL DEF Spec, ShipsAsReviewed
=============================================================================
