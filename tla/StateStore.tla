----------------------------- MODULE StateStore -----------------------------
(***************************************************************************)
(* server/src/state/store.ts: the application state is one object in       *)
(* memory, written to state.json through a debounce timer, a dirty flag    *)
(* and a chain of promises, each of which writes a temporary file and      *)
(* renames it.  server.ts flushes on SIGINT and SIGTERM; the desktop shell *)
(* (desktop/src/main.ts) hosts the same server in its own process and      *)
(* quits it when the last window closes.                                   *)
(*                                                                         *)
(* A version stands for a whole state, as in DurableState.                 *)
(***************************************************************************)
EXTENDS Integers, SequencesExt

CONSTANT MaxUpdates   \* bound: mutations along one lineage of the state

ASSUME BoundsAssumption == MaxUpdates \in Nat

VARIABLES
  mem,      \* version of `state`
  dirty,    \* mutations not yet covered by a flush
  timer,    \* flushTimer is armed
  jobs,     \* flushes chained on `pending` and not finished, oldest first
  tmp,      \* content of state.json.tmp
  disk,     \* content of state.json
  mode,     \* the process is up, draining after a signal, or why it is gone
  signals,  \* how many of SIGINT and SIGTERM have been handled
  owed,     \* version in memory when the process was asked to end
  stranded  \* a write failed after the last mutation

vars == <<mem, dirty, timer, jobs, tmp, disk, mode, signals, owed, stranded>>

Torn == -1    \* a file that is truncated, half written or missing
Alive == {"up", "draining"}
Gone == {"exited", "exitedUnsaved", "quit", "crashed"}
Stages == {"waiting", "writing", "written", "renamed"}
Job == [stage : Stages, snap : Nat, final : BOOLEAN]

TypeOK ==
  /\ mem \in Nat
  /\ dirty \in BOOLEAN
  /\ timer \in BOOLEAN
  /\ jobs \in Seq(Job)
  /\ tmp \in Nat \cup {Torn}
  /\ disk \in Nat \cup {Torn}
  /\ mode \in Alive \cup Gone
  /\ signals \in 0 .. 2
  /\ owed \in Nat
  /\ stranded \in BOOLEAN

Init ==
  /\ mem = 0
  /\ dirty = FALSE
  /\ timer = FALSE
  /\ jobs = <<>>
  /\ tmp = Torn
  /\ disk = 0            \* no file: loadState() starts from emptyState()
  /\ mode = "up"
  /\ signals = 0
  /\ owed = 0
  /\ stranded = FALSE

-----------------------------------------------------------------------------
(* Mutations, the timer and the signals.                                   *)

\* Mutant: the timer is not armed when a flush is already chained.
UpdateWithoutTimer ==
  /\ mode \in Alive
  /\ mem < MaxUpdates
  /\ mem' = mem + 1
  /\ dirty' = TRUE
  /\ timer' = (timer \/ jobs = <<>>)
  /\ stranded' = FALSE
  /\ UNCHANGED <<jobs, tmp, disk, mode, signals, owed>>

\* updateState() and scheduleFlush(): the mutation is synchronous.
UpdateState ==
  /\ mode \in Alive
  /\ mem < MaxUpdates
  /\ mem' = mem + 1
  /\ dirty' = TRUE
  /\ timer' = TRUE
  /\ stranded' = FALSE
  /\ UNCHANGED <<jobs, tmp, disk, mode, signals, owed>>

Chain(final) == Append(jobs, [stage |-> "waiting", snap |-> 0, final |-> final])

\* The timer fires and calls flush(), which returns early when nothing is dirty.
TimerFires ==
  /\ mode \in Alive
  /\ timer
  /\ timer' = FALSE
  /\ dirty' = FALSE
  /\ jobs' = IF dirty THEN Chain(FALSE) ELSE jobs
  /\ UNCHANGED <<mem, tmp, disk, mode, signals, owed, stranded>>

\* Mutant: flushNow() trusts the dirty flag and a drained chain.
SignalTrustsDirty ==
  /\ mode \in Alive
  /\ signals < 2
  /\ signals' = signals + 1
  /\ timer' = FALSE
  /\ dirty' = FALSE
  /\ owed' = IF mode = "up" THEN mem ELSE owed
  /\ IF dirty
       THEN jobs' = Chain(TRUE) /\ mode' = "draining"
       ELSE jobs' = <<>> /\ mode' = "exited"
  /\ UNCHANGED <<mem, tmp, disk, stranded>>

\* process.once('SIGINT' | 'SIGTERM'): flushNow() cancels the timer, forces a
\* flush, and the process exits when that flush is over.  Requests are still
\* served meanwhile, and the other signal may arrive too.
Signal ==
  /\ mode \in Alive
  /\ signals < 2
  /\ signals' = signals + 1
  /\ timer' = FALSE
  /\ dirty' = FALSE
  /\ jobs' = Chain(TRUE)
  /\ mode' = "draining"
  /\ owed' = IF mode = "up" THEN mem ELSE owed
  /\ UNCHANGED <<mem, tmp, disk, stranded>>

-----------------------------------------------------------------------------
(* One flush of the chain.                                                 *)

\* Mutant: flushes are not chained.
AnyMayRun(i) == TRUE

\* pending = pending.then(...): a flush begins when all those before it are over.
MayRun(i) == i = 1

\* Flush i goes on to another stage, with the snapshot it then carries.
MoveTo(i, stage, snap) ==
  jobs' = [jobs EXCEPT ![i] = [stage |-> stage, snap |-> snap, final |-> @.final]]

\* The snapshot is taken when the flush begins, not when it was asked for;
\* writeFile() opens and truncates the temporary file.
Begin(i) ==
  /\ jobs[i].stage = "waiting"
  /\ MayRun(i)
  /\ MoveTo(i, "writing", mem)
  /\ tmp' = Torn
  /\ UNCHANGED <<mem, dirty, timer, disk, mode, signals, owed, stranded>>

Written(i) ==
  /\ jobs[i].stage = "writing"
  /\ MoveTo(i, "written", jobs[i].snap)
  /\ tmp' = jobs[i].snap
  /\ UNCHANGED <<mem, dirty, timer, disk, mode, signals, owed, stranded>>

\* rename() takes effect in the file system before its callback runs.
Rename(i) ==
  /\ jobs[i].stage = "written"
  /\ MoveTo(i, "renamed", jobs[i].snap)
  /\ disk' = tmp
  /\ tmp' = Torn
  /\ UNCHANGED <<mem, dirty, timer, mode, signals, owed, stranded>>

\* The promise of flush i settles; after a final one, process.exit().
Over(i, end) ==
  IF jobs[i].final
    THEN /\ mode' = end
         /\ jobs' = <<>>
         /\ dirty' = FALSE
         /\ timer' = FALSE
         /\ mem' = 0
         /\ UNCHANGED <<tmp, disk, signals, owed>>
    ELSE /\ jobs' = RemoveAt(jobs, i)
         /\ UNCHANGED <<mem, dirty, timer, tmp, disk, mode, signals, owed>>

Done(i) ==
  /\ jobs[i].stage = "renamed"
  /\ Over(i, "exited")
  /\ UNCHANGED stranded

\* mkdir(), writeFile() or rename() fails.  The error is swallowed; the flag
\* that the flush cleared stays clear.
Fail(i) ==
  /\ jobs[i].stage \in {"writing", "written"}
  /\ Over(i, "exitedUnsaved")
  /\ stranded' = TRUE

-----------------------------------------------------------------------------
(* The end of the process, and the next one.                               *)

Die(how) ==
  /\ mode \in Alive
  /\ mode' = how
  /\ jobs' = <<>>
  /\ dirty' = FALSE
  /\ timer' = FALSE
  /\ mem' = 0
  /\ UNCHANGED <<tmp, disk, signals, stranded>>

Crash == Die("crashed") /\ UNCHANGED owed

\* The last window of the desktop shell closes: app.quit().
DesktopQuit == Die("quit") /\ owed' = mem

\* initStorage() and loadState() of the next process.
Start ==
  /\ mode \in Gone
  /\ mode' = "up"
  /\ mem' = IF disk = Torn THEN 0 ELSE disk
  /\ signals' = 0
  /\ owed' = 0
  /\ stranded' = FALSE
  /\ UNCHANGED <<dirty, timer, jobs, tmp, disk>>

JobNext(i) == Begin(i) \/ Written(i) \/ Rename(i) \/ Done(i) \/ Fail(i)

Next ==
  \/ UpdateState \/ TimerFires \/ Signal
  \/ \E i \in DOMAIN jobs : JobNext(i)
  \/ Crash \/ DesktopQuit \/ Start

Spec == Init /\ [][Next]_vars

\* Timers fire, and the file system answers each call.
FairSpec ==
  /\ Spec
  /\ WF_vars(TimerFires)
  /\ WF_vars(jobs # <<>> /\ JobNext(1))

-----------------------------------------------------------------------------
(* Safety.                                                                 *)

\* state.json always holds a complete state, whatever is interrupted.
NeverTorn == disk # Torn

\* The file never goes back to an older state: a slow flush is never overtaken,
\* and no process starts from less than its predecessor left.
NeverBack == [][disk' >= disk]_vars

\* A mutation that is not on disk, in a process that lives, is always carried by
\* something that will write it: the timer, a flush that has yet to take its
\* snapshot, or one that took it.  The exception is a write that failed after the
\* last mutation: nothing tries again until the next one.
NothingForgotten ==
  mode \in Alive /\ mem # disk /\ ~stranded =>
    \/ timer
    \/ \E i \in DOMAIN jobs : jobs[i].stage = "waiting" \/ jobs[i].snap = mem

\* When the process exits after SIGINT or SIGTERM and its last write succeeded,
\* the file holds everything that had happened when the signal came.
SignalSaves == mode = "exited" => disk >= owed

\* Every mutation reaches the file, unless the process ends or a write fails.
EventuallyDurable ==
  \A v \in 1 .. MaxUpdates :
    (mode \in Alive /\ mem = v) ~> (disk >= v \/ mode \in Gone \/ stranded)

\* The promise of DurableState, with the state of a dead process read as the
\* one its successor will load.
Promise == INSTANCE DurableState WITH mem <- IF mode \in Alive THEN mem ELSE disk
PromiseSpec == Promise!Spec

=============================================================================
