-------------------------- MODULE Persistence_proofs --------------------------
(***************************************************************************)
(* Theorems about what the server keeps in files.                          *)
(*                                                                         *)
(* StateStore, for any number of mutations, flushes, signals and restarts: *)
(* they all follow from one inductive invariant, by which only the oldest  *)
(* flush of the chain has begun and its snapshot lies between the state on *)
(* disk and the state in memory.                                           *)
(*                                                                         *)
(* ReadCache, for one key and any readers, loads, windows and number of    *)
(* versions of the org data.                                               *)
(***************************************************************************)
EXTENDS StateStore, ReadCache, FiniteSetTheorems, TLAPS

\* The flushes behind the oldest have not begun, and what the oldest one writes
\* is at least as new as the file and at most as new as memory.
ChainInv ==
  \A i \in DOMAIN jobs :
    /\ i > 1 => jobs[i].stage = "waiting"
    /\ jobs[i].stage \in {"writing", "written"} => disk <= jobs[i].snap /\ jobs[i].snap <= mem
    /\ jobs[i].stage = "written" => tmp = jobs[i].snap
    /\ jobs[i].stage = "renamed" => disk = jobs[i].snap

\* The file holds a whole state, an earlier one of the process that lives; the
\* processes that are gone have no flush left.
FileInv ==
  /\ disk # Torn
  /\ mode \in Alive => disk <= mem
  /\ mode \in Gone => jobs = <<>>
  /\ dirty => timer
  /\ timer => dirty

\* What is owed to the signal: the last flush of a draining process takes or
\* took a snapshot that covers it.
OwedInv ==
  /\ mode = "draining" => owed <= mem
  /\ \A i \in DOMAIN jobs : jobs[i].final =>
       /\ mode = "draining"
       /\ jobs[i].stage \in {"writing", "written", "renamed"} => owed <= jobs[i].snap

IndInv == TypeOK /\ FileInv /\ ChainInv /\ OwedInv /\ SignalSaves /\ NothingForgotten

-----------------------------------------------------------------------------
(* The chain of flushes as a sequence.                                     *)

\* A flush is chained behind the others and disturbs none of them.
LEMMA ChainAppends ==
  ASSUME NEW final \in BOOLEAN, jobs \in Seq(Job)
  PROVE  /\ Chain(final) \in Seq(Job)
         /\ Len(Chain(final)) = Len(jobs) + 1
         /\ \A j \in DOMAIN jobs : j \in DOMAIN Chain(final) /\ Chain(final)[j] = jobs[j]
         /\ Len(jobs) + 1 \in DOMAIN Chain(final)
         /\ Chain(final)[Len(jobs) + 1] = [stage |-> "waiting", snap |-> 0, final |-> final]
         /\ \A j \in DOMAIN Chain(final) : j \in DOMAIN jobs \/ j = Len(jobs) + 1
<1> DEFINE new == [stage |-> "waiting", snap |-> 0, final |-> final]
<1>1. new \in Job
  BY DEF Job, Stages
<1>2. QED
  BY <1>1 DEF Chain

\* The oldest flush leaves the chain and the others move up by one.
LEMMA OldestLeaves ==
  ASSUME jobs \in Seq(Job), 1 \in DOMAIN jobs
  PROVE  /\ RemoveAt(jobs, 1) \in Seq(Job)
         /\ Len(RemoveAt(jobs, 1)) = Len(jobs) - 1
         /\ \A j \in DOMAIN RemoveAt(jobs, 1) :
              /\ j + 1 \in DOMAIN jobs
              /\ j + 1 > 1
              /\ RemoveAt(jobs, 1)[j] = jobs[j + 1]
         /\ \A j \in DOMAIN jobs : j # 1 =>
              /\ j - 1 \in DOMAIN RemoveAt(jobs, 1)
              /\ RemoveAt(jobs, 1)[j - 1] = jobs[j]
<1>1. RemoveAt(jobs, 1) = SubSeq(jobs, 1, 0) \o SubSeq(jobs, 2, Len(jobs))
  BY DEF RemoveAt
<1>2. SubSeq(jobs, 1, 0) = <<>>
  OBVIOUS
<1>3. SubSeq(jobs, 2, Len(jobs)) = Tail(jobs)
  OBVIOUS
<1>4. <<>> \o Tail(jobs) = Tail(jobs)
  OBVIOUS
<1>5. RemoveAt(jobs, 1) = Tail(jobs)
  BY <1>1, <1>2, <1>3, <1>4
<1>6. QED
  BY <1>5

\* What TypeOK says of one flush.
LEMMA FlushType ==
  ASSUME TypeOK, NEW i \in DOMAIN jobs
  PROVE  i \in Nat \ {0} /\ jobs[i] \in Job /\ jobs[i].snap \in Nat
<1>1. jobs \in Seq(Job) /\ jobs[i] \in Job
  BY DEF TypeOK
<1>2. QED
  BY <1>1 DEF Job

\* A flush moves to another stage and disturbs no other.
LEMMA FlushMoves ==
  ASSUME TypeOK, NEW i \in DOMAIN jobs, NEW stage \in Stages, NEW snap \in Nat,
         MoveTo(i, stage, snap)
  PROVE  /\ (jobs \in Seq(Job))'
         /\ DOMAIN jobs' = DOMAIN jobs
         /\ jobs'[i].stage = stage /\ jobs'[i].snap = snap /\ jobs'[i].final = jobs[i].final
         /\ \A j \in DOMAIN jobs : j # i => jobs'[j] = jobs[j]
<1> DEFINE new == [stage |-> stage, snap |-> snap, final |-> jobs[i].final]
<1>1. jobs \in Seq(Job) /\ jobs[i] \in Job
  BY DEF TypeOK
<1>2. new \in Job
  BY <1>1 DEF Job
<1>3. jobs' = [jobs EXCEPT ![i] = new]
  BY DEF MoveTo
<1>4. QED
  BY <1>1, <1>2, <1>3

-----------------------------------------------------------------------------
(* The invariant, action by action.                                        *)

\* The first process starts with an empty chain and a file nobody has written.
LEMMA InitInv == Init => IndInv
<1> SUFFICES ASSUME Init PROVE IndInv
  OBVIOUS
<1>1. TypeOK
  <2>1. jobs \in Seq(Job)
    BY DEF Init
  <2>2. mem \in Nat /\ disk \in Nat /\ owed \in Nat /\ signals \in 0 .. 2
    BY DEF Init
  <2>3. QED
    BY <2>1, <2>2 DEF Init, TypeOK, Alive
<1>2. FileInv /\ ChainInv /\ OwedInv /\ SignalSaves /\ NothingForgotten
  BY DEF Init, FileInv, ChainInv, OwedInv, SignalSaves, NothingForgotten, Torn, Alive, Gone
<1>3. QED
  BY <1>1, <1>2 DEF IndInv

\* updateState() moves memory ahead and arms the timer.
LEMMA UpdateInv == IndInv /\ UpdateState => IndInv'
<1> SUFFICES ASSUME IndInv, UpdateState PROVE IndInv'
  OBVIOUS
<1> USE DEF IndInv
<1>1. TypeOK'
  <2>1. mem' \in Nat
    BY DEF UpdateState, TypeOK
  <2>2. QED
    BY <2>1 DEF UpdateState, TypeOK
<1>2. FileInv'
  BY DEF UpdateState, FileInv, TypeOK, Torn
<1>3. ChainInv'
  <2>1. \A i \in DOMAIN jobs : jobs[i].snap \in Nat
    BY FlushType
  <2>2. QED
    BY <2>1 DEF UpdateState, ChainInv, TypeOK
<1>4. OwedInv'
  BY DEF UpdateState, OwedInv, TypeOK
<1>5. SignalSaves' /\ NothingForgotten'
  BY DEF UpdateState, SignalSaves, NothingForgotten
<1>6. QED
  BY <1>1, <1>2, <1>3, <1>4, <1>5

\* A flush that is only waiting can be chained at any time.
LEMMA ChainedInv ==
  ASSUME IndInv, NEW final \in BOOLEAN,
         final => mode' = "draining" /\ owed' <= mem,
         mode' \in {mode, "draining"}, mode \in Alive,
         mode' = "draining" => owed' <= mem,
         mode = "draining" => owed' = owed,
         signals' \in 0 .. 2, owed' \in Nat,
         ~timer', ~dirty', timer' \in BOOLEAN, dirty' \in BOOLEAN, jobs' = Chain(final),
         UNCHANGED <<mem, tmp, disk, stranded>>
  PROVE  IndInv'
<1> USE DEF IndInv
<1> DEFINE last == Len(jobs) + 1
<1>1. /\ Chain(final) \in Seq(Job)
      /\ \A j \in DOMAIN jobs : j \in DOMAIN jobs' /\ jobs'[j] = jobs[j]
      /\ last \in DOMAIN jobs'
      /\ jobs'[last] = [stage |-> "waiting", snap |-> 0, final |-> final]
      /\ \A j \in DOMAIN jobs' : j \in DOMAIN jobs \/ j = last
  BY ChainAppends DEF TypeOK
<1>2. TypeOK'
  BY <1>1 DEF TypeOK, Alive, Gone
<1>3. FileInv'
  BY DEF FileInv, TypeOK, Alive, Gone
<1>4. ChainInv'
  BY <1>1 DEF ChainInv
<1>5. OwedInv'
  BY <1>1 DEF OwedInv
<1>6. SignalSaves'
  BY DEF SignalSaves, Alive
<1>7. NothingForgotten'
  BY <1>1 DEF NothingForgotten
<1>8. QED
  BY <1>2, <1>3, <1>4, <1>5, <1>6, <1>7

\* The debounce timer fires and chains a flush.
LEMMA TimerInv == IndInv /\ TimerFires => IndInv'
<1> SUFFICES ASSUME IndInv, TimerFires PROVE IndInv'
  OBVIOUS
<1>1. dirty
  BY DEF TimerFires, IndInv, FileInv
<1>2. QED
  BY <1>1, ChainedInv DEF TimerFires, IndInv, TypeOK, OwedInv

\* SIGINT or SIGTERM cancels the timer and chains the last flush.
LEMMA SignalInv == IndInv /\ Signal => IndInv'
<1> SUFFICES ASSUME IndInv, Signal PROVE IndInv'
  OBVIOUS
<1>1. mode' = "draining" /\ owed' \in Nat /\ owed' <= mem /\ (mode = "draining" => owed' = owed)
  BY DEF Signal, IndInv, TypeOK, OwedInv, Alive
<1>2. signals' \in 0 .. 2
  BY DEF Signal, IndInv, TypeOK
<1>3. mode \in Alive /\ ~timer' /\ ~dirty' /\ timer' \in BOOLEAN /\ dirty' \in BOOLEAN
  BY DEF Signal
<1>4. jobs' = Chain(TRUE) /\ UNCHANGED <<mem, tmp, disk, stranded>>
  BY DEF Signal
<1>5. QED
  BY <1>1, <1>2, <1>3, <1>4, ChainedInv

\* The head of the chain moves on to its next stage.
LEMMA JobInv ==
  ASSUME IndInv, NEW i \in DOMAIN jobs, Begin(i) \/ Written(i) \/ Rename(i)
  PROVE  IndInv'
<1> USE DEF IndInv
<1>1. jobs[i].snap \in Nat /\ mem \in Nat
  BY FlushType DEF TypeOK
<1>2. i = 1
  BY FlushType DEF Begin, Written, Rename, MayRun, ChainInv
<1>3. mode \in Alive
  BY DEF FileInv, TypeOK
<1>4. CASE Begin(i)
  <2>1. /\ (jobs \in Seq(Job))'
        /\ DOMAIN jobs' = DOMAIN jobs
        /\ jobs'[i].stage = "writing" /\ jobs'[i].snap = mem /\ jobs'[i].final = jobs[i].final
        /\ \A j \in DOMAIN jobs : j # i => jobs'[j] = jobs[j]
    BY <1>1, <1>4, FlushMoves DEF Begin, Stages
  <2>2. TypeOK'
    BY <1>4, <2>1 DEF Begin, TypeOK
  <2>3. FileInv' /\ ChainInv' /\ OwedInv' /\ SignalSaves' /\ NothingForgotten'
    BY <1>2, <1>3, <1>4, <2>1
    DEF Begin, FileInv, ChainInv, OwedInv, SignalSaves, NothingForgotten, TypeOK, Alive, Gone
  <2>4. QED
    BY <2>2, <2>3
<1>5. CASE Written(i)
  <2>1. /\ (jobs \in Seq(Job))'
        /\ DOMAIN jobs' = DOMAIN jobs
        /\ jobs'[i].stage = "written" /\ jobs'[i].snap = jobs[i].snap
        /\ jobs'[i].final = jobs[i].final
        /\ \A j \in DOMAIN jobs : j # i => jobs'[j] = jobs[j]
    BY <1>1, <1>5, FlushMoves DEF Written, Stages
  <2>2. TypeOK'
    BY <1>1, <1>5, <2>1 DEF Written, TypeOK
  <2>3. FileInv' /\ ChainInv' /\ OwedInv' /\ SignalSaves' /\ NothingForgotten'
    BY <1>2, <1>5, <2>1
    DEF Written, FileInv, ChainInv, OwedInv, SignalSaves, NothingForgotten, TypeOK, Alive, Gone
  <2>4. QED
    BY <2>2, <2>3
<1>6. CASE Rename(i)
  <2>1. /\ (jobs \in Seq(Job))'
        /\ DOMAIN jobs' = DOMAIN jobs
        /\ jobs'[i].stage = "renamed" /\ jobs'[i].snap = jobs[i].snap
        /\ jobs'[i].final = jobs[i].final
        /\ \A j \in DOMAIN jobs : j # i => jobs'[j] = jobs[j]
    BY <1>1, <1>6, FlushMoves DEF Rename, Stages
  <2>2. disk' = jobs[i].snap /\ disk <= disk' /\ disk' <= mem
    BY <1>6 DEF Rename, ChainInv
  <2>3. TypeOK'
    BY <1>1, <1>6, <2>1, <2>2 DEF Rename, TypeOK
  <2>4. FileInv' /\ ChainInv' /\ OwedInv' /\ SignalSaves' /\ NothingForgotten'
    BY <1>1, <1>2, <1>3, <1>6, <2>1, <2>2
    DEF Rename, FileInv, ChainInv, OwedInv, SignalSaves, NothingForgotten, TypeOK, Torn, Alive, Gone
  <2>5. QED
    BY <2>3, <2>4
<1>7. QED
  BY <1>4, <1>5, <1>6

\* A flush is over: the chain moves up, or the process exits.
LEMMA OverInv ==
  ASSUME IndInv, NEW i \in DOMAIN jobs, Done(i) \/ Fail(i)
  PROVE  IndInv'
<1> USE DEF IndInv
<1>1. i = 1 /\ mode \in Alive /\ jobs[i] \in Job
  BY DEF Done, Fail, ChainInv, FileInv, TypeOK
<1>2. stranded' \in BOOLEAN /\ (Done(i) => stranded' = stranded) /\ (Fail(i) => stranded')
  BY DEF Done, Fail, TypeOK
<1>3. CASE jobs[i].final
  <2>1. /\ jobs' = <<>> /\ ~dirty' /\ ~timer' /\ mem' = 0
        /\ dirty' \in BOOLEAN /\ timer' \in BOOLEAN
        /\ UNCHANGED <<tmp, disk, signals, owed>>
        /\ mode' \in {"exited", "exitedUnsaved"}
        /\ mode' = "exited" => jobs[i].stage = "renamed"
    BY <1>3 DEF Done, Fail, Over
  <2>2. mode' = "exited" => disk >= owed
    BY <1>1, <1>3, <2>1 DEF ChainInv, OwedInv, TypeOK, Job
  <2>3. QED
    BY <1>2, <2>1, <2>2
    DEF TypeOK, FileInv, ChainInv, OwedInv, SignalSaves, NothingForgotten, Alive, Gone
<1>4. CASE ~jobs[i].final
  <2>1. /\ jobs' = RemoveAt(jobs, 1)
        /\ UNCHANGED <<mem, dirty, timer, tmp, disk, mode, signals, owed>>
    BY <1>1, <1>4 DEF Done, Fail, Over
  <2>2. /\ jobs' \in Seq(Job)
        /\ Len(jobs') = Len(jobs) - 1
        /\ \A j \in DOMAIN jobs' : /\ j + 1 \in DOMAIN jobs
                                   /\ j + 1 > 1
                                   /\ jobs'[j] = jobs[j + 1]
        /\ \A j \in DOMAIN jobs : j # 1 => /\ j - 1 \in DOMAIN jobs'
                                           /\ jobs'[j - 1] = jobs[j]
    BY <1>1, <2>1, OldestLeaves DEF TypeOK
  <2>3. TypeOK'
    BY <1>2, <2>1, <2>2 DEF TypeOK
  <2>4. FileInv' /\ SignalSaves'
    BY <1>1, <2>1, <2>2 DEF FileInv, SignalSaves, Alive, Gone
  <2>5. ChainInv'
    BY <2>1, <2>2 DEF ChainInv
  <2>6. OwedInv'
    BY <2>1, <2>2 DEF OwedInv
  <2>7. NothingForgotten'
    <3>1. SUFFICES ASSUME mem # disk, ~stranded', ~timer
                   PROVE  \E j \in DOMAIN jobs' :
                            jobs'[j].stage = "waiting" \/ jobs'[j].snap = mem
      BY <2>1 DEF NothingForgotten
    <3>2. Done(i) /\ ~stranded
      BY <1>2, <3>1
    <3>3. PICK j \in DOMAIN jobs : jobs[j].stage = "waiting" \/ jobs[j].snap = mem
      BY <1>1, <3>1, <3>2 DEF NothingForgotten
    <3>4. j # 1
      BY <1>1, <3>1, <3>2, <3>3 DEF Done, ChainInv
    <3>5. QED
      BY <2>2, <3>3, <3>4
  <2>8. QED
    BY <2>3, <2>4, <2>5, <2>6, <2>7
<1>5. QED
  BY <1>3, <1>4

\* The process dies, or the next one starts.
LEMMA ProcessInv == IndInv /\ (Crash \/ DesktopQuit \/ Start) => IndInv'
<1> SUFFICES ASSUME IndInv, Crash \/ DesktopQuit \/ Start PROVE IndInv'
  OBVIOUS
<1> USE DEF IndInv
<1>1. jobs' = <<>>
  BY DEF Crash, DesktopQuit, Die, Start, FileInv, TypeOK
<1>2. disk \in Nat /\ disk' = disk
  BY DEF Crash, DesktopQuit, Die, Start, TypeOK, FileInv
<1>3. CASE Crash \/ DesktopQuit
  <2>1. mode' \in {"crashed", "quit"} /\ mem' = 0 /\ owed' \in Nat /\ UNCHANGED <<tmp, signals, stranded>>
    BY <1>3 DEF Crash, DesktopQuit, Die, TypeOK
  <2>2. dirty' \in BOOLEAN /\ timer' \in BOOLEAN /\ ~dirty' /\ ~timer'
    BY <1>3 DEF Crash, DesktopQuit, Die
  <2>3. TypeOK'
    BY <1>1, <1>2, <2>1, <2>2 DEF TypeOK, Gone
  <2>4. QED
    BY <1>1, <1>2, <2>1, <2>2, <2>3
    DEF FileInv, ChainInv, OwedInv, SignalSaves, NothingForgotten, Torn, Alive, Gone
<1>4. CASE Start
  <2>1. mode' = "up" /\ mem' = disk /\ signals' = 0 /\ owed' = 0 /\ UNCHANGED <<dirty, timer, tmp>>
    BY <1>4 DEF Start, FileInv
  <2>2. stranded' \in BOOLEAN
    BY <1>4 DEF Start
  <2>3. TypeOK'
    BY <1>1, <1>2, <2>1, <2>2 DEF TypeOK, Alive
  <2>4. QED
    BY <1>1, <1>2, <2>1, <2>3
    DEF FileInv, ChainInv, OwedInv, SignalSaves, NothingForgotten, Torn, Alive, Gone
<1>5. QED
  BY <1>3, <1>4

\* A step of something else than the store.
LEMMA StutterInv == IndInv /\ UNCHANGED vars => IndInv'
BY DEF vars, IndInv, TypeOK, FileInv, ChainInv, OwedInv, SignalSaves, NothingForgotten

\* Every step of the store keeps the invariant.
LEMMA NextInv == IndInv /\ [Next]_vars => IndInv'
BY UpdateInv, TimerInv, SignalInv, JobInv, OverInv, ProcessInv, StutterInv DEF Next, JobNext

\* In every state that the store reaches, only the oldest flush has begun, and what
\* it writes lies between the file and memory.
THEOREM Invariance == Spec => []IndInv
BY InitInv, NextInv, PTL DEF Spec

-----------------------------------------------------------------------------
(* What follows from it.                                                   *)

\* Every variable of the store keeps its type.
THEOREM TypeCorrect == Spec => []TypeOK
BY Invariance, PTL DEF IndInv

\* state.json never holds a truncated, half-written or missing state, whatever
\* write, crash or restart comes when.
THEOREM FileIsWhole == Spec => []NeverTorn
<1>1. IndInv => NeverTorn
  BY DEF IndInv, FileInv, NeverTorn
<1>2. QED
  BY <1>1, Invariance, PTL

\* A mutation that is not in the file is carried by the timer or by a flush.
THEOREM CarriedUntilWritten == Spec => []NothingForgotten
BY Invariance, PTL DEF IndInv

\* An exit after a signal whose last write succeeded leaves everything that had
\* happened when the signal came in the file.
THEOREM ExitSaves == Spec => []SignalSaves
BY Invariance, PTL DEF IndInv

\* One step of the store, on the file: it only moves forward, to a version that
\* memory has reached.
LEMMA FileSteps ==
  ASSUME IndInv, [Next]_vars
  PROVE  disk' = disk \/ (disk <= disk' /\ disk' <= mem /\ UNCHANGED <<mem, mode>>)
<1>1. CASE \E i \in DOMAIN jobs : Rename(i)
  <2>1. PICK i \in DOMAIN jobs : Rename(i)
    BY <1>1
  <2>2. disk' = jobs[i].snap /\ disk <= disk' /\ disk' <= mem /\ UNCHANGED <<mem, mode>>
    BY <2>1 DEF Rename, IndInv, ChainInv
  <2>3. QED
    BY <2>2
<1>2. CASE ~\E i \in DOMAIN jobs : Rename(i)
  BY <1>2 DEF Next, UpdateState, TimerFires, Signal, JobNext, Begin, Written, Done, Fail, Over,
              Crash, DesktopQuit, Die, Start, vars
<1>3. QED
  BY <1>1, <1>2

\* The file never goes back to an older state.
THEOREM FileMovesForward == Spec => NeverBack
<1>1. IndInv /\ [Next]_vars => [disk' >= disk]_vars
  <2>1. ASSUME IndInv, [Next]_vars PROVE disk' >= disk
    <3>1. disk \in Nat /\ disk' \in Nat
      BY <2>1, NextInv DEF IndInv, FileInv, TypeOK
    <3>2. QED
      BY <2>1, <3>1, FileSteps
  <2>2. QED
    BY <2>1
<1>2. QED
  BY <1>1, Invariance, PTL DEF Spec, NeverBack

-----------------------------------------------------------------------------
(* StateStore implements DurableState.                                     *)

\* The first process starts where DurableState does.
LEMMA InitRefines == Init => Promise!Init
BY DEF Init, Promise!Init, Alive

\* Every step of the store is a mutation, a catching up of the file or a loss of
\* memory in DurableState, or none of its business.
LEMMA NextRefines == IndInv /\ [Next]_vars => [Promise!Next]_(Promise!vars)
<1> SUFFICES ASSUME IndInv, [Next]_vars PROVE [Promise!Next]_(Promise!vars)
  OBVIOUS
<1> USE DEF Promise!Next, Promise!vars, Promise!Update, Promise!Persist, Promise!Lose
<1>1. CASE UpdateState
  BY <1>1 DEF UpdateState, Alive
<1>2. CASE TimerFires \/ Signal
  BY <1>2 DEF TimerFires, Signal, Alive
<1>3. ASSUME NEW i \in DOMAIN jobs, JobNext(i) PROVE [Promise!Next]_(Promise!vars)
  <2>1. mode \in Alive /\ disk \in Nat /\ mem \in Nat
    BY <1>3 DEF IndInv, FileInv, TypeOK
  <2>2. CASE Begin(i) \/ Written(i)
    BY <2>2 DEF Begin, Written
  <2>3. CASE Rename(i)
    <3>1. disk' = jobs[i].snap /\ disk <= disk' /\ disk' <= mem /\ UNCHANGED <<mem, mode>>
      BY <2>3 DEF Rename, IndInv, ChainInv
    <3>2. disk' \in disk .. mem
      BY <2>1, <3>1, FlushType DEF IndInv
    <3>3. QED
      BY <2>1, <3>1, <3>2
  <2>4. CASE Done(i) \/ Fail(i)
    <3>1. disk' = disk
      BY <2>4 DEF Done, Fail, Over
    <3>2. (mode' \in Gone) \/ (mode' = mode /\ mem' = mem)
      BY <2>4 DEF Done, Fail, Over, Gone
    <3>3. QED
      BY <2>1, <3>1, <3>2 DEF Alive, Gone
  <2>5. QED
    BY <1>3, <2>2, <2>3, <2>4 DEF JobNext
<1>4. CASE Crash \/ DesktopQuit
  BY <1>4 DEF Crash, DesktopQuit, Die, Alive
<1>5. CASE Start
  BY <1>5 DEF Start, IndInv, FileInv, Alive, Gone
<1>6. CASE UNCHANGED vars
  BY <1>6 DEF vars
<1>7. QED
  BY <1>1, <1>2, <1>3, <1>4, <1>5, <1>6 DEF Next

\* Debounce, chain, temporary file and restart together keep the promise: one
\* state that mutations move, and a file that is always an earlier state of it.
THEOREM KeepsPromise == Spec => PromiseSpec
BY InitRefines, NextRefines, Invariance, PTL DEF Spec, PromiseSpec, Promise!Spec

-----------------------------------------------------------------------------
(* A key of the read cache.                                                 *)

(* How old a stored value is said to be is never less than how long ago a  *)
(* load returned it; a placeholder, which has no value, is beyond every    *)
(* window.                                                                 *)
NotYounger(v, a) == v # 0 => loadedAge[v] <= a
Aged(c) == (c.val = 0 => c.age = MaxAge) /\ NotYounger(c.val, c.age)

DiskAged == copyFile.kind = "copy" => NotYounger(copyFile.val, copyFile.age)
OpsAged == \A op \in ops : op.kind = "write" => op.val # 0 /\ NotYounger(op.val, op.age)

(* Only a persisted key is ever read from disk.                            *)
Quiet == \A r \in Readers : pc[r] = "hydrating" => persist

(* Of a plain key, the running load is the one parked on the entry, and    *)
(* what it read, what the entry holds and what was answered are in the     *)
(* order in which the org took these versions.                             *)
OneLoad == \A l \in Loads : loads[l] # Free => l = entry.load
LoadsOrdered ==
  \A l \in Loads : loads[l] \in Versions => loads[l] <= org /\ entry.val <= loads[l]
AnswersOrdered ==
  \A r \in Readers : pc[r] = "answered" =>
    /\ got[r] <= org
    /\ entry.val # 0 => got[r] <= entry.val
    /\ \A l \in Loads : loads[l] \in Versions => got[r] <= loads[l]
PlainInv ==
  Plain => OneLoad /\ entry.val <= org /\ LoadsOrdered /\ AnswersOrdered

CacheInv ==
  /\ CacheTypeOK
  /\ JoinsLive
  /\ NoStuckRevalidation
  /\ Aged(entry)
  /\ DiskAged
  /\ OpsAged
  /\ Quiet
  /\ PlainInv

-----------------------------------------------------------------------------
(* Records.                                                                *)

\* What the assumptions say of ages and load numbers.
LEMMA Consts ==
  /\ Ttl \in Nat /\ Ttl > 0 /\ Stale \in Nat
  /\ MaxAge \in Nat /\ MaxAge = Ttl + Stale + 1
  /\ MaxAge \in Ages /\ 0 \in Ages
  /\ Ages \subseteq Nat
  /\ \A a \in Ages : a <= MaxAge
  /\ 0 \notin Loads
  /\ Loads \subseteq Nat
  /\ MaxVersion \in Nat /\ MaxVersion > 0
  /\ Free = -1
  /\ Versions \subseteq 0 .. MaxVersion /\ 0 \notin Versions /\ Free \notin Versions
  /\ \A v \in 0 .. MaxVersion : v # 0 => v \in Versions
BY WindowAssumption, LoadsAssumption, CacheBounds DEF MaxAge, Ages, Free, Versions

\* An age stays an age as time passes, and the order of two ages is kept.
LEMMA OlderIs ==
  /\ Older(MaxAge) = MaxAge
  /\ \A a \in Ages : Older(a) \in Ages
  /\ \A a, b \in Ages : a <= b => Older(a) <= Older(b)
BY Consts DEF Older, Ages

\* The fields of an entry.
LEMMA EntryFields ==
  ASSUME NEW c \in Entry
  PROVE  /\ c.here \in BOOLEAN /\ c.val \in 0 .. MaxVersion /\ c.age \in Ages
         /\ c.load \in Loads \cup {0} /\ c.reval \in BOOLEAN
BY DEF Entry

\* The entry that is not there.
LEMMA AbsentIs ==
  /\ Absent \in Entry
  /\ Absent.here = FALSE /\ Absent.val = 0 /\ Absent.age = MaxAge
  /\ Absent.load = 0 /\ Absent.reval = FALSE
<1>1. Absent.here = FALSE /\ Absent.val = 0 /\ Absent.age = MaxAge
      /\ Absent.load = 0 /\ Absent.reval = FALSE
  BY DEF Absent
<1>2. 0 \in 0 .. MaxVersion /\ MaxAge \in Ages
  BY Consts
<1>3. Absent \in Entry
  BY <1>2 DEF Absent, Entry
<1>4. QED
  BY <1>1, <1>3

\* A change of `here` alone.
LEMMA HereSet ==
  ASSUME NEW c \in Entry, NEW x, x = [c EXCEPT !.here = TRUE]
  PROVE  /\ x \in Entry /\ x.here = TRUE /\ x.val = c.val /\ x.age = c.age
         /\ x.load = c.load /\ x.reval = c.reval
BY DEF Entry

\* The placeholder of a key that has never loaded.
LEMMA PlaceholderIs ==
  /\ Placeholder \in Entry
  /\ Placeholder.here = TRUE /\ Placeholder.val = 0 /\ Placeholder.age = MaxAge
  /\ Placeholder.load = 0 /\ Placeholder.reval = FALSE
BY AbsentIs, HereSet DEF Placeholder

\* An age replaced, in an entry and in a file operation.
LEMMA EntryAges ==
  ASSUME NEW c \in Entry, NEW x, x = [c EXCEPT !.age = Older(@)]
  PROVE  /\ x \in Entry /\ x.here = c.here /\ x.val = c.val /\ x.age = Older(c.age)
         /\ x.load = c.load /\ x.reval = c.reval
<1>1. Older(c.age) \in Ages
  BY OlderIs, EntryFields
<1>2. QED
  BY <1>1 DEF Entry

\* The fields of a file operation.
LEMMA OpFields ==
  ASSUME NEW op \in Op
  PROVE  /\ op.kind \in {"write", "rm"} /\ op.val \in 0 .. MaxVersion
         /\ op.age \in Ages /\ op.begun \in BOOLEAN
BY DEF Op

\* A file operation that ages changes nothing else.
LEMMA OpAges ==
  ASSUME NEW op \in Op, NEW x, x = [op EXCEPT !.age = Older(@)]
  PROVE  x \in Op /\ x.kind = op.kind /\ x.val = op.val /\ x.age = Older(op.age)
<1>1. Older(op.age) \in Ages
  BY OlderIs, OpFields
<1>2. QED
  BY <1>1 DEF Op

\* A file operation that begins changes nothing else.
LEMMA OpBegun ==
  ASSUME NEW op \in Op, NEW x, x = [op EXCEPT !.begun = TRUE]
  PROVE  x \in Op /\ x.kind = op.kind /\ x.val = op.val /\ x.age = op.age
BY DEF Op

\* The fields of the file.
LEMMA FileFields ==
  ASSUME NEW d \in File
  PROVE  /\ d.age \in Ages
         /\ d.kind = "copy" => d.val \in Versions
<1>1. CASE d = NoFile
  BY <1>1, Consts DEF NoFile
<1>2. CASE d = TornFile
  BY <1>2, Consts DEF TornFile
<1>3. CASE d \in [kind : {"copy"}, val : Versions, age : Ages]
  BY <1>3
<1>4. QED
  BY <1>1, <1>2, <1>3 DEF File

\* A file that ages changes nothing else.
LEMMA FileAges ==
  ASSUME NEW d \in File, NEW x, x = [d EXCEPT !.age = Older(@)]
  PROVE  x \in File /\ x.kind = d.kind /\ x.val = d.val /\ x.age = Older(d.age)
<1>1. Older(MaxAge) = MaxAge
  BY OlderIs
<1>2. CASE d = NoFile
  <2>1. x = NoFile
    BY <1>1, <1>2 DEF NoFile
  <2>2. QED
    BY <2>1, <1>1, <1>2 DEF NoFile, File
<1>3. CASE d = TornFile
  <2>1. x = TornFile
    BY <1>1, <1>3 DEF TornFile
  <2>2. QED
    BY <2>1, <1>1, <1>3 DEF TornFile, File
<1>4. CASE d \in [kind : {"copy"}, val : Versions, age : Ages]
  <2>1. Older(d.age) \in Ages
    BY <1>4, OlderIs
  <2>2. x \in [kind : {"copy"}, val : Versions, age : Ages]
    BY <1>4, <2>1
  <2>3. QED
    BY <1>4, <2>2 DEF File
<1>5. QED
  BY <1>2, <1>3, <1>4 DEF File

\* What a run() leaves: the load starts, and it is parked on the entry or on a
\* placeholder.
LEMMA StartLoadDoes ==
  ASSUME CacheTypeOK, NEW c \in Entry, NEW l \in Loads, NEW behind \in BOOLEAN,
         StartLoad(l, c, behind)
  PROVE  /\ loads[l] = Free
         /\ loads' \in [Loads -> Free .. MaxVersion]
         /\ loads'[l] = 0
         /\ \A m \in Loads : m # l => loads'[m] = loads[m]
         /\ background' \subseteq Loads
         /\ entry' \in Entry
         /\ entry'.load = l
         /\ \/ entry'.val = c.val /\ entry'.age = c.age
            \/ entry'.val = 0 /\ entry'.age = MaxAge
<1>1. PICK b \in Entry : /\ entry' = [b EXCEPT !.load = l, !.reval = behind \/ @]
                         /\ b = c \/ b = Placeholder
  BY PlaceholderIs DEF StartLoad
<1>2. entry' \in Entry /\ entry'.val = b.val /\ entry'.age = b.age /\ entry'.load = l
  <2>1. entry'.val = b.val /\ entry'.age = b.age /\ entry'.load = l
    BY <1>1 DEF Entry
  <2>2. entry' \in Entry
    BY <1>1 DEF Entry
  <2>3. QED
    BY <2>1, <2>2
<1>3. 0 \in Free .. MaxVersion
  BY Consts
<1>4. QED
  BY <1>1, <1>2, <1>3, PlaceholderIs DEF StartLoad, CacheTypeOK

-----------------------------------------------------------------------------
(* What a call of cached() does: it answers what it holds, or awaits a load *)
(* that runs, and it may start one, parked on the entry.                    *)

\* What the map may hold when a reader is served: what it held, or the copy
\* that was read from the file.
Held(c) ==
  \/ c = entry
  \/ persist /\ Aged(c) /\ c.load = 0 /\ ~c.reval

Answered(r, c) == Answer(r, c.val) /\ c.age < Ttl + Stale
Awaits(r) == \E l \in Loads : Await(r, l) /\ loads'[l] # Free
Kept(c) == entry' = c /\ UNCHANGED <<loads, background>>
Started(c) == c.load = 0 /\ \E l \in Loads, b \in BOOLEAN : StartLoad(l, c, b)

\* What serving a reader does: it is answered or awaits, and a load is started
\* or not.
LEMMA Serves ==
  ASSUME CacheInv, NEW r \in Readers, NEW e \in Entry, NEW c \in Entry,
         e = c \/ ~e.here, Held(c), Serve(r, e, c)
  PROVE  (Answered(r, c) \/ Awaits(r)) /\ (Kept(c) \/ Started(c))
<1>0. c.age \in Nat /\ c.load \in Loads \cup {0} /\ (c.load # 0 => loads[c.load] # Free)
  BY EntryFields, Consts DEF CacheInv, JoinsLive, Held
<1>1. CASE /\ e.here /\ (FreshAge(e.age) \/ (StaleAge(e.age) /\ (e.load # 0 \/ e.reval)))
           /\ Answer(r, e.val)
           /\ entry' = c
           /\ UNCHANGED <<loads, background>>
  <2>1. e = c
    BY <1>1
  <2>2. c.age < Ttl + Stale
    BY <1>0, <1>1, <2>1, Consts DEF FreshAge, StaleAge
  <2>3. QED
    BY <1>1, <2>1, <2>2 DEF Answered, Kept
<1>2. CASE /\ e.here /\ StaleAge(e.age) /\ e.load = 0 /\ ~e.reval
           /\ Answer(r, e.val)
           /\ \E l \in Loads : StartLoad(l, c, TRUE)
  <2>1. e = c
    BY <1>2
  <2>2. c.age < Ttl + Stale
    BY <1>2, <2>1 DEF StaleAge
  <2>3. QED
    BY <1>2, <2>1, <2>2 DEF Answered, Started
<1>3. CASE InFlight(c) /\ Await(r, c.load) /\ entry' = c /\ UNCHANGED <<loads, background>>
  BY <1>0, <1>3 DEF InFlight, Awaits, Kept
<1>4. CASE ~InFlight(c) /\ \E l \in Loads : Await(r, l) /\ StartLoad(l, c, FALSE)
  <2>1. PICK l \in Loads : Await(r, l) /\ StartLoad(l, c, FALSE)
    BY <1>4
  <2>2. loads'[l] # Free
    <3>1. CacheTypeOK /\ FALSE \in BOOLEAN
      BY DEF CacheInv
    <3>2. loads'[l] = 0
      BY <2>1, <3>1, StartLoadDoes
    <3>3. QED
      BY <3>2, Consts
  <2>3. QED
    BY <1>4, <2>1, <2>2 DEF InFlight, Awaits, Started
<1>5. QED
  BY <1>1, <1>2, <1>3, <1>4 DEF Serve

\* The two steps that serve a reader, together.
LEMMA ReadServes ==
  ASSUME CacheInv, NEW r \in Readers, Read(r) \/ Hydrate(r)
  PROVE  /\ \/ /\ persist
               /\ pc' = [pc EXCEPT ![r] = "hydrating"]
               /\ UNCHANGED <<entry, loads, background, on, got>>
            \/ \E c \in Entry :
                 /\ Held(c)
                 /\ Answered(r, c) \/ Awaits(r)
                 /\ Kept(c) \/ Started(c)
         /\ pc[r] \in {"idle", "hydrating"}
         /\ UNCHANGED <<files, org, ghosts>>
<1>0. entry \in Entry /\ copyFile \in File
  BY DEF CacheInv, CacheTypeOK
<1>1. CASE Read(r)
  <2>1. CASE ~entry.here /\ persist
    BY <1>1, <2>1 DEF Read
  <2>2. CASE ~(~entry.here /\ persist)
    <3>1. Serve(r, entry, entry)
      BY <1>1, <2>2 DEF Read
    <3>2. Held(entry)
      BY DEF Held
    <3>3. QED
      BY <1>0, <1>1, <3>1, <3>2, Serves DEF Read
  <2>3. QED
    BY <2>1, <2>2
<1>2. CASE Hydrate(r)
  <2>0. persist
    BY <1>2 DEF Hydrate, CacheInv, Quiet
  <2>1. CASE copyFile.kind = "copy" /\ copyFile.age <= Ttl + Stale
    <3>0. PICK h : h = [Placeholder EXCEPT !.val = copyFile.val, !.age = copyFile.age]
      OBVIOUS
    <3>1. copyFile.val \in Versions /\ copyFile.age \in Ages
      BY <1>0, <2>1, FileFields
    <3>2. h \in Entry /\ h.val = copyFile.val /\ h.age = copyFile.age /\ h.load = 0 /\ ~h.reval
      <4>1. copyFile.val \in 0 .. MaxVersion
        BY <3>1, Consts
      <4>2. /\ h \in Entry /\ h.val = copyFile.val /\ h.age = copyFile.age
            /\ h.load = Placeholder.load /\ h.reval = Placeholder.reval
        BY <3>0, <3>1, <4>1, PlaceholderIs DEF Entry
      <4>3. QED
        BY <4>2, PlaceholderIs, Zenon
    <3>3. Aged(h)
      BY <2>1, <3>1, <3>2, Consts DEF Aged, CacheInv, DiskAged
    <3>4. Held(h)
      BY <2>0, <3>2, <3>3 DEF Held
    <3>5. Serve(r, h, h)
      BY <1>2, <2>1, <3>0 DEF Hydrate
    <3>6. QED
      BY <1>2, <3>2, <3>4, <3>5, Serves DEF Hydrate
  <2>2. CASE ~(copyFile.kind = "copy" /\ copyFile.age <= Ttl + Stale)
    <3>1. Serve(r, Absent, entry)
      BY <1>2, <2>2 DEF Hydrate
    <3>2. Held(entry)
      BY DEF Held
    <3>3. QED
      BY <1>0, <1>2, <3>1, <3>2, AbsentIs, Serves DEF Hydrate
  <2>3. QED
    BY <2>1, <2>2
<1>3. QED
  BY <1>1, <1>2

-----------------------------------------------------------------------------
(* The invariant, action by action.                                        *)

\* What serving a reader does to the loads and to the entry.
LEMMA ServedLoads ==
  ASSUME CacheInv, NEW c \in Entry, Held(c), Kept(c) \/ Started(c)
  PROVE  /\ entry' \in Entry
         /\ loads' \in [Loads -> Free .. MaxVersion]
         /\ background' \subseteq Loads
         /\ \A m \in Loads : loads[m] # Free => loads'[m] = loads[m]
         /\ \A m \in Loads : loads'[m] \in Versions => loads'[m] = loads[m]
         /\ entry'.load # 0 => loads'[entry'.load] # Free
         /\ entry'.reval => entry'.load # 0
         /\ \/ entry'.val = c.val /\ entry'.age = c.age
            \/ entry'.val = 0 /\ entry'.age = MaxAge
         /\ c = entry => \A m \in Loads :
              loads'[m] # Free => loads[m] # Free \/ m = entry'.load
         /\ c = entry /\ entry.load # 0 => entry'.load = entry.load
<1>0. CacheTypeOK /\ entry \in Entry /\ c.load \in Loads \cup {0}
  BY EntryFields DEF CacheInv, CacheTypeOK
<1>1. CASE Kept(c)
  <2>1. entry' = c /\ loads' = loads /\ background' = background
    BY <1>1 DEF Kept
  <2>2. (c.load # 0 => loads[c.load] # Free) /\ (c.reval => c.load # 0)
    BY DEF Held, CacheInv, JoinsLive, NoStuckRevalidation
  <2>3. QED
    BY <1>0, <2>1, <2>2 DEF CacheTypeOK
<1>2. CASE Started(c)
  <2>1. PICK l \in Loads, b \in BOOLEAN : c.load = 0 /\ StartLoad(l, c, b)
    BY <1>2 DEF Started
  <2>2. /\ loads[l] = Free
        /\ loads' \in [Loads -> Free .. MaxVersion]
        /\ loads'[l] = 0
        /\ \A m \in Loads : m # l => loads'[m] = loads[m]
        /\ background' \subseteq Loads
        /\ entry' \in Entry
        /\ entry'.load = l
        /\ \/ entry'.val = c.val /\ entry'.age = c.age
           \/ entry'.val = 0 /\ entry'.age = MaxAge
    BY <1>0, <2>1, StartLoadDoes
  <2>3. QED
    BY <2>1, <2>2, Consts
<1>3. QED
  BY <1>1, <1>2

\* What serving a reader does to the readers.
LEMMA ServedReaders ==
  ASSUME CacheInv, NEW r \in Readers, NEW c \in Entry, Held(c), Answered(r, c) \/ Awaits(r),
         \A m \in Loads : loads[m] # Free => loads'[m] = loads[m]
  PROVE  /\ pc' \in [Readers -> PCs]
         /\ on' \in [Readers -> Loads \cup {0}]
         /\ got' \in [Readers -> 0 .. MaxVersion]
         /\ pc'[r] \in {"answered", "waiting"}
         /\ \A q \in Readers : q # r => pc'[q] = pc[q] /\ got'[q] = got[q]
         /\ pc'[r] = "answered" => got'[r] = c.val /\ c.age < Ttl + Stale
         /\ \A q \in Readers : pc'[q] = "waiting" => on'[q] # 0 /\ loads'[on'[q]] # Free
<1>0. CacheTypeOK /\ c.val \in 0 .. MaxVersion /\ 0 \notin Loads
  BY EntryFields, Consts DEF CacheInv
<1>1. \A q \in Readers : pc[q] = "waiting" =>
        on[q] # 0 /\ on[q] \in Loads /\ loads[on[q]] # Free
  BY DEF CacheInv, JoinsLive, CacheTypeOK
<1>2. CASE Answered(r, c)
  <2>1. /\ pc' = [pc EXCEPT ![r] = "answered"]
        /\ got' = [got EXCEPT ![r] = c.val]
        /\ on' = on
        /\ c.age < Ttl + Stale
    BY <1>2 DEF Answered, Answer
  <2>2. QED
    BY <1>0, <1>1, <2>1 DEF CacheTypeOK, PCs
<1>3. CASE Awaits(r)
  <2>1. PICK l \in Loads : /\ pc' = [pc EXCEPT ![r] = "waiting"]
                           /\ on' = [on EXCEPT ![r] = l]
                           /\ got' = got
                           /\ loads'[l] # Free
    BY <1>3 DEF Awaits, Await
  <2>2. QED
    BY <1>0, <1>1, <2>1 DEF CacheTypeOK, PCs
<1>4. QED
  BY <1>2, <1>3

\* A reader is answered with what the entry holds, or awaits a load that runs.
LEMMA ReadKeeps ==
  ASSUME CacheInv, NEW r \in Readers, Read(r) \/ Hydrate(r), UNCHANGED persist
  PROVE  CacheInv'
<1>0. UNCHANGED <<copyFile, ops, pruning, org, barrier, loadedAge, persist>>
  BY ReadServes DEF files, ghosts
<1>1. CASE /\ persist
           /\ pc' = [pc EXCEPT ![r] = "hydrating"]
           /\ UNCHANGED <<entry, loads, background, on, got>>
  <2>1. CacheTypeOK'
    BY <1>0, <1>1 DEF CacheInv, CacheTypeOK, PCs
  <2>2. JoinsLive' /\ Quiet'
    BY <1>0, <1>1 DEF CacheInv, CacheTypeOK, JoinsLive, Quiet
  <2>3. PlainInv'
    BY <1>0, <1>1 DEF PlainInv, Plain
  <2>4. NoStuckRevalidation' /\ Aged(entry)' /\ DiskAged' /\ OpsAged'
    BY <1>0, <1>1
    DEF CacheInv, NoStuckRevalidation, Aged, DiskAged, OpsAged, NotYounger
  <2>5. QED
    BY <2>1, <2>2, <2>3, <2>4 DEF CacheInv
<1>2. ASSUME NEW c \in Entry, Held(c), Answered(r, c) \/ Awaits(r), Kept(c) \/ Started(c)
      PROVE  CacheInv'
  <2>1. /\ entry' \in Entry
        /\ loads' \in [Loads -> Free .. MaxVersion]
        /\ background' \subseteq Loads
        /\ \A m \in Loads : loads[m] # Free => loads'[m] = loads[m]
        /\ \A m \in Loads : loads'[m] \in Versions => loads'[m] = loads[m]
        /\ entry'.load # 0 => loads'[entry'.load] # Free
        /\ entry'.reval => entry'.load # 0
        /\ \/ entry'.val = c.val /\ entry'.age = c.age
           \/ entry'.val = 0 /\ entry'.age = MaxAge
        /\ c = entry => \A m \in Loads :
             loads'[m] # Free => loads[m] # Free \/ m = entry'.load
        /\ c = entry /\ entry.load # 0 => entry'.load = entry.load
    BY <1>2, ServedLoads
  <2>2. /\ pc' \in [Readers -> PCs]
        /\ on' \in [Readers -> Loads \cup {0}]
        /\ got' \in [Readers -> 0 .. MaxVersion]
        /\ pc'[r] \in {"answered", "waiting"}
        /\ \A q \in Readers : q # r => pc'[q] = pc[q] /\ got'[q] = got[q]
        /\ pc'[r] = "answered" => got'[r] = c.val /\ c.age < Ttl + Stale
        /\ \A q \in Readers : pc'[q] = "waiting" => on'[q] # 0 /\ loads'[on'[q]] # Free
    BY <1>2, <2>1, ServedReaders
  <2>3. CacheTypeOK'
    BY <1>0, <2>1, <2>2 DEF CacheInv, CacheTypeOK
  <2>4. JoinsLive' /\ NoStuckRevalidation' /\ Quiet'
    BY <1>0, <2>1, <2>2 DEF CacheInv, JoinsLive, NoStuckRevalidation, Quiet
  <2>5. Aged(c)
    BY <1>2 DEF Held, CacheInv
  <2>6. Aged(entry)' /\ DiskAged' /\ OpsAged'
    BY <1>0, <2>1, <2>5 DEF CacheInv, Aged, DiskAged, OpsAged, NotYounger
  <2>7. ASSUME Plain'
        PROVE  (OneLoad /\ entry.val <= org /\ LoadsOrdered /\ AnswersOrdered)'
    <3>1. Plain /\ c = entry
      BY <1>0, <1>2, <2>7 DEF Plain, Held
    <3>2. OneLoad /\ entry.val <= org /\ LoadsOrdered /\ AnswersOrdered
      BY <3>1 DEF CacheInv, PlainInv
    <3>3. CacheTypeOK /\ org \in Nat /\ entry.val \in Nat /\ entry'.val \in Nat
      BY <2>1, EntryFields, Consts DEF CacheInv, CacheTypeOK
    <3>4. OneLoad'
      BY <2>1, <3>1, <3>2, Consts DEF OneLoad
    <3>5. entry'.val = entry.val \/ entry'.val = 0
      BY <2>1, <3>1
    <3>6. (entry.val <= org)'
      BY <1>0, <3>2, <3>3, <3>5
    <3>7. \A m \in Loads : loads'[m] \in Versions => loads[m] = loads'[m] /\ loads[m] \in Nat
      BY <2>1, Consts
    <3>8. LoadsOrdered'
      BY <1>0, <3>2, <3>3, <3>5, <3>7, Consts DEF LoadsOrdered
    <3>9. pc'[r] = "answered" => got'[r] = entry.val /\ entry.val # 0
      BY <2>2, <2>5, <3>1, EntryFields, Consts DEF Aged
    <3>10. AnswersOrdered'
      <4> SUFFICES ASSUME NEW q \in Readers, pc'[q] = "answered"
                   PROVE  /\ got'[q] <= org'
                          /\ entry'.val # 0 => got'[q] <= entry'.val
                          /\ \A m \in Loads : loads'[m] \in Versions => got'[q] <= loads'[m]
        BY DEF AnswersOrdered
      <4>1. CASE q = r
        BY <1>0, <3>2, <3>3, <3>5, <3>7, <3>9, <4>1 DEF LoadsOrdered
      <4>2. CASE q # r
        BY <1>0, <2>2, <3>2, <3>5, <3>7, <4>2 DEF AnswersOrdered
      <4>3. QED
        BY <4>1, <4>2
    <3>11. QED
      BY <3>4, <3>6, <3>8, <3>10
  <2>8. QED
    BY <2>3, <2>4, <2>6, <2>7 DEF CacheInv, PlainInv
<1>3. QED
  BY <1>1, <1>2, ReadServes

\* A load reads the current version, which nothing exceeds.
LEMMA LoadReadsKeeps ==
  ASSUME CacheInv, NEW l \in Loads, LoadReads(l), UNCHANGED persist
  PROVE  CacheInv'
<1>1. /\ loads[l] = 0
      /\ loads' = [loads EXCEPT ![l] = org]
      /\ UNCHANGED <<persist, entry, background, pc, on, got, copyFile, ops, pruning, org,
                     barrier, loadedAge>>
  BY DEF LoadReads, readers, files, ghosts
<1>2. org \in Versions /\ org \in Free .. MaxVersion /\ org # Free /\ loads[l] # Free
  BY <1>1, Consts DEF CacheInv, CacheTypeOK
<1>3. CacheTypeOK'
  BY <1>1, <1>2 DEF CacheInv, CacheTypeOK
<1>4. JoinsLive' /\ Quiet'
  BY <1>1, <1>2 DEF CacheInv, CacheTypeOK, JoinsLive, Quiet
<1>5. NoStuckRevalidation' /\ Aged(entry)' /\ DiskAged' /\ OpsAged'
  BY <1>1 DEF CacheInv, NoStuckRevalidation, Aged, DiskAged, OpsAged, NotYounger
<1>6. ASSUME Plain'
      PROVE  (OneLoad /\ entry.val <= org /\ LoadsOrdered /\ AnswersOrdered)'
  <2>1. OneLoad /\ entry.val <= org /\ LoadsOrdered /\ AnswersOrdered
    BY <1>1, <1>6 DEF Plain, CacheInv, PlainInv
  <2>2. \A m \in Loads : loads'[m] = IF m = l THEN org ELSE loads[m]
    BY <1>1 DEF CacheInv, CacheTypeOK
  <2>3. OneLoad'
    BY <1>1, <1>2, <2>1, <2>2 DEF OneLoad
  <2>4. LoadsOrdered'
    BY <1>1, <1>2, <2>1, <2>2, Consts DEF LoadsOrdered
  <2>5. AnswersOrdered'
    BY <1>1, <1>2, <2>1, <2>2 DEF AnswersOrdered
  <2>6. QED
    BY <1>1, <2>1, <2>3, <2>4, <2>5
<1>7. QED
  BY <1>3, <1>4, <1>5, <1>6 DEF CacheInv, PlainInv

\* The end of a load: its readers are answered or fail, and no other reader
\* and no other load changes.
LEMMA Finishes ==
  ASSUME CacheInv, NEW l \in Loads, NEW outcome \in {"answered", "failed"},
         outcome = "answered" => loads[l] \in Versions, Finish(l, outcome)
  PROVE  /\ loads' \in [Loads -> Free .. MaxVersion]
         /\ loads'[l] = Free
         /\ \A m \in Loads : m # l => loads'[m] = loads[m]
         /\ background' \subseteq Loads
         /\ pc' \in [Readers -> PCs]
         /\ on' \in [Readers -> Loads \cup {0}]
         /\ got' \in [Readers -> 0 .. MaxVersion]
         /\ \A q \in Readers :
              \/ pc[q] = "waiting" /\ pc'[q] = outcome
                 /\ got'[q] = IF outcome = "answered" THEN loads[l] ELSE got[q]
              \/ pc'[q] = pc[q] /\ got'[q] = got[q]
         /\ \A q \in Readers : pc'[q] = "waiting" =>
              pc[q] = "waiting" /\ on[q] # l /\ on'[q] = on[q]
<1>0. CacheTypeOK /\ Free \in Free .. MaxVersion
  BY Consts DEF CacheInv
<1>1. /\ pc' = [q \in Readers |-> IF pc[q] = "waiting" /\ on[q] = l THEN outcome ELSE pc[q]]
      /\ got' = [q \in Readers |-> IF pc[q] = "waiting" /\ on[q] = l /\ outcome = "answered"
                                     THEN loads[l] ELSE got[q]]
      /\ on' = [q \in Readers |-> IF on[q] = l THEN 0 ELSE on[q]]
      /\ loads' = [loads EXCEPT ![l] = Free]
      /\ background' = background \ {l}
  BY DEF Finish
<1>2. /\ loads' \in [Loads -> Free .. MaxVersion]
      /\ loads'[l] = Free
      /\ \A m \in Loads : m # l => loads'[m] = loads[m]
      /\ background' \subseteq Loads
  BY <1>0, <1>1 DEF CacheTypeOK
<1>3. pc' \in [Readers -> PCs]
  BY <1>0, <1>1 DEF CacheTypeOK, PCs
<1>4. on' \in [Readers -> Loads \cup {0}]
  BY <1>0, <1>1 DEF CacheTypeOK
<1>5. got' \in [Readers -> 0 .. MaxVersion]
  BY <1>0, <1>1, Consts DEF CacheTypeOK
<1>6. \A q \in Readers :
        \/ pc[q] = "waiting" /\ pc'[q] = outcome
           /\ got'[q] = IF outcome = "answered" THEN loads[l] ELSE got[q]
        \/ pc'[q] = pc[q] /\ got'[q] = got[q]
  BY <1>1
<1>7. \A q \in Readers : pc'[q] = "waiting" =>
        pc[q] = "waiting" /\ on[q] # l /\ on'[q] = on[q]
  BY <1>1
<1>8. QED
  BY <1>2, <1>3, <1>4, <1>5, <1>6, <1>7

\* Readers that still wait after the end of a load wait for one that runs.
LEMMA StillLive ==
  ASSUME CacheInv, NEW l \in Loads, NEW outcome \in {"answered", "failed"},
         outcome = "answered" => loads[l] \in Versions, Finish(l, outcome)
  PROVE  \A q \in Readers : pc'[q] = "waiting" => on'[q] # 0 /\ loads'[on'[q]] # Free
<1> SUFFICES ASSUME NEW q \in Readers, pc'[q] = "waiting"
             PROVE  on'[q] # 0 /\ loads'[on'[q]] # Free
  OBVIOUS
<1>1. pc[q] = "waiting" /\ on[q] # l /\ on'[q] = on[q]
      /\ \A m \in Loads : m # l => loads'[m] = loads[m]
  BY Finishes
<1>2. on[q] \in Loads /\ on[q] # 0 /\ loads[on[q]] # Free
  BY <1>1 DEF CacheInv, CacheTypeOK, JoinsLive
<1>3. QED
  BY <1>1, <1>2

\* What a load stores is as young as its reading, and whoever awaited it is
\* answered.
LEMMA LoadOkKeeps ==
  ASSUME CacheInv, NEW l \in Loads, LoadOk(l), UNCHANGED persist
  PROVE  CacheInv'
<1> DEFINE w == [kind |-> "write", val |-> loads[l], age |-> 0, begun |-> FALSE]
<1>0. CacheTypeOK
  BY DEF CacheInv
<1>1. /\ loads[l] \in Versions
      /\ Finish(l, "answered")
      /\ entry' = [here |-> TRUE, val |-> loads[l], age |-> 0, load |-> 0, reval |-> FALSE]
      /\ ops' = ops \/ ops' = ops \cup {w}
      /\ loadedAge' = [loadedAge EXCEPT ![loads[l]] = 0]
      /\ UNCHANGED <<persist, copyFile, pruning, org, barrier>>
  BY DEF LoadOk
<1>2. /\ loads' \in [Loads -> Free .. MaxVersion]
      /\ loads'[l] = Free
      /\ \A m \in Loads : m # l => loads'[m] = loads[m]
      /\ background' \subseteq Loads
      /\ pc' \in [Readers -> PCs]
      /\ on' \in [Readers -> Loads \cup {0}]
      /\ got' \in [Readers -> 0 .. MaxVersion]
      /\ \A q \in Readers :
           \/ pc[q] = "waiting" /\ pc'[q] = "answered" /\ got'[q] = loads[l]
           \/ pc'[q] = pc[q] /\ got'[q] = got[q]
  BY <1>1, Finishes
<1>3. loads[l] \in 0 .. MaxVersion /\ loads[l] # 0
  BY <1>1, Consts
<1>4. /\ entry' \in Entry
      /\ entry'.val = loads[l] /\ entry'.age = 0 /\ entry'.load = 0 /\ ~entry'.reval
  BY <1>1, <1>3, Consts DEF Entry
<1>5. w \in Op /\ w.kind = "write" /\ w.val = loads[l] /\ w.age = 0
  BY <1>3, Consts DEF Op
<1>6. /\ loadedAge' \in [Versions -> Ages]
      /\ loadedAge'[loads[l]] = 0
      /\ \A v \in Versions : loadedAge'[v] = 0 \/ loadedAge'[v] = loadedAge[v]
  <2>1. loadedAge \in [Versions -> Ages] /\ 0 \in Ages
    BY <1>0, Consts DEF CacheTypeOK
  <2>2. QED
    BY <1>1, <2>1
<1>7. CacheTypeOK'
  BY <1>0, <1>1, <1>2, <1>4, <1>5, <1>6 DEF CacheTypeOK
<1>8. JoinsLive' /\ NoStuckRevalidation'
  BY <1>1, <1>4, StillLive DEF JoinsLive, NoStuckRevalidation
<1>9. Quiet'
  BY <1>1, <1>2 DEF CacheInv, Quiet
<1>10. Aged(entry)'
  BY <1>3, <1>4, <1>6 DEF Aged, NotYounger
<1>11. \A v \in Versions, a \in Ages : loadedAge[v] <= a => loadedAge'[v] <= a
  <2> SUFFICES ASSUME NEW v \in Versions, NEW a \in Ages, loadedAge[v] <= a
               PROVE  loadedAge'[v] <= a
    OBVIOUS
  <2>1. a \in Nat
    BY Consts
  <2>2. QED
    BY <1>6, <2>1
<1>12. DiskAged'
  <2>1. copyFile \in File
    BY <1>0 DEF CacheTypeOK
  <2>2. QED
    BY <1>1, <1>11, <2>1, FileFields, Consts DEF CacheInv, DiskAged, NotYounger
<1>13. OpsAged'
  <2> SUFFICES ASSUME NEW op \in ops', op.kind = "write"
               PROVE  op.val # 0 /\ loadedAge'[op.val] <= op.age
    BY DEF OpsAged, NotYounger
  <2>1. CASE op \in ops
    <3>1. op.val # 0 /\ loadedAge[op.val] <= op.age /\ op \in Op
      BY <1>0, <2>1 DEF CacheInv, OpsAged, NotYounger, CacheTypeOK
    <3>2. QED
      BY <1>11, <3>1, OpFields, Consts
  <2>2. CASE op = w
    BY <1>3, <1>5, <1>6, <2>2
  <2>3. QED
    BY <1>1, <2>1, <2>2
<1>14. ASSUME Plain'
       PROVE  (OneLoad /\ entry.val <= org /\ LoadsOrdered /\ AnswersOrdered)'
  <2>1. OneLoad /\ entry.val <= org /\ LoadsOrdered /\ AnswersOrdered
    BY <1>1, <1>14 DEF Plain, CacheInv, PlainInv
  <2>2. l = entry.load /\ loads[l] <= org
    BY <1>1, <2>1, Consts DEF OneLoad, LoadsOrdered
  <2>3. \A m \in Loads : loads'[m] = Free
    BY <1>2, <2>1, <2>2 DEF OneLoad
  <2>4. OneLoad' /\ LoadsOrdered'
    BY <2>3, Consts DEF OneLoad, LoadsOrdered
  <2>5. (entry.val <= org)'
    BY <1>1, <1>4, <2>2
  <2>6. AnswersOrdered'
    <3> SUFFICES ASSUME NEW q \in Readers, pc'[q] = "answered"
                 PROVE  got'[q] <= org' /\ got'[q] <= entry'.val
      BY <2>3, Consts DEF AnswersOrdered
    <3>1. CASE pc[q] = "waiting" /\ pc'[q] = "answered" /\ got'[q] = loads[l]
      <4>1. loads[l] <= loads[l]
        BY <1>3
      <4>2. QED
        BY <1>1, <1>4, <2>2, <3>1, <4>1
    <3>2. CASE pc'[q] = pc[q] /\ got'[q] = got[q]
      BY <1>1, <1>4, <2>1, <3>2 DEF AnswersOrdered
    <3>3. QED
      BY <1>2, <3>1, <3>2
  <2>7. QED
    BY <2>4, <2>5, <2>6
<1>15. QED
  BY <1>7, <1>8, <1>9, <1>10, <1>12, <1>13, <1>14 DEF CacheInv, PlainInv

\* What a failed load leaves of the entry.
LEMMA ErrLeaves ==
  ASSUME CacheTypeOK, NEW l \in Loads, LoadErr(l)
  PROVE  /\ entry' \in Entry
         /\ entry'.val = entry.val /\ entry'.age = entry.age
         /\ entry'.load = IF entry.load = l THEN 0 ELSE entry.load
         /\ entry'.reval => entry.reval /\ entry.load # l
<1>1. PICK n \in Loads \cup {0}, f \in BOOLEAN :
        /\ entry' = [entry EXCEPT !.load = n, !.reval = f]
        /\ n = IF entry.load = l THEN 0 ELSE entry.load
        /\ f => entry.reval /\ entry.load # l
  <2> DEFINE n == IF entry.load = l THEN 0 ELSE entry.load
             f == IF entry.load = l \/ (entry.here /\ l \in background)
                    THEN FALSE ELSE entry.reval
  <2>1. entry' = [entry EXCEPT !.load = n, !.reval = f]
    BY DEF LoadErr
  <2>2. n \in Loads \cup {0} /\ f \in BOOLEAN
    BY EntryFields DEF CacheTypeOK
  <2>3. f => entry.reval /\ entry.load # l
    OBVIOUS
  <2> HIDE DEF f
  <2>4. QED
    BY <2>1, <2>2, <2>3
<1>2. entry \in Entry
  BY DEF CacheTypeOK
<1>3. entry'.val = entry.val /\ entry'.age = entry.age /\ entry'.load = n
  BY <1>1, <1>2 DEF Entry
<1>4. entry'.reval = f
  BY <1>1, <1>2 DEF Entry
<1>5. entry' \in Entry
  BY <1>1, <1>2 DEF Entry
<1>6. QED
  BY <1>1, <1>3, <1>4, <1>5

\* A load that fails leaves the value and ends the revalidation it was for.
LEMMA LoadErrKeeps ==
  ASSUME CacheInv, NEW l \in Loads, LoadErr(l), UNCHANGED persist
  PROVE  CacheInv'
<1>0. CacheTypeOK
  BY DEF CacheInv
<1>1. /\ Finish(l, "failed")
      /\ UNCHANGED <<persist, copyFile, ops, pruning, org, barrier, loadedAge>>
  BY DEF LoadErr, files, ghosts
<1>2. /\ loads' \in [Loads -> Free .. MaxVersion]
      /\ loads'[l] = Free
      /\ \A m \in Loads : m # l => loads'[m] = loads[m]
      /\ background' \subseteq Loads
      /\ pc' \in [Readers -> PCs]
      /\ on' \in [Readers -> Loads \cup {0}]
      /\ got' \in [Readers -> 0 .. MaxVersion]
      /\ \A q \in Readers : pc'[q] = "failed" \/ (pc'[q] = pc[q] /\ got'[q] = got[q])
  BY <1>1, Finishes
<1>3. /\ entry' \in Entry
      /\ entry'.val = entry.val /\ entry'.age = entry.age
      /\ entry'.load = IF entry.load = l THEN 0 ELSE entry.load
      /\ entry'.reval => entry.reval /\ entry.load # l
  BY <1>0, ErrLeaves
<1>4. CacheTypeOK'
  BY <1>0, <1>1, <1>2, <1>3 DEF CacheTypeOK
<1>5. JoinsLive'
  <2>1. entry.load \in Loads \cup {0} /\ (entry.load # 0 => loads[entry.load] # Free)
    BY <1>0, EntryFields DEF CacheInv, JoinsLive, CacheTypeOK
  <2>2. entry'.load # 0 => loads'[entry'.load] # Free
    BY <1>2, <1>3, <2>1
  <2>3. QED
    BY <1>1, <2>2, StillLive DEF JoinsLive
<1>6. NoStuckRevalidation'
  BY <1>3 DEF CacheInv, NoStuckRevalidation
<1>7. Aged(entry)' /\ DiskAged' /\ OpsAged'
  BY <1>1, <1>3 DEF CacheInv, Aged, DiskAged, OpsAged, NotYounger
<1>8. Quiet'
  BY <1>1, <1>2 DEF CacheInv, Quiet
<1>9. ASSUME Plain'
      PROVE  (OneLoad /\ entry.val <= org /\ LoadsOrdered /\ AnswersOrdered)'
  <2>1. OneLoad /\ entry.val <= org /\ LoadsOrdered /\ AnswersOrdered
    BY <1>1, <1>9 DEF Plain, CacheInv, PlainInv
  <2>2. \A m \in Loads : loads'[m] = Free \/ (m # l /\ loads'[m] = loads[m])
    BY <1>2
  <2>3. OneLoad'
    BY <1>3, <2>1, <2>2 DEF OneLoad
  <2>4. LoadsOrdered'
    BY <1>1, <1>3, <2>1, <2>2, Consts DEF LoadsOrdered
  <2>5. AnswersOrdered'
    BY <1>1, <1>2, <1>3, <2>1, <2>2, Consts DEF AnswersOrdered
  <2>6. QED
    BY <1>1, <1>3, <2>1, <2>3, <2>4, <2>5
<1>10. QED
  BY <1>4, <1>5, <1>6, <1>7, <1>8, <1>9 DEF CacheInv, PlainInv

\* An invalidation forgets the entry with its load, and starts to remove the file.
LEMMA InvalidateKeeps ==
  ASSUME CacheInv, Invalidate, UNCHANGED persist
  PROVE  CacheInv'
<1> DEFINE w == [kind |-> "rm", val |-> 0, age |-> 0, begun |-> FALSE]
<1>1. /\ entry' = Absent
      /\ barrier' = org
      /\ ops' = ops \/ ops' = ops \cup {w}
      /\ UNCHANGED <<persist, loads, background, pc, on, got, copyFile, pruning, org, loadedAge>>
  BY DEF Invalidate, readers
<1>2. w \in Op /\ w.kind = "rm" /\ org \in Versions
  BY Consts DEF Op, CacheInv, CacheTypeOK
<1>3. CacheTypeOK'
  BY <1>1, <1>2, AbsentIs, Consts DEF CacheInv, CacheTypeOK
<1>4. JoinsLive' /\ NoStuckRevalidation' /\ Quiet'
  BY <1>1, AbsentIs DEF CacheInv, JoinsLive, NoStuckRevalidation, Quiet
<1>5. Aged(entry)' /\ DiskAged'
  BY <1>1, AbsentIs DEF CacheInv, Aged, DiskAged, NotYounger
<1>6. OpsAged'
  BY <1>1, <1>2 DEF CacheInv, OpsAged, NotYounger
<1>7. ~Plain'
  BY <1>1, <1>2, Consts DEF Plain
<1>8. QED
  BY <1>3, <1>4, <1>5, <1>6, <1>7 DEF CacheInv, PlainInv

(* The part of the invariant that a file operation can disturb.            *)
FilesOk ==
  /\ copyFile \in File
  /\ ops \subseteq Op
  /\ pruning \in BOOLEAN
  /\ DiskAged
  /\ OpsAged

\* A write in progress leaves its value or a torn file, never a younger value.
LEMMA FileStepKeeps ==
  ASSUME CacheInv, FileStep, UNCHANGED persist
  PROVE  CacheInv'
<1>0. CacheTypeOK
  BY DEF CacheInv
<1>1. UNCHANGED <<persist, entry, loads, background, pc, on, got, org, barrier, loadedAge>>
  BY DEF FileStep, readers, ghosts
<1>2. TornFile \in File /\ NoFile \in File /\ TornFile.kind = "torn" /\ NoFile.kind = "none"
  BY DEF File, TornFile, NoFile
<1>3. FilesOk'
  <2>1. ASSUME NEW op \in ops, BeginWrite(op)
        PROVE  FilesOk'
    <3> DEFINE b == [op EXCEPT !.begun = TRUE]
    <3>1. copyFile' = TornFile /\ ops' = (ops \ {op}) \cup {b} /\ pruning' = pruning
      BY <2>1 DEF BeginWrite
    <3>2. op \in Op
      BY <1>0 DEF CacheTypeOK
    <3>3. b \in Op /\ b.kind = op.kind /\ b.val = op.val /\ b.age = op.age
      BY <3>2, OpBegun
    <3> HIDE DEF b
    <3>4. DiskAged'
      BY <1>2, <3>1 DEF DiskAged
    <3>5. OpsAged'
      BY <1>1, <3>1, <3>3 DEF CacheInv, OpsAged, NotYounger
    <3>6. QED
      BY <1>0, <1>2, <3>1, <3>3, <3>4, <3>5 DEF CacheTypeOK, FilesOk
  <2>2. ASSUME NEW op \in ops, EndWrite(op)
        PROVE  FilesOk'
    <3> DEFINE f == [kind |-> "copy", val |-> op.val, age |-> op.age]
    <3>1. /\ op.kind = "write"
          /\ copyFile' = f \/ copyFile' = TornFile
          /\ ops' \subseteq ops /\ pruning' = pruning
      BY <2>2 DEF EndWrite
    <3>2. op.val \in Versions /\ op.age \in Ages /\ NotYounger(op.val, op.age)
      BY <1>0, <3>1, OpFields, Consts DEF CacheInv, OpsAged, CacheTypeOK
    <3>3. f \in File /\ f.val = op.val /\ f.age = op.age
      BY <3>2 DEF File
    <3>4. DiskAged'
      BY <1>1, <1>2, <3>1, <3>2, <3>3 DEF DiskAged, NotYounger
    <3>5. OpsAged'
      BY <1>1, <3>1 DEF CacheInv, OpsAged, NotYounger
    <3>6. QED
      BY <1>0, <1>2, <3>1, <3>3, <3>4, <3>5 DEF CacheTypeOK, FilesOk
  <2>3. ASSUME NEW op \in ops, EndRemove(op)
        PROVE  FilesOk'
    <3>1. copyFile' = NoFile /\ ops' \subseteq ops /\ pruning' = pruning
      BY <2>3 DEF EndRemove
    <3>2. DiskAged' /\ OpsAged'
      BY <1>1, <1>2, <3>1 DEF CacheInv, DiskAged, OpsAged, NotYounger
    <3>3. QED
      BY <1>0, <1>2, <3>1, <3>2 DEF CacheTypeOK, FilesOk
  <2>4. ASSUME Prune
        PROVE  FilesOk'
    <3>1. (copyFile' = NoFile \/ copyFile' = copyFile) /\ ops' = ops /\ pruning' = FALSE
      BY <2>4 DEF Prune
    <3>2. DiskAged' /\ OpsAged'
      BY <1>1, <1>2, <3>1 DEF CacheInv, DiskAged, OpsAged, NotYounger
    <3>3. QED
      BY <1>0, <1>2, <3>1, <3>2 DEF CacheTypeOK, FilesOk
  <2>5. QED
    BY <2>1, <2>2, <2>3, <2>4 DEF FileStep
<1>4. CacheTypeOK'
  BY <1>0, <1>1, <1>3 DEF CacheTypeOK, FilesOk
<1>5. JoinsLive' /\ NoStuckRevalidation' /\ Quiet' /\ Aged(entry)'
  BY <1>1 DEF CacheInv, JoinsLive, NoStuckRevalidation, Quiet, Aged, NotYounger
<1>6. PlainInv'
  BY <1>1 DEF CacheInv, PlainInv, Plain, OneLoad, LoadsOrdered, AnswersOrdered
<1>7. QED
  BY <1>3, <1>4, <1>5, <1>6 DEF CacheInv, FilesOk

\* A restart keeps the file alone, whose age is no less than that of its
\* value.
LEMMA RestartKeeps ==
  ASSUME CacheInv, Restart, UNCHANGED persist
  PROVE  CacheInv'
<1>1. /\ entry' = Absent
      /\ loads' = [l \in Loads |-> Free]
      /\ background' = {}
      /\ pc' = [r \in Readers |-> IF pc[r] \in {"hydrating", "waiting"} THEN "gone" ELSE pc[r]]
      /\ on' = [r \in Readers |-> 0]
      /\ ops' = {}
      /\ pruning' = TRUE
      /\ UNCHANGED <<persist, got, copyFile, org, barrier, loadedAge>>
  BY DEF Restart, ghosts
<1>2. \A r \in Readers : pc'[r] = "gone" \/ (pc'[r] = pc[r] /\ pc[r] \notin {"hydrating", "waiting"})
  BY <1>1
<1>3. CacheTypeOK'
  <2>1. pc' \in [Readers -> PCs]
    BY <1>1 DEF CacheInv, CacheTypeOK, PCs
  <2>2. loads' \in [Loads -> Free .. MaxVersion]
    BY <1>1, Consts
  <2>3. QED
    BY <1>1, <2>1, <2>2, AbsentIs DEF CacheInv, CacheTypeOK
<1>4. JoinsLive' /\ NoStuckRevalidation' /\ Quiet'
  BY <1>1, <1>2, AbsentIs DEF JoinsLive, NoStuckRevalidation, Quiet
<1>5. Aged(entry)' /\ DiskAged' /\ OpsAged'
  BY <1>1, AbsentIs DEF CacheInv, Aged, DiskAged, OpsAged, NotYounger
<1>6. ASSUME Plain'
      PROVE  (OneLoad /\ entry.val <= org /\ LoadsOrdered /\ AnswersOrdered)'
  <2>1. AnswersOrdered
    BY <1>1, <1>6 DEF Plain, CacheInv, PlainInv
  <2>2. OneLoad' /\ LoadsOrdered'
    BY <1>1, Consts DEF OneLoad, LoadsOrdered
  <2>3. (entry.val <= org)'
    BY <1>1, AbsentIs, Consts DEF CacheInv, CacheTypeOK
  <2>4. AnswersOrdered'
    BY <1>1, <1>2, <2>1, AbsentIs, Consts DEF AnswersOrdered
  <2>5. QED
    BY <2>2, <2>3, <2>4
<1>7. QED
  BY <1>3, <1>4, <1>5, <1>6 DEF CacheInv, PlainInv

\* Everything ages together.
LEMMA TickKeeps ==
  ASSUME CacheInv, Tick, UNCHANGED persist
  PROVE  CacheInv'
<1>0. CacheTypeOK /\ entry \in Entry /\ copyFile \in File /\ ops \subseteq Op
  BY DEF CacheInv, CacheTypeOK
<1>1. /\ entry' = [entry EXCEPT !.age = Older(@)]
      /\ copyFile' = [copyFile EXCEPT !.age = Older(@)]
      /\ ops' = {[op EXCEPT !.age = Older(@)] : op \in ops}
      /\ loadedAge' = [v \in Versions |-> Older(loadedAge[v])]
      /\ UNCHANGED <<persist, loads, background, pc, on, got, pruning, org, barrier>>
  BY DEF Tick, readers
<1>2. /\ entry' \in Entry /\ entry'.val = entry.val /\ entry'.age = Older(entry.age)
      /\ entry'.load = entry.load /\ entry'.reval = entry.reval
  BY <1>0, <1>1, EntryAges
<1>3. copyFile' \in File /\ copyFile'.kind = copyFile.kind /\ copyFile'.val = copyFile.val
      /\ copyFile'.age = Older(copyFile.age)
  BY <1>0, <1>1, FileAges
<1>4. \A x \in ops' : \E op \in ops :
        x \in Op /\ x.kind = op.kind /\ x.val = op.val /\ x.age = Older(op.age)
  <2> SUFFICES ASSUME NEW x \in ops'
               PROVE  \E op \in ops : /\ x \in Op /\ x.kind = op.kind /\ x.val = op.val
                                      /\ x.age = Older(op.age)
    OBVIOUS
  <2>1. PICK op \in ops : x = [op EXCEPT !.age = Older(@)]
    BY <1>1
  <2>2. QED
    BY <1>0, <2>1, OpAges
<1>5. loadedAge' \in [Versions -> Ages]
  BY <1>0, <1>1, OlderIs DEF CacheTypeOK
<1>6. CacheTypeOK'
  BY <1>0, <1>1, <1>2, <1>3, <1>4, <1>5 DEF CacheTypeOK
<1>7. JoinsLive' /\ NoStuckRevalidation' /\ Quiet'
  BY <1>1, <1>2 DEF CacheInv, JoinsLive, NoStuckRevalidation, Quiet
<1>8. \A v \in Versions, a \in Ages : loadedAge[v] <= a => loadedAge'[v] <= Older(a)
  BY <1>0, <1>1, OlderIs DEF CacheTypeOK
<1>9. Aged(entry)'
  <2>1. entry.val \in 0 .. MaxVersion /\ entry.age \in Ages
    BY <1>0, EntryFields
  <2>2. QED
    BY <1>2, <1>8, <2>1, OlderIs, Consts DEF CacheInv, Aged, NotYounger
<1>10. DiskAged'
  BY <1>0, <1>3, <1>8, FileFields, Consts DEF CacheInv, DiskAged, NotYounger
<1>11. OpsAged'
  <2> SUFFICES ASSUME NEW x \in ops', x.kind = "write"
               PROVE  x.val # 0 /\ loadedAge'[x.val] <= x.age
    BY DEF OpsAged, NotYounger
  <2>1. PICK op \in ops : x.kind = op.kind /\ x.val = op.val /\ x.age = Older(op.age)
    BY <1>4
  <2>2. op.val # 0 /\ loadedAge[op.val] <= op.age /\ op \in Op
    BY <1>0, <2>1 DEF CacheInv, OpsAged, NotYounger
  <2>3. QED
    BY <1>8, <2>1, <2>2, OpFields, Consts
<1>12. PlainInv'
  BY <1>1, <1>2 DEF CacheInv, PlainInv, Plain, OneLoad, LoadsOrdered, AnswersOrdered
<1>13. QED
  BY <1>6, <1>7, <1>9, <1>10, <1>11, <1>12 DEF CacheInv

\* The org moves on, which makes no value younger.
LEMMA ChangeKeeps ==
  ASSUME CacheInv, Change, UNCHANGED persist
  PROVE  CacheInv'
<1>1. /\ org < MaxVersion /\ org' = org + 1
      /\ UNCHANGED <<persist, entry, loads, background, pc, on, got, copyFile, ops, pruning,
                     barrier, loadedAge>>
  BY DEF Change, readers, files, ghosts
<1>2. org \in Nat /\ org' \in Versions
  BY <1>1, CacheBounds DEF CacheInv, CacheTypeOK, Versions
<1>3. CacheTypeOK'
  BY <1>1, <1>2 DEF CacheInv, CacheTypeOK
<1>4. JoinsLive' /\ NoStuckRevalidation' /\ Quiet' /\ Aged(entry)' /\ DiskAged' /\ OpsAged'
  BY <1>1 DEF CacheInv, JoinsLive, NoStuckRevalidation, Quiet, Aged, DiskAged, OpsAged, NotYounger
<1>5. ASSUME Plain'
      PROVE  (OneLoad /\ entry.val <= org /\ LoadsOrdered /\ AnswersOrdered)'
  <2>1. OneLoad /\ entry.val <= org /\ LoadsOrdered /\ AnswersOrdered
    BY <1>1, <1>5 DEF Plain, CacheInv, PlainInv
  <2>2. entry.val \in Nat /\ \A r \in Readers : got[r] \in Nat
    BY EntryFields, Consts DEF CacheInv, CacheTypeOK
  <2>3. OneLoad'
    BY <1>1, <2>1 DEF OneLoad
  <2>4. (entry.val <= org)'
    BY <1>1, <1>2, <2>1, <2>2
  <2>5. LoadsOrdered'
    <3> SUFFICES ASSUME NEW l \in Loads, loads[l] \in Versions
                 PROVE  loads[l] <= org + 1 /\ entry.val <= loads[l]
      BY <1>1 DEF LoadsOrdered
    <3>1. loads[l] \in Nat
      <4>1. loads[l] \in 0 .. MaxVersion
        BY Consts, Zenon
      <4>2. QED
        BY <4>1
    <3>2. loads[l] <= org /\ entry.val <= loads[l]
      BY <2>1 DEF LoadsOrdered
    <3>3. QED
      BY <1>2, <3>1, <3>2
  <2>6. AnswersOrdered'
    BY <1>1, <1>2, <2>1, <2>2 DEF AnswersOrdered
  <2>7. QED
    BY <2>3, <2>4, <2>5, <2>6
<1>6. QED
  BY <1>3, <1>4, <1>5 DEF CacheInv, PlainInv

-----------------------------------------------------------------------------
(* The invariant of the specification.                                     *)

\* At first nothing is stored.
LEMMA CacheInitInv == CacheInit => CacheInv
<1> SUFFICES ASSUME CacheInit PROVE CacheInv
  OBVIOUS
<1>1. CacheTypeOK
  BY AbsentIs, Consts DEF CacheInit, CacheTypeOK, PCs, File, Versions
<1>2. JoinsLive /\ NoStuckRevalidation /\ Quiet
  BY AbsentIs DEF CacheInit, JoinsLive, NoStuckRevalidation, Quiet
<1>3. Aged(entry) /\ DiskAged /\ OpsAged
  BY AbsentIs DEF CacheInit, Aged, DiskAged, OpsAged, NotYounger, NoFile
<1>4. OneLoad /\ entry.val <= org /\ LoadsOrdered /\ AnswersOrdered
  BY AbsentIs, Consts DEF CacheInit, OneLoad, LoadsOrdered, AnswersOrdered
<1>5. QED
  BY <1>1, <1>2, <1>3, <1>4 DEF CacheInv, PlainInv

\* A step that changes nothing keeps the invariant.
LEMMA Stuttering ==
  ASSUME CacheInv, UNCHANGED cacheVars
  PROVE  CacheInv'
BY DEF CacheInv, cacheVars, CacheTypeOK, JoinsLive, NoStuckRevalidation, Aged, DiskAged, OpsAged,
       NotYounger, Quiet, PlainInv, Plain, OneLoad, LoadsOrdered, AnswersOrdered

\* Every step of the cache keeps the invariant.
LEMMA CacheNextInv == CacheInv /\ [CacheNext]_cacheVars => CacheInv'
<1> SUFFICES ASSUME CacheInv, CacheNext PROVE CacheInv'
  BY Stuttering
<1>1. UNCHANGED persist
  BY DEF CacheNext
<1>2. ASSUME NEW r \in Readers, Read(r) \/ Hydrate(r) PROVE CacheInv'
  BY <1>1, <1>2, ReadKeeps
<1>3. ASSUME NEW l \in Loads, LoadReads(l) PROVE CacheInv'
  BY <1>1, <1>3, LoadReadsKeeps
<1>4. ASSUME NEW l \in Loads, LoadOk(l) PROVE CacheInv'
  BY <1>1, <1>4, LoadOkKeeps
<1>5. ASSUME NEW l \in Loads, LoadErr(l) PROVE CacheInv'
  BY <1>1, <1>5, LoadErrKeeps
<1>6. QED
  BY <1>1, <1>2, <1>3, <1>4, <1>5, InvalidateKeeps, FileStepKeeps, RestartKeeps,
     TickKeeps, ChangeKeeps DEF CacheNext, LoadNext

-----------------------------------------------------------------------------
(* Theorems.                                                               *)

\* The inductive invariant holds of every behaviour of the cache.
THEOREM CacheInvariance == CacheSpec => []CacheInv
BY CacheInitInv, CacheNextInv, PTL DEF CacheSpec

\* What the cache takes for a running load is one: nobody joins a load that is
\* over, nothing suppresses revalidation for good, and only one load of a plain
\* key runs.
THEOREM LoadsStayLive == CacheSpec => []LoadsAreLive
<1>1. CacheInv => LoadsAreLive
  <2> SUFFICES ASSUME CacheInv, Plain
               PROVE  Cardinality({l \in Loads : loads[l] # Free}) <= 1
    BY DEF CacheInv, LoadsAreLive, SingleFlightPlain
  <2> DEFINE R == {l \in Loads : loads[l] # Free}
  <2>1. R \in SUBSET {entry.load}
    BY DEF CacheInv, PlainInv, OneLoad
  <2>2. IsFiniteSet({entry.load}) /\ Cardinality({entry.load}) = 1
    BY FS_Singleton
  <2> HIDE DEF R
  <2>3. Cardinality(R) <= 1
    BY <2>1, <2>2, FS_Subset
  <2>4. QED
    BY <2>3 DEF R
<1>2. QED
  BY <1>1, CacheInvariance, PTL

\* Where an answer comes from: the entry that is held, within its window, or a
\* load that has just ended.
LEMMA AnswerSource ==
  ASSUME CacheInv, CacheNext, NEW r \in Readers, pc[r] # "answered", pc'[r] = "answered"
  PROVE  \/ \E c \in Entry : /\ Held(c) /\ got'[r] = c.val /\ c.age < Ttl + Stale
                             /\ UNCHANGED <<barrier, loadedAge>>
         \/ \E l \in Loads : LoadOk(l) /\ got'[r] = loads[l]
<1>1. ASSUME NEW q \in Readers, Read(q) \/ Hydrate(q)
      PROVE  \E c \in Entry : /\ Held(c) /\ got'[r] = c.val /\ c.age < Ttl + Stale
                              /\ UNCHANGED <<barrier, loadedAge>>
  <2>1. CASE pc' = [pc EXCEPT ![q] = "hydrating"]
    BY <2>1 DEF CacheInv, CacheTypeOK
  <2>2. ASSUME NEW c \in Entry, Held(c), Answered(q, c) \/ Awaits(q), Kept(c) \/ Started(c)
        PROVE  got'[r] = c.val /\ c.age < Ttl + Stale
    <3>1. \A m \in Loads : loads[m] # Free => loads'[m] = loads[m]
      BY <2>2, ServedLoads
    <3>2. /\ \A p \in Readers : p # q => pc'[p] = pc[p]
          /\ pc'[q] = "answered" => got'[q] = c.val /\ c.age < Ttl + Stale
      BY <2>2, <3>1, ServedReaders
    <3>3. QED
      BY <3>2
  <2>3. UNCHANGED <<barrier, loadedAge>>
    BY <1>1, ReadServes DEF ghosts
  <2>4. QED
    BY <1>1, <2>1, <2>2, <2>3, ReadServes
<1>2. ASSUME NEW l \in Loads, LoadOk(l)
      PROVE  got'[r] = loads[l]
  <2>1. Finish(l, "answered") /\ loads[l] \in Versions
    BY <1>2 DEF LoadOk
  <2>2. QED
    BY <2>1, Finishes
<1>3. ASSUME NEW l \in Loads, LoadErr(l)
      PROVE  FALSE
  <2>1. Finish(l, "failed")
    BY <1>3 DEF LoadErr
  <2>2. QED
    BY <2>1, Finishes
<1>4. ASSUME Restart
      PROVE  FALSE
  BY <1>4 DEF Restart
<1>5. ASSUME pc' = pc
      PROVE  FALSE
  BY <1>5
<1>6. QED
  BY <1>1, <1>2, <1>3, <1>4, <1>5
  DEF CacheNext, LoadNext, LoadReads, Invalidate, FileStep, Tick, Change, readers

\* No reader is answered with a value that was stored longer ago than the TTL
\* and the stale window together, restarts included.
THEOREM AnswersWithinWindow == CacheSpec => ServedWithinWindow
<1>1. CacheInv /\ [CacheNext]_cacheVars =>
        [\A r \in Readers : pc[r] # "answered" /\ pc'[r] = "answered"
           => loadedAge'[got'[r]] < Ttl + Stale]_cacheVars
  <2> SUFFICES ASSUME CacheInv, CacheNext, NEW r \in Readers, pc[r] # "answered", pc'[r] = "answered"
               PROVE  loadedAge'[got'[r]] < Ttl + Stale
    BY DEF cacheVars
  <2>1. ASSUME NEW c \in Entry, Held(c), got'[r] = c.val, c.age < Ttl + Stale,
               UNCHANGED <<barrier, loadedAge>>
        PROVE  loadedAge'[got'[r]] < Ttl + Stale
    <3>1. Aged(c)
      BY <2>1 DEF Held, CacheInv
    <3>2. c.val \in Versions /\ loadedAge[c.val] <= c.age
      BY <2>1, <3>1, EntryFields, Consts DEF Aged, NotYounger
    <3>3. loadedAge[c.val] \in Nat /\ c.age \in Nat
      BY <3>2, EntryFields, Consts DEF CacheInv, CacheTypeOK
    <3>4. QED
      BY <2>1, <3>2, <3>3, Consts
  <2>2. ASSUME NEW l \in Loads, LoadOk(l), got'[r] = loads[l]
        PROVE  loadedAge'[got'[r]] < Ttl + Stale
    <3>1. loadedAge'[loads[l]] = 0
      BY <2>2 DEF LoadOk, CacheInv, CacheTypeOK
    <3>2. QED
      BY <2>2, <3>1, Consts
  <2>3. QED
    BY <2>1, <2>2, AnswerSource
<1>2. QED
  BY <1>1, CacheInvariance, PTL DEF CacheSpec, ServedWithinWindow

\* The answers of a plain key are in the order in which they were given.
THEOREM AnswersInOrder == CacheSpec => AnswersMonotone
<1>1. CacheInv /\ [CacheNext]_cacheVars =>
        [\A r, q \in Readers :
           Plain' /\ pc[r] = "answered" /\ pc[q] # "answered" /\ pc'[q] = "answered"
             => got'[q] >= got[r]]_cacheVars
  <2> SUFFICES ASSUME CacheInv, CacheNext, NEW r \in Readers, NEW q \in Readers, Plain',
                      pc[r] = "answered", pc[q] # "answered", pc'[q] = "answered"
               PROVE  got'[q] >= got[r]
    BY DEF cacheVars
  <2>0. ASSUME UNCHANGED barrier
        PROVE  Plain /\ AnswersOrdered
    BY <2>0 DEF CacheNext, Plain, CacheInv, PlainInv
  <2>1. ASSUME NEW c \in Entry, Held(c), got'[q] = c.val, c.age < Ttl + Stale,
               UNCHANGED <<barrier, loadedAge>>
        PROVE  got'[q] >= got[r]
    <3>1. UNCHANGED barrier
      BY <2>1
    <3>2. c = entry
      BY <2>0, <2>1, <3>1 DEF Held, Plain
    <3>3. entry.val # 0
      BY <2>1, <3>2, EntryFields, Consts DEF CacheInv, Aged
    <3>4. QED
      BY <2>0, <2>1, <3>1, <3>2, <3>3 DEF AnswersOrdered
  <2>2. ASSUME NEW l \in Loads, LoadOk(l), got'[q] = loads[l]
        PROVE  got'[q] >= got[r]
    BY <2>0, <2>2 DEF LoadOk, AnswersOrdered
  <2>3. QED
    BY <2>1, <2>2, AnswerSource
<1>2. QED
  BY <1>1, CacheInvariance, PTL DEF CacheSpec, AnswersMonotone
=============================================================================
