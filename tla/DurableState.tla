---------------------------- MODULE DurableState ----------------------------
(***************************************************************************)
(* What server/src/state/store.ts promises to its callers, without saying  *)
(* how: one state in memory, every mutation applied to it at once, and a   *)
(* copy on disk that is some earlier state of it, complete, and that only  *)
(* ever moves forward.  A version stands for a whole state: the number of  *)
(* mutations that led to it.                                               *)
(***************************************************************************)
EXTENDS Naturals

VARIABLES mem,   \* version of the state in memory
          disk   \* version of the state in state.json

vars == <<mem, disk>>

Init == mem = disk /\ disk = 0

\* updateState(): nothing is lost between two mutations.
Update == mem' = mem + 1 /\ UNCHANGED disk

\* The copy on disk catches up, to any state between it and memory.
Persist == disk' \in disk .. mem /\ UNCHANGED mem

\* The process ends, for whatever reason, and the state on disk is what is left.
Lose == mem' = disk /\ UNCHANGED disk

Next == Update \/ Persist \/ Lose

Spec == Init /\ [][Next]_vars
=============================================================================
