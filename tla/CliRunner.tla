----------------------------- MODULE CliRunner -----------------------------
(***************************************************************************)
(* The command runner of server/src/cli/CliRunner.ts: every `sf` command   *)
(* of the server passes through it.  It owns a pool of MAX_CONCURRENT      *)
(* slots with a FIFO queue, a TTL cache of results and a table of commands *)
(* in flight by which callers of the same key share one child process.     *)
(*                                                                         *)
(* A request is one call of execute().  Node runs the callbacks of one     *)
(* event to completion: the continuations that follow the settlement of a  *)
(* command (release, cache.set, inFlight.delete, waking the callers that   *)
(* joined) are one step here, Settle.  The data of a command is the        *)
(* version of the org state its process read.                              *)
(***************************************************************************)
EXTENDS Integers, Sequences, FiniteSets

CONSTANTS Reqs,        \* calls of execute()
          Keys,        \* cache keys (options.cache.key)
          NoKey,       \* a call without options.cache
          NoReq,       \* no leader in the in-flight table
          Max,         \* MAX_CONCURRENT
          MaxVersion,  \* bound: versions of the org state behind a key
          MaxProbes    \* bound: calls of version() running at once

ASSUME MaxAssumption == Max \in Nat \ {0}
ASSUME FreshAssumption == NoKey \notin Keys /\ NoReq \notin Reqs
ASSUME BoundsAssumption == MaxVersion \in Nat \ {0} /\ MaxProbes \in Nat

VARIABLES
  active,    \* slots in use
  queue,     \* requests waiting for a slot, oldest first
  cache,     \* [Keys -> version], 0 when there is no unexpired entry
  inFlight,  \* [Keys -> leader of the command in flight, or NoReq]
  pc,        \* where each request is
  key,       \* the key each request was made with
  seen,      \* version read by a request's process, or answered to it
  aborted,   \* requests whose AbortSignal has fired
  procs,     \* requests whose child process is alive in the OS
  probes,    \* `sf --version` children alive
  org,       \* [Keys -> current version of the org state]
  barrier    \* [Keys -> version at the last invalidate that met no load]

vars == <<active, queue, cache, inFlight, pc, key, seen, aborted, procs,
          probes, org, barrier>>
pool == <<active, queue, inFlight, pc>>

Settled == {"ok", "failed", "timedOut", "cancelled"}
PCs == {"idle", "queued", "granted", "running", "joined"} \cup Settled

TypeOK ==
  /\ active \in Nat
  /\ queue \in Seq(Reqs)
  /\ cache \in [Keys -> Nat]
  /\ inFlight \in [Keys -> Reqs \cup {NoReq}]
  /\ pc \in [Reqs -> PCs]
  /\ key \in [Reqs -> Keys \cup {NoKey}]
  /\ seen \in [Reqs -> Nat]
  /\ aborted \subseteq Reqs
  /\ procs \subseteq Reqs
  /\ probes \in Nat
  /\ org \in [Keys -> Nat]
  /\ barrier \in [Keys -> Nat]

Init ==
  /\ active = 0
  /\ queue = <<>>
  /\ cache = [k \in Keys |-> 0]
  /\ inFlight = [k \in Keys |-> NoReq]
  /\ pc = [r \in Reqs |-> "idle"]
  /\ key = [r \in Reqs |-> NoKey]
  /\ seen = [r \in Reqs |-> 0]
  /\ aborted = {}
  /\ procs = {}
  /\ probes = 0
  /\ org = [k \in Keys |-> 1]
  /\ barrier = [k \in Keys |-> 0]

-----------------------------------------------------------------------------
(* Calls of execute().                                                     *)

Holds(r) == pc[r] \in {"granted", "running"}
Pending(r) == pc[r] \in {"queued", "granted", "running"}

\* An event of the loop (a child's exit, a timer, a disconnect) is delivered
\* only when no continuation of acquire() is waiting to run.
Drained == \A r \in Reqs : pc[r] # "granted"

\* acquire(): a free slot at once, otherwise the back of the queue.
Acquire(r) ==
  IF active < Max
    THEN /\ active' = active + 1
         /\ pc' = [pc EXCEPT ![r] = "granted"]
         /\ UNCHANGED queue
    ELSE /\ queue' = Append(queue, r)
         /\ pc' = [pc EXCEPT ![r] = "queued"]
         /\ UNCHANGED active

\* Without options.cache: straight to schedule().
ExecuteDirect(r) ==
  /\ pc[r] = "idle"
  /\ Acquire(r)
  /\ UNCHANGED <<cache, inFlight, key, seen, aborted, procs, probes, org, barrier>>

\* An unexpired entry answers at once.
ExecuteHit(r, k) ==
  /\ pc[r] = "idle"
  /\ cache[k] # 0
  /\ pc' = [pc EXCEPT ![r] = "ok"]
  /\ seen' = [seen EXCEPT ![r] = cache[k]]
  /\ key' = [key EXCEPT ![r] = k]
  /\ UNCHANGED <<active, queue, cache, inFlight, aborted, procs, probes, org, barrier>>

\* Mutant: the in-flight table is not consulted before scheduling.
LeadWithoutLooking(r, k) ==
  /\ pc[r] = "idle"
  /\ cache[k] = 0
  /\ Acquire(r)
  /\ inFlight' = [inFlight EXCEPT ![k] = r]
  /\ key' = [key EXCEPT ![r] = k]
  /\ UNCHANGED <<cache, seen, aborted, procs, probes, org, barrier>>

\* A command for this key is already in flight: share its promise.
ExecuteJoin(r, k) ==
  /\ pc[r] = "idle"
  /\ cache[k] = 0
  /\ inFlight[k] # NoReq
  /\ pc' = [pc EXCEPT ![r] = "joined"]
  /\ key' = [key EXCEPT ![r] = k]
  /\ UNCHANGED <<active, queue, cache, inFlight, seen, aborted, procs, probes, org, barrier>>

\* Otherwise this call schedules the command for everyone who joins later.
ExecuteLead(r, k) ==
  /\ pc[r] = "idle"
  /\ cache[k] = 0
  /\ inFlight[k] = NoReq
  /\ Acquire(r)
  /\ inFlight' = [inFlight EXCEPT ![k] = r]
  /\ key' = [key EXCEPT ![r] = k]
  /\ UNCHANGED <<cache, seen, aborted, procs, probes, org, barrier>>

-----------------------------------------------------------------------------
(* One child process, from spawn to settlement.                            *)

\* Mutant: those who joined are forgotten.
NoneJoined(r) == {}

Joined(r) == {w \in Reqs : pc[w] = "joined" /\ key[w] = key[r]}

\* Who is answered when the promise of r settles.
Answered(r) == {r} \cup (IF key[r] = NoKey THEN {} ELSE Joined(r))

\* release(): give the slot back and hand it to the longest waiting request.
Release ==
  IF queue = <<>>
    THEN active' = active - 1 /\ UNCHANGED queue
    ELSE queue' = Tail(queue) /\ UNCHANGED active

\* Mutant: nobody is woken.
GrantedNobody == {}

\* The request the released slot goes to.
Granted == IF queue = <<>> THEN {} ELSE {Head(queue)}

\* The promise of r settles with an outcome: the slot is released, a result is
\* cached, the in-flight entry is dropped and everyone who joined is answered.
Settle(r, outcome) ==
  /\ Release
  /\ pc' = [q \in Reqs |-> IF q \in Answered(r) THEN outcome
                           ELSE IF q \in Granted THEN "granted" ELSE pc[q]]
  /\ seen' = [q \in Reqs |-> IF q \in Answered(r) THEN seen[r] ELSE seen[q]]
  /\ inFlight' = [k \in Keys |-> IF k = key[r] THEN NoReq ELSE inFlight[k]]
  /\ cache' = [k \in Keys |-> IF k = key[r] /\ outcome = "ok" THEN seen[r] ELSE cache[k]]

\* run() begins: spawn, then look at the signal.
Spawn(r) ==
  /\ pc[r] = "granted"
  /\ r \notin aborted
  /\ pc' = [pc EXCEPT ![r] = "running"]
  /\ procs' = procs \cup {r}
  /\ UNCHANGED <<active, queue, cache, inFlight, key, seen, aborted, probes, org, barrier>>

\* The signal fired while the request was queued: the child is spawned, killed
\* and abandoned in the same turn.
SpawnAborted(r) ==
  /\ pc[r] = "granted"
  /\ r \in aborted
  /\ procs' = procs \cup {r}
  /\ Settle(r, "cancelled")
  /\ UNCHANGED <<key, aborted, probes, org, barrier>>

\* The child queries the org.
ReadOrg(r) ==
  /\ pc[r] = "running"
  /\ key[r] # NoKey
  /\ seen[r] = 0
  /\ seen' = [seen EXCEPT ![r] = org[key[r]]]
  /\ UNCHANGED <<pool, cache, key, aborted, procs, probes, org, barrier>>

\* 'close' with a parsable, successful result.
CloseOk(r) ==
  /\ Drained
  /\ pc[r] = "running"
  /\ key[r] # NoKey => seen[r] # 0
  /\ procs' = procs \ {r}
  /\ Settle(r, "ok")
  /\ UNCHANGED <<key, aborted, probes, org, barrier>>

\* 'close' with an exit code, an error status or no JSON, or 'error'.
CloseErr(r) ==
  /\ Drained
  /\ pc[r] = "running"
  /\ procs' = procs \ {r}
  /\ Settle(r, "failed")
  /\ UNCHANGED <<key, aborted, probes, org, barrier>>

\* The timer of run(): SIGTERM, and the promise rejects without waiting for
\* the child to exit.
Timeout(r) ==
  /\ Drained
  /\ pc[r] = "running"
  /\ Settle(r, "timedOut")
  /\ UNCHANGED <<key, aborted, procs, probes, org, barrier>>

\* The client disconnects while its request is pending.  Only a request whose
\* child runs has a listener on the signal; one that joined has none at all.
Abort(r) ==
  /\ Drained
  /\ Pending(r) \/ pc[r] = "joined"
  /\ r \notin aborted
  /\ aborted' = aborted \cup {r}
  /\ IF pc[r] = "running" THEN Settle(r, "cancelled") ELSE UNCHANGED <<pool, cache, seen>>
  /\ UNCHANGED <<key, procs, probes, org, barrier>>

\* A child sent SIGTERM finally exits; its 'close' finds the promise settled.
LateExit(r) ==
  /\ Drained
  /\ r \in procs
  /\ pc[r] \in Settled
  /\ procs' = procs \ {r}
  /\ UNCHANGED <<pool, cache, key, seen, aborted, probes, org, barrier>>

-----------------------------------------------------------------------------
(* The rest of the class, and the org.                                     *)

\* The TTL of an entry passes.
Expire(k) ==
  /\ cache[k] # 0
  /\ cache' = [cache EXCEPT ![k] = 0]
  /\ UNCHANGED <<pool, key, seen, aborted, procs, probes, org, barrier>>

\* invalidate(prefix), for a prefix that matches one key.  The command in
\* flight, if any, is left alone.
Invalidate(k) ==
  /\ cache' = [cache EXCEPT ![k] = 0]
  /\ barrier' = [barrier EXCEPT ![k] = IF inFlight[k] = NoReq THEN org[k] ELSE @]
  /\ UNCHANGED <<pool, key, seen, aborted, procs, probes, org>>

\* version() spawns its own child, outside the pool.
VersionStart ==
  /\ probes < MaxProbes
  /\ probes' = probes + 1
  /\ UNCHANGED <<pool, cache, key, seen, aborted, procs, org, barrier>>

VersionEnd ==
  /\ probes > 0
  /\ probes' = probes - 1
  /\ UNCHANGED <<pool, cache, key, seen, aborted, procs, org, barrier>>

\* What a key describes changes in the org.
Change(k) ==
  /\ org[k] < MaxVersion
  /\ org' = [org EXCEPT ![k] = @ + 1]
  /\ UNCHANGED <<pool, cache, key, seen, aborted, procs, probes, barrier>>

ReqNext(r) ==
  \/ ExecuteDirect(r)
  \/ \E k \in Keys : ExecuteHit(r, k) \/ ExecuteJoin(r, k) \/ ExecuteLead(r, k)
  \/ Spawn(r) \/ SpawnAborted(r) \/ ReadOrg(r) \/ CloseOk(r) \/ CloseErr(r)
  \/ Timeout(r) \/ Abort(r) \/ LateExit(r)

Next ==
  \/ \E r \in Reqs : ReqNext(r)
  \/ \E k \in Keys : Expire(k) \/ Invalidate(k) \/ Change(k)
  \/ VersionStart \/ VersionEnd

Spec == Init /\ [][Next]_vars

\* A resolved acquire() continues in the next microtask, and the timer that
\* run() arms always fires.  Nothing else is assumed: children may hang.
FairSpec ==
  Spec /\ \A r \in Reqs : /\ WF_vars(Spawn(r) \/ SpawnAborted(r))
                          /\ WF_vars(Timeout(r))

-----------------------------------------------------------------------------
(* Safety.                                                                 *)

\* The counter of slots is exactly the number of requests that hold one, and
\* never exceeds the cap, though release() and the closures that acquire()
\* queues update it from different callbacks.
SlotAccounting ==
  /\ active = Cardinality({r \in Reqs : Holds(r)})
  /\ active <= Max

\* No request waits in the queue while a slot is free, and the queue holds
\* exactly the requests that wait, each once: no wake-up is lost or doubled.
WorkConserving ==
  /\ queue # <<>> => active = Max
  /\ {queue[i] : i \in DOMAIN queue} = {r \in Reqs : pc[r] = "queued"}
  /\ \A i, j \in DOMAIN queue : queue[i] = queue[j] => i = j

\* At most one command per key is scheduled or running, and the in-flight table
\* names it: a later caller finds it, and no entry outlives its command.
SingleFlight ==
  \A k \in Keys : \A r \in Reqs :
    inFlight[k] = r <=> key[r] = k /\ Pending(r)

\* A caller that joined a command is never left behind by it: while it waits,
\* the command it waits for is scheduled or running.
NoOrphan ==
  \A w \in Reqs : pc[w] = "joined" =>
    /\ key[w] \in Keys
    /\ inFlight[key[w]] # NoReq

\* After an invalidate that met no load in flight, the cache never answers with
\* what was read before it.
InvalidationHolds == \A k \in Keys : cache[k] # 0 => cache[k] >= barrier[k]

\* Slots are granted in the order in which they were asked for.
FifoGrant ==
  [][\A r \in Reqs : pc[r] = "queued" /\ pc'[r] # "queued" => r = Head(queue)]_vars

\* Two answers for one key never go back in time: the later answer is at least
\* as new as the earlier one, whatever hits, joins and invalidations lie between.
AnswersMonotone ==
  [][\A r, q \in Reqs :
       pc[r] = "ok" /\ pc[q] # "ok" /\ pc'[q] = "ok" /\ key[r] \in Keys /\ key'[q] = key[r]
         => seen'[q] >= seen[r]]_vars

\* Every call of execute() is answered or rejected in the end: hung children,
\* full pools and vanished clients never leave a caller waiting.
EveryCallSettles == \A r \in Reqs : (pc[r] # "idle") ~> (pc[r] \in Settled)

=============================================================================
