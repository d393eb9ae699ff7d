--------------------------- MODULE ClientResource ---------------------------
(***************************************************************************)
(* client/src/lib/resource.ts: the cache of org data that the components   *)
(* of the client share.  The entries of different keys do not interact, so *)
(* the module follows one key; a component that changes its key unmounts   *)
(* from one and mounts on the other.                                       *)
(*                                                                         *)
(* The code runs on one thread: an action is a synchronous run of it, from *)
(* an effect, a timer, an event handler or the settling of a promise.  A   *)
(* value is the version of the org data the server read for it.  An entry  *)
(* that nobody refers to any more equals one that was never made, so the   *)
(* deletion of an entry is the return to the initial values; a load that   *)
(* was running for it then ends without a trace ("orphan").                *)
(***************************************************************************)
EXTENDS Naturals

CONSTANTS Components,  \* the components that use the key
          Loads,       \* bound: requests that have not settled
          NoLoad,      \* no promise is stored in the entry
          Newest       \* bound: versions of the org data

ASSUME NoLoadAssumption == NoLoad \notin Loads
ASSUME NewestAssumption == Newest \in Nat \ {0}

VARIABLES
  data,     \* version of the org data
  value,    \* entry.value, 0 when undefined
  at,       \* entry.updatedAt: zero, within some component's ttl, or older
  error,    \* whether entry.error is set
  promise,  \* entry.promise, the load in flight; entry.loading says the same
  timer,    \* entry.abortTimer is armed
  mounted,  \* entry.listeners
  loads,    \* the requests
  told,     \* version of the org data at the last invalidate()
  late,     \* the value came from a load that an invalidate() overtook
  cut       \* a component has been mounted over an aborted load

resourceVars == <<data, value, at, error, promise, timer, mounted, loads, told, late, cut>>

Versions == 1 .. Newest
Stages == {"free", "sent", "answered", "aborted"}
Load == [stage : Stages, snap : 0 .. Newest, orphan : BOOLEAN, overtaken : BOOLEAN]
ALoad(st, v, o, t) == [stage |-> st, snap |-> v, orphan |-> o, overtaken |-> t]
Free == ALoad("free", 0, FALSE, FALSE)
Sent == ALoad("sent", 0, FALSE, FALSE)

ResourceTypeOK ==
  /\ data \in Versions
  /\ value \in 0 .. Newest
  /\ at \in {"never", "fresh", "expired"}
  /\ error \in BOOLEAN
  /\ promise \in Loads \cup {NoLoad}
  /\ timer \in BOOLEAN
  /\ mounted \subseteq Components
  /\ loads \in [Loads -> Load]
  /\ told \in 0 .. Newest
  /\ late \in BOOLEAN
  /\ cut \in BOOLEAN
  /\ value = 0 => at = "never"  \* updatedAt is only set with a value

ResourceInit ==
  /\ data = 1
  /\ value = 0
  /\ at = "never"
  /\ error = FALSE
  /\ promise = NoLoad
  /\ timer = FALSE
  /\ mounted = {}
  /\ loads = [l \in Loads |-> Free]
  /\ told = 0
  /\ late = FALSE
  /\ cut = FALSE

\* A request on its way to the server or back, which no abort has reached.
Live(l) == loads[l].stage \in {"sent", "answered"}

Aborted(l) == ALoad("aborted", loads[l].snap, loads[l].orphan, loads[l].overtaken)

(* load(): the stored promise is shared, whatever became of its request.    *)
Fetch ==
  /\ promise = NoLoad
  /\ \E l \in Loads :
       /\ loads[l] = Free
       /\ loads' = [loads EXCEPT ![l] = Sent]
       /\ promise' = l
  /\ error' = FALSE

LoadShared ==
  \/ Fetch
  \/ promise # NoLoad /\ UNCHANGED <<loads, promise, error>>

(***************************************************************************)
(* Components.                                                             *)
(***************************************************************************)
(* The effect of useResource: the armed abort is called off, the component  *)
(* listens, and data that is not fresh by its own ttl is loaded.            *)
Mount(c) ==
  /\ c \notin mounted
  /\ mounted' = mounted \cup {c}
  /\ timer' = FALSE
  /\ \/ at = "fresh" /\ UNCHANGED <<loads, promise, error>>
     \/ LoadShared
  /\ cut' = (cut \/ (promise # NoLoad /\ loads[promise].stage = "aborted"))
  /\ UNCHANGED <<data, value, at, told, late>>

(* The clean-up of that effect: the last component to leave a load in       *)
(* flight gives it the grace period.                                        *)
Unmount(c) ==
  /\ c \in mounted
  /\ mounted' = mounted \ {c}
  /\ timer' = (timer \/ (mounted = {c} /\ promise # NoLoad))
  /\ UNCHANGED <<data, value, at, error, promise, loads, told, late, cut>>

(* refresh(), offered by a mounted component.                               *)
Refresh ==
  /\ mounted # {}
  /\ at' = "never"
  /\ LoadShared
  /\ UNCHANGED <<data, value, timer, mounted, told, late, cut>>

(***************************************************************************)
(* Time.                                                                   *)
(***************************************************************************)
GraceOver ==
  /\ timer
  /\ timer' = FALSE
  /\ loads' = IF mounted = {} /\ promise # NoLoad
                THEN [loads EXCEPT ![promise] = Aborted(promise)] ELSE loads
  /\ UNCHANGED <<data, value, at, error, promise, mounted, told, late, cut>>

\* The longest ttl that a component gives the key passes.
ExpireEntry ==
  /\ at = "fresh"
  /\ at' = "expired"
  /\ UNCHANGED <<data, value, error, promise, timer, mounted, loads, told, late, cut>>

(***************************************************************************)
(* Requests.                                                               *)
(***************************************************************************)
\* Something changes the org data.
Mutate ==
  /\ data < Newest
  /\ data' = data + 1
  /\ UNCHANGED <<value, at, error, promise, timer, mounted, loads, told, late, cut>>

\* The server reads the org for the request; its answer is now under way.
Answer(l) ==
  /\ loads[l].stage = "sent"
  /\ loads' = [loads EXCEPT ![l] =
                  ALoad("answered", data, loads[l].orphan, loads[l].overtaken)]
  /\ UNCHANGED <<data, value, at, error, promise, timer, mounted, told, late, cut>>

(* .then, .catch and .finally of load().  Those of an orphan write to an    *)
(* entry that is no longer in the map, and finally() only clears the fields *)
(* of the load that is still the entry's.                                   *)
Cleared(l) ==
  /\ promise' = IF promise = l THEN NoLoad ELSE promise
  /\ loads' = [loads EXCEPT ![l] = Free]

Resolve(l) ==
  /\ loads[l].stage = "answered"
  /\ Cleared(l)
  /\ IF loads[l].orphan
       THEN UNCHANGED <<value, at, error, late>>
       ELSE /\ value' = loads[l].snap
            /\ at' = "fresh"
            /\ error' = FALSE
            /\ late' = loads[l].overtaken
  /\ UNCHANGED <<data, timer, mounted, told, cut>>

Fail(l) ==
  /\ Live(l)
  /\ Cleared(l)
  /\ error' = IF loads[l].orphan THEN error ELSE TRUE
  /\ UNCHANGED <<data, value, at, timer, mounted, told, late, cut>>

\* finally() that keeps the promise.
AbortNeverSettles(l) ==
  /\ loads[l].stage = "aborted"
  /\ loads' = [loads EXCEPT ![l] = Free]
  /\ UNCHANGED <<data, value, at, error, promise, timer, mounted, told, late, cut>>

\* The rejection of an aborted request leaves no error.  It is a step of its
\* own: while the body is being read, fetch rejects through a later task.
AbortSettles(l) ==
  /\ loads[l].stage = "aborted"
  /\ Cleared(l)
  /\ UNCHANGED <<data, value, at, error, timer, mounted, told, late, cut>>

(***************************************************************************)
(* Whole-cache operations.                                                 *)
(***************************************************************************)
Overtaken == IF promise = NoLoad THEN loads
             ELSE LET p == loads[promise]
                  IN  [loads EXCEPT ![promise] = ALoad(p.stage, p.snap, p.orphan, TRUE)]

\* Only reloads what is mounted, and leaves the timestamp of the rest.
InvalidateMountedOnly ==
  /\ told' = data
  /\ IF mounted # {} /\ promise = NoLoad
       THEN Fetch /\ at' = "never"
       ELSE loads' = Overtaken /\ UNCHANGED <<at, promise, error>>
  /\ UNCHANGED <<data, value, timer, mounted, late, cut>>

(* invalidate(): after a mutation, or from the refresh command.             *)
InvalidateAll ==
  /\ at' = "never"
  /\ told' = data
  /\ IF mounted # {} /\ promise = NoLoad
       THEN Fetch
       ELSE loads' = Overtaken /\ UNCHANGED <<promise, error>>
  /\ UNCHANGED <<data, value, timer, mounted, late, cut>>

Reset ==
  /\ value' = 0
  /\ at' = "never"
  /\ timer' = (timer /\ mounted # {})
  /\ UNCHANGED <<data, mounted, told, late>>

ClearTo(stage) ==
  /\ error' = FALSE
  /\ loads' = [loads EXCEPT ![promise] =
                  ALoad(stage, loads[promise].snap, mounted = {}, loads[promise].overtaken)]
  /\ promise' = IF mounted = {} THEN NoLoad ELSE promise
  /\ cut' = (cut \/ mounted # {})

ClearIdle ==
  /\ promise = NoLoad
  /\ IF mounted # {} THEN Fetch ELSE error' = FALSE /\ UNCHANGED <<promise, loads>>
  /\ UNCHANGED cut

\* What is mounted is not loaded again.
ClearWithoutReload ==
  /\ Reset
  /\ error' = FALSE
  /\ UNCHANGED <<promise, loads, cut>>

(* clearResources() when another org is selected.  load() runs before the   *)
(* aborted promise has settled, so a mounted entry that was loading gets    *)
(* the aborted one back.                                                    *)
Clear ==
  /\ Reset
  /\ \/ ClearIdle
     \/ promise # NoLoad /\ ClearTo("aborted")

ResourceNext ==
  \/ \E c \in Components : Mount(c) \/ Unmount(c)
  \/ Refresh
  \/ GraceOver
  \/ ExpireEntry
  \/ Mutate
  \/ \E l \in Loads : Answer(l) \/ Resolve(l) \/ Fail(l) \/ AbortSettles(l)
  \/ InvalidateAll
  \/ Clear

(* The server answers every request or fails it (its commands time out),    *)
(* and the browser runs its tasks.  Users promise nothing.                  *)
ResourceFairness ==
  \A l \in Loads : /\ WF_resourceVars(Answer(l) \/ Fail(l))
                   /\ WF_resourceVars(Resolve(l) \/ Fail(l))
                   /\ WF_resourceVars(AbortSettles(l))

ResourceSpec == ResourceInit /\ [][ResourceNext]_resourceVars
ResourceFairSpec == ResourceSpec /\ ResourceFairness

(***************************************************************************)
(* Properties.                                                             *)
(***************************************************************************)
(* resource.ts:11 "concurrent subscribers to the same key await one         *)
(* request": the browser never has two requests for the key under way, not  *)
(* even after the entry was dropped and made again.                         *)
OneRequest == \A l, m \in Loads : Live(l) /\ Live(m) => l = m

(* resource.ts:13 A request under way has a component that waits for it, or *)
(* its abort is already scheduled: no org command runs on unwatched.        *)
WatchedOrEnding == \A l \in Loads : Live(l) => mounted # {} \/ timer

(* A component never shows data older than what it has shown, short of the  *)
(* cache being cleared: answers do not overtake each other.                 *)
NeverOlder == [][value' = 0 \/ value' >= value]_resourceVars

(* Data that counts as fresh was read from the org after the last           *)
(* invalidation, unless the load was under way when that came.              *)
FreshSinceUnlessLate == at = "fresh" /\ ~late => value >= told

(* While a component waits with nothing to show, a request is under way     *)
(* that will end its wait, unless the entry's load was aborted under it.    *)
PendingIsLoading ==
  mounted # {} /\ value = 0 /\ ~error /\ ~cut =>
    promise # NoLoad /\ Live(promise)

(* Every component that stays gets data or an error to show, with the same  *)
(* exception.                                                               *)
Served == value # 0 \/ error
EveryComponentServed ==
  \A c \in Components : (c \in mounted) ~> (Served \/ c \notin mounted \/ cut)

=============================================================================
