----------------------------- MODULE ReadCache -----------------------------
(***************************************************************************)
(* server/src/sf/cache.ts, for one key: a value is served while it is      *)
(* fresh, served and reloaded in the background while it is stale, and     *)
(* loaded otherwise; it may be persisted to a file that outlives the       *)
(* process.  Every `await` of the code is a point where another reader, an *)
(* invalidation or a file operation may run.                               *)
(*                                                                         *)
(* A value is the version of the org data it was loaded from.  Date.now()  *)
(* appears as ages, which Tick advances together and which saturate at     *)
(* MaxAge, where a value is beyond every window.                           *)
(***************************************************************************)
EXTENDS Integers, FiniteSets

CONSTANTS Readers,      \* calls of cached()
          Loads,        \* bound: loads running at once, a set of numbers
          Ttl, Stale,   \* options.ttlMs and options.staleMs, in ticks
          MaxVersion    \* bound: versions of the org data

ASSUME WindowAssumption == Ttl \in Nat \ {0} /\ Stale \in Nat
ASSUME LoadsAssumption == Loads \subseteq Nat \ {0}
ASSUME CacheBounds == MaxVersion \in Nat \ {0}

VARIABLES
  persist,    \* options.persist of the key
  entry,      \* the entry of the key in `entries`
  loads,      \* [Loads -> Free, 0 before the org is read, or the version read]
  background, \* the loads started by a stale read, which nobody awaits
  pc,         \* where each reader is
  on,         \* the load a waiting reader awaits
  got,        \* the value a reader was answered
  copyFile,   \* the persisted file
  ops,        \* file operations started and not finished
  pruning,    \* pruneDiskCache() has yet to look at the file
  org,        \* current version of the org data
  barrier,    \* version of the org at the last invalidation
  loadedAge   \* [version -> age of the latest load that returned it]

cacheVars == <<persist, entry, loads, background, pc, on, got, copyFile, ops,
               pruning, org, barrier, loadedAge>>
readers == <<pc, on, got>>
files == <<copyFile, ops, pruning>>
ghosts == <<barrier, loadedAge>>

Free == -1
MaxAge == Ttl + Stale + 1
Ages == 0 .. MaxAge
Versions == 1 .. MaxVersion

\* `load` is the promise parked in inFlight (0: none); val = 0 is the
\* placeholder of a key that has never loaded, with storedAt: 0.
Entry == [here : BOOLEAN, val : 0 .. MaxVersion, age : Ages,
          load : Loads \cup {0}, reval : BOOLEAN]
Absent == [here |-> FALSE, val |-> 0, age |-> MaxAge, load |-> 0, reval |-> FALSE]
Placeholder == [Absent EXCEPT !.here = TRUE]

NoFile == [kind |-> "none", val |-> 0, age |-> MaxAge]
TornFile == [kind |-> "torn", val |-> 0, age |-> MaxAge]
File == {NoFile, TornFile} \cup [kind : {"copy"}, val : Versions, age : Ages]
Op == [kind : {"write", "rm"}, val : 0 .. MaxVersion, age : Ages, begun : BOOLEAN]

PCs == {"idle", "hydrating", "waiting", "answered", "failed", "gone"}

CacheTypeOK ==
  /\ persist \in BOOLEAN
  /\ entry \in Entry
  /\ loads \in [Loads -> Free .. MaxVersion]
  /\ background \subseteq Loads
  /\ pc \in [Readers -> PCs]
  /\ on \in [Readers -> Loads \cup {0}]
  /\ got \in [Readers -> 0 .. MaxVersion]
  /\ copyFile \in File
  /\ ops \subseteq Op
  /\ pruning \in BOOLEAN
  /\ org \in Versions
  /\ barrier \in 0 .. MaxVersion
  /\ loadedAge \in [Versions -> Ages]

CacheInit ==
  /\ persist \in BOOLEAN
  /\ entry = Absent
  /\ loads = [l \in Loads |-> Free]
  /\ background = {}
  /\ pc = [r \in Readers |-> "idle"]
  /\ on = [r \in Readers |-> 0]
  /\ got = [r \in Readers |-> 0]
  /\ copyFile = NoFile
  /\ ops = {}
  /\ pruning = TRUE
  /\ org = 1
  /\ barrier = 0
  /\ loadedAge = [v \in Versions |-> MaxAge]

-----------------------------------------------------------------------------
(* cached().                                                               *)

FreshAge(a) == a < Ttl
StaleAge(a) == a >= Ttl /\ a < Ttl + Stale

Answer(r, v) ==
  /\ pc' = [pc EXCEPT ![r] = "answered"]
  /\ got' = [got EXCEPT ![r] = v]
  /\ UNCHANGED on

Await(r, l) ==
  /\ pc' = [pc EXCEPT ![r] = "waiting"]
  /\ on' = [on EXCEPT ![r] = l]
  /\ UNCHANGED got

\* run() when nothing is in flight on the entry `cur` of the map: start a load
\* and park its promise there, on a placeholder if the map has no entry.
StartLoad(l, cur, behind) ==
  /\ loads[l] = Free
  /\ \A m \in Loads : loads[m] = Free => l <= m
  /\ loads' = [loads EXCEPT ![l] = 0]
  /\ background' = IF behind THEN background \cup {l} ELSE background
  /\ entry' = [(IF cur.here THEN cur ELSE Placeholder)
                 EXCEPT !.load = l, !.reval = behind \/ @]

\* Mutant: run() does not look for a load in flight.
NobodyLoads(cur) == FALSE

InFlight(cur) == cur.load # 0

\* The rest of cached(), for a reader that holds e while the map holds cur.
Serve(r, e, cur) ==
  \/ /\ e.here /\ (FreshAge(e.age) \/ (StaleAge(e.age) /\ (e.load # 0 \/ e.reval)))
     /\ Answer(r, e.val)
     /\ entry' = cur
     /\ UNCHANGED <<loads, background>>
  \/ /\ e.here /\ StaleAge(e.age) /\ e.load = 0 /\ ~e.reval
     /\ Answer(r, e.val)
     /\ \E l \in Loads : StartLoad(l, cur, TRUE)
  \/ /\ ~(e.here /\ (FreshAge(e.age) \/ StaleAge(e.age)))
     /\ IF InFlight(cur)
          THEN /\ Await(r, cur.load)
               /\ entry' = cur
               /\ UNCHANGED <<loads, background>>
          ELSE \E l \in Loads : Await(r, l) /\ StartLoad(l, cur, FALSE)

\* A call: straight to the entry in memory, or first to the file.
Read(r) ==
  /\ pc[r] = "idle"
  /\ IF ~entry.here /\ persist
       THEN /\ pc' = [pc EXCEPT ![r] = "hydrating"]
            /\ UNCHANGED <<entry, loads, background, on, got>>
       ELSE Serve(r, entry, entry)
  /\ UNCHANGED <<files, org, ghosts>>

\* Mutant: a hydrated value counts as stored now.
HydrateRejuvenated(r) ==
  /\ pc[r] = "hydrating"
  /\ IF copyFile.kind = "copy" /\ copyFile.age <= Ttl + Stale
       THEN LET h == [Placeholder EXCEPT !.val = copyFile.val, !.age = 0]
            IN Serve(r, h, h)
       ELSE Serve(r, Absent, entry)
  /\ UNCHANGED <<files, org, ghosts>>

\* hydrate(): the file has been read.  A usable copy becomes the entry of the
\* map, over whatever the map holds by now; a torn or expired one is a miss.
Hydrate(r) ==
  /\ pc[r] = "hydrating"
  /\ IF copyFile.kind = "copy" /\ copyFile.age <= Ttl + Stale
       THEN LET h == [Placeholder EXCEPT !.val = copyFile.val, !.age = copyFile.age]
            IN Serve(r, h, h)
       ELSE Serve(r, Absent, entry)
  /\ UNCHANGED <<files, org, ghosts>>

-----------------------------------------------------------------------------
(* Loads.                                                                  *)

\* Somewhere between the start and the end of a load, the org is read.
LoadReads(l) ==
  /\ loads[l] = 0
  /\ loads' = [loads EXCEPT ![l] = org]
  /\ UNCHANGED <<entry, background, readers, files, org, ghosts>>

Finish(l, outcome) ==
  /\ pc' = [r \in Readers |-> IF pc[r] = "waiting" /\ on[r] = l THEN outcome ELSE pc[r]]
  /\ got' = [r \in Readers |-> IF pc[r] = "waiting" /\ on[r] = l /\ outcome = "answered"
                                 THEN loads[l] ELSE got[r]]
  /\ on' = [r \in Readers |-> IF on[r] = l THEN 0 ELSE on[r]]
  /\ loads' = [loads EXCEPT ![l] = Free]
  /\ background' = background \ {l}

\* The value replaces the entry of the map, whoever put it there, and is
\* written to disk behind the response.
LoadOk(l) ==
  /\ loads[l] \in Versions
  /\ Finish(l, "answered")
  /\ entry' = [here |-> TRUE, val |-> loads[l], age |-> 0, load |-> 0, reval |-> FALSE]
  /\ ops' = IF persist
              THEN ops \cup {[kind |-> "write", val |-> loads[l], age |-> 0, begun |-> FALSE]}
              ELSE ops
  /\ loadedAge' = [loadedAge EXCEPT ![loads[l]] = 0]
  /\ UNCHANGED <<copyFile, pruning, org, barrier>>

\* Mutant: a failed load leaves its promise parked.
LoadErrStaysParked(l) ==
  /\ loads[l] # Free
  /\ Finish(l, "failed")
  /\ UNCHANGED <<entry, files, org, ghosts>>

\* Mutant: a failed load leaves the flag of its entry set.
LoadErrKeepsFlag(l) ==
  /\ loads[l] # Free
  /\ Finish(l, "failed")
  /\ entry' = [entry EXCEPT !.load = IF @ = l THEN 0 ELSE @]
  /\ UNCHANGED <<files, org, ghosts>>

\* A failed load clears its promise if the entry still holds it; the catch of
\* a background load clears the flag of whatever entry is there.
LoadErr(l) ==
  /\ loads[l] # Free
  /\ Finish(l, "failed")
  /\ entry' = [entry EXCEPT
       !.load = IF @ = l THEN 0 ELSE @,
       !.reval = IF entry.load = l \/ (entry.here /\ l \in background) THEN FALSE ELSE @]
  /\ UNCHANGED <<files, org, ghosts>>

-----------------------------------------------------------------------------
(* Invalidation, files, restarts, time and the org.                        *)

\* invalidateCache(): the entry goes, and its file behind the caller's back.
\* A key with no entry in memory is not matched, so its file stays.
Invalidate ==
  /\ entry' = Absent
  /\ barrier' = org
  /\ ops' = IF entry.here /\ persist
              THEN ops \cup {[kind |-> "rm", val |-> 0, age |-> 0, begun |-> FALSE]} ELSE ops
  /\ UNCHANGED <<loads, background, readers, copyFile, pruning, org, loadedAge>>

\* writeFile() truncates the file, then fills it.
BeginWrite(op) ==
  /\ op.kind = "write" /\ ~op.begun
  /\ copyFile' = TornFile
  /\ ops' = (ops \ {op}) \cup {[op EXCEPT !.begun = TRUE]}
  /\ UNCHANGED pruning

\* Two writes that overlap may leave a mixture, which does not parse.
EndWrite(op) ==
  /\ op.kind = "write" /\ op.begun
  /\ \/ copyFile' = [kind |-> "copy", val |-> op.val, age |-> op.age]
     \/ (\E o \in ops \ {op} : o.begun) /\ copyFile' = TornFile
  /\ ops' = ops \ {op}
  /\ UNCHANGED pruning

EndRemove(op) ==
  /\ op.kind = "rm"
  /\ copyFile' = NoFile
  /\ ops' = ops \ {op}
  /\ UNCHANGED pruning

\* pruneDiskCache() removes what does not parse and what is too old.
Prune ==
  /\ pruning
  /\ pruning' = FALSE
  /\ copyFile' = IF copyFile = TornFile \/ copyFile.age = MaxAge THEN NoFile ELSE copyFile
  /\ UNCHANGED ops

FileStep ==
  /\ \/ \E op \in ops : BeginWrite(op) \/ EndWrite(op) \/ EndRemove(op)
     \/ Prune
  /\ UNCHANGED <<entry, loads, background, readers, org, ghosts>>

\* The process ends, and the next one starts with nothing but the file.
Restart ==
  /\ entry' = Absent
  /\ loads' = [l \in Loads |-> Free]
  /\ background' = {}
  /\ pc' = [r \in Readers |-> IF pc[r] \in {"hydrating", "waiting"} THEN "gone" ELSE pc[r]]
  /\ on' = [r \in Readers |-> 0]
  /\ ops' = {}
  /\ pruning' = TRUE
  /\ UNCHANGED <<got, copyFile, org, ghosts>>

Older(a) == IF a < MaxAge THEN a + 1 ELSE a

Tick ==
  /\ entry' = [entry EXCEPT !.age = Older(@)]
  /\ copyFile' = [copyFile EXCEPT !.age = Older(@)]
  /\ ops' = {[op EXCEPT !.age = Older(@)] : op \in ops}
  /\ loadedAge' = [v \in Versions |-> Older(loadedAge[v])]
  /\ UNCHANGED <<loads, background, readers, pruning, org, barrier>>

Change ==
  /\ org < MaxVersion
  /\ org' = org + 1
  /\ UNCHANGED <<entry, loads, background, readers, files, ghosts>>

LoadNext(l) == LoadReads(l) \/ LoadOk(l) \/ LoadErr(l)

CacheNext ==
  /\ \/ \E r \in Readers : Read(r) \/ Hydrate(r)
     \/ \E l \in Loads : LoadNext(l)
     \/ Invalidate \/ FileStep \/ Restart \/ Tick \/ Change
  /\ UNCHANGED persist

CacheSpec == CacheInit /\ [][CacheNext]_cacheVars

\* File reads are answered, and a load ends: both of its transports (the API
\* client and the CLI runner) arm a timer.
CacheFairSpec ==
  /\ CacheSpec
  /\ \A r \in Readers : WF_cacheVars(Hydrate(r) /\ UNCHANGED persist)
  /\ \A l \in Loads : WF_cacheVars(LoadNext(l) /\ UNCHANGED persist)

-----------------------------------------------------------------------------
(* Properties.                                                             *)

\* Whoever waits, waits for a load that runs, and a promise parked on the entry
\* is running: nobody joins a load that is over.
JoinsLive ==
  /\ \A r \in Readers : pc[r] = "waiting" => on[r] # 0 /\ loads[on[r]] # Free
  /\ entry.load # 0 => loads[entry.load] # Free

\* A key never stops revalidating: the flag that suppresses a background reload
\* is set only while a load is parked on the entry.
NoStuckRevalidation == entry.reval => entry.load # 0

\* No reader is answered, at once, with a value stored longer ago than the TTL
\* and the stale window together, not even across a restart.
ServedWithinWindow ==
  [][\A r \in Readers :
       pc[r] # "answered" /\ pc'[r] = "answered"
         => loadedAge'[got'[r]] < Ttl + Stale]_cacheVars

\* A key that is not persisted and has not been invalidated.
Plain == ~persist /\ barrier = 0

\* "`load` is only ever running once per key at a time" (cache.ts:91), for a
\* plain key.
SingleFlightPlain == Plain => Cardinality({l \in Loads : loads[l] # Free}) <= 1

\* What the entry and its readers take for a load is one that runs, which holds
\* together: joined, parked, flagged, and only one of a plain key.
LoadsAreLive == CacheTypeOK /\ JoinsLive /\ NoStuckRevalidation /\ SingleFlightPlain

\* Two answers never go back in time, for a plain key.
AnswersMonotone ==
  [][\A r, q \in Readers :
       Plain' /\ pc[r] = "answered" /\ pc[q] # "answered" /\ pc'[q] = "answered"
         => got'[q] >= got[r]]_cacheVars

\* Every reader is answered, fails, or loses its process.
EveryReadEnds ==
  \A r \in Readers : (pc[r] # "idle") ~> (pc[r] \in {"answered", "failed", "gone"})
=============================================================================
