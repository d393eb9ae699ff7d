----------------------------- MODULE OrgDeploy ------------------------------
(***************************************************************************)
(* Deployment of one org's metadata to another: the handlers of            *)
(* server/src/routes/orgDeploy.ts over the algorithms of CompareScope.     *)
(*                                                                         *)
(* A comparison retrieves the selected metadata of both orgs into a        *)
(* directory of its own. At most MaxComparisons are kept; the directory of *)
(* an evicted one is removed entry by entry while handlers that looked it  *)
(* up earlier go on reading it. A deployment copies the chosen components  *)
(* into a scope directory, inside the comparison's, and hands that to the  *)
(* CLI; the org runs the job later. The record of the job is made when the *)
(* CLI has answered, in memory; the state file has it a while later.       *)
(* Contents are version numbers, zero for a file that does not exist.      *)
(***************************************************************************)
EXTENDS CompareScope, FiniteSets

CONSTANTS Comparisons,     \* calls of compare
          Ops,             \* calls of diff, preview and deploy
          MaxComparisons,  \* MAX_COMPARISONS
          MaxRecords,      \* length of the history
          TypeDirMap,      \* from directories to types, as the org reports it
          Requests,        \* selections a user asks to compare
          SourceFiles,     \* what the source org holds at first
          TargetFiles,     \* what the target org holds at first
          MaxVersion,      \* bound: versions of a file
          MaxRestarts,     \* bound: restarts of the server
          None             \* no deployment yet; the operation of an older record

ASSUME CapAssumption == MaxComparisons \in Nat \ {0} /\ MaxRecords \in Nat \ {0}
ASSUME VersionAssumption == MaxVersion \in Nat \ {0}
ASSUME NoneAssumption == None \notin Ops

VARIABLES
  target,     \* the target org
  sandbox,    \* whether the target is a sandbox
  cmp,        \* progress and result of each comparison
  dirs,       \* files left in the source and target directory of each
  table,      \* comparisons, oldest first
  removing,   \* comparisons whose directory is being removed
  op,         \* progress of each diff, preview or deployment
  absent,     \* what a diff has reported as missing in an org
  scopeDir,   \* what is left of a scope directory the CLI has still to read
  job,        \* the job a deployment has given the org
  history,    \* state.orgDeploys, newest first
  saved,      \* the history in the state file
  latest,     \* the last deployment that was answered
  lost,       \* deployments whose answer, or unsaved record, was lost
  restarts    \* bounded by MaxRestarts

vars == <<target, sandbox, cmp, dirs, table, removing, op, absent, scopeDir,
          job, history, saved, latest, lost, restarts>>
orgVars == <<target, sandbox>>
cmpVars == <<cmp, dirs, table, removing>>
jobVars == <<job, history, saved, latest, lost>>

Files == DOMAIN SourceFiles
Org == [Files -> 0 .. MaxVersion]
Manifest == <<Unpackaged, PackageXml>>

(* Both orgs are listed over the same files; the manifest is not a file of *)
(* an org but one that the retrieval adds.                                 *)
ASSUME OrgAssumption ==
  /\ SourceFiles \in Org /\ TargetFiles \in Org
  /\ \A f \in Files : ~IsRootManifest(f)

NoCopy == [f \in {} |-> 0]
NoScope == [files |-> {}, members |-> {}, deletions |-> {}, manifest |-> FALSE]
NoJob == [state |-> "none", args |-> [command |-> "none"], scope |-> NoScope]

CmpStages == {"idle", "source", "target", "list", "done", "failed"}
OpStages == {"idle", "diff", "preview", "scope", "display", "submit", "answer",
             "done", "failed"}
Ended == {"done", "failed"}

InHistory(o) == \E i \in DOMAIN history : history[i].op = o
InSaved(o) == \E i \in DOMAIN saved : saved[i].op = o
Row(c, key) == CHOOSE r \in cmp[c].rows : r.key = key
InTable(c) == \E i \in DOMAIN table : table[i] = c

TypeOK ==
  /\ target \in Org /\ sandbox \in BOOLEAN
  /\ \A c \in Comparisons :
       /\ cmp[c].stage \in CmpStages
       /\ dirs[c].source \subseteq DOMAIN cmp[c].sourceCopy
       /\ dirs[c].target \subseteq DOMAIN cmp[c].targetCopy
  /\ removing \subseteq Comparisons
  /\ \A o \in Ops :
       /\ op[o].stage \in OpStages
       /\ op[o].stage # "idle" => op[o].on \in Comparisons
       /\ job[o].state \in {"none", "queued", "succeeded", "failed"}
  /\ \A h \in {history, saved} :
       /\ h \in [1 .. Len(h) -> [op : Ops \cup {None},
                                 status : {"running", "succeeded", "failed"}]]
       /\ Len(h) <= MaxRecords
  /\ latest \in Ops \cup {None}
  /\ lost \subseteq Ops

Init ==
  /\ target = TargetFiles
  /\ sandbox \in BOOLEAN
  /\ cmp = [c \in Comparisons |->
              [stage |-> "idle", selections |-> <<>>, available |-> FALSE,
               sourceCopy |-> NoCopy, targetCopy |-> NoCopy, rows |-> {}]]
  /\ dirs = [c \in Comparisons |-> [source |-> {}, target |-> {}]]
  /\ table = <<>>
  /\ removing = {}
  /\ op = [o \in Ops |-> [stage |-> "idle"]]
  /\ absent = [o \in Ops |-> {}]
  /\ scopeDir = [o \in Ops |-> NoScope]
  /\ job = [o \in Ops |-> NoJob]
  /\ history \in {<<>>} \cup {[i \in 1 .. MaxRecords |-> [op |-> None, status |-> "succeeded"]]}
  /\ saved = history
  /\ latest = None
  /\ lost = {}
  /\ restarts = 0

-----------------------------------------------------------------------------
(* Comparisons.                                                            *)

Retrieved(org, selections) ==
  LET Wanted(f) == LET c == ComponentOf(f, TypeDirMap)
                   IN  \E i \in DOMAIN selections :
                         /\ selections[i].type = c.type
                         /\ {Wildcard, c.fullName} \cap selections[i].members # {}
  IN  [f \in {g \in Files : org[g] # 0 /\ Wanted(g)} \cup {Manifest} |->
         IF f = Manifest THEN 1 ELSE org[f]]

Compare(c, selections) ==
  /\ cmp[c].stage = "idle"
  /\ cmp' = [cmp EXCEPT ![c].stage = "source",
                        ![c].selections = IncludeFieldLevelSecurity(selections)]
  /\ UNCHANGED <<orgVars, dirs, table, removing, op, absent, scopeDir, jobVars, restarts>>

RetrieveSource(c) ==
  /\ cmp[c].stage = "source"
  /\ LET copy == Retrieved(SourceFiles, cmp[c].selections)
     IN  /\ cmp' = [cmp EXCEPT ![c].stage = "target", ![c].sourceCopy = copy]
         /\ dirs' = [dirs EXCEPT ![c].source = DOMAIN copy]
  /\ UNCHANGED <<orgVars, table, removing, op, absent, scopeDir, jobVars, restarts>>

(* The target may be out of reach; the comparison goes on without it.      *)
RetrieveTarget(c) ==
  /\ cmp[c].stage = "target"
  /\ LET copy == Retrieved(target, cmp[c].selections)
     IN  \/ /\ cmp' = [cmp EXCEPT ![c].stage = "list", ![c].available = TRUE,
                                  ![c].targetCopy = copy]
            /\ dirs' = [dirs EXCEPT ![c].target = DOMAIN copy]
         \/ /\ cmp' = [cmp EXCEPT ![c].stage = "list"]
            /\ UNCHANGED dirs
  /\ UNCHANGED <<orgVars, table, removing, op, absent, scopeDir, jobVars, restarts>>

(* storeComparison() evicts from the front and starts the removal.         *)
Evicted(t) == {t[i] : i \in 1 .. Len(t) - MaxComparisons}
Kept(t) == IF Len(t) > MaxComparisons
           THEN SubSeq(t, Len(t) - MaxComparisons + 1, Len(t)) ELSE t

StoreButRemoveNewest(c) ==
  LET t == Append(table, c)
  IN  /\ table' = Kept(t)
      /\ removing' = removing \cup (IF Len(t) > MaxComparisons THEN {c} ELSE {})

StoreComparison(c) ==
  LET t == Append(table, c)
  IN  /\ table' = Kept(t)
      /\ removing' = removing \cup Evicted(t)

Rows(c) ==
  LET sourceGroups == GroupMetadataFiles(DOMAIN cmp[c].sourceCopy, TypeDirMap)
      targetGroups == GroupMetadataFiles(DOMAIN cmp[c].targetCopy, TypeDirMap)
  IN  CompareComponentGroups(sourceGroups, targetGroups,
        HashGroups(sourceGroups, cmp[c].sourceCopy),
        HashGroups(targetGroups, cmp[c].targetCopy), cmp[c].available)

FinishCompare(c) ==
  /\ cmp[c].stage = "list"
  /\ cmp' = [cmp EXCEPT ![c].stage = "done", ![c].rows = Rows(c)]
  /\ StoreComparison(c)
  /\ UNCHANGED <<orgVars, dirs, op, absent, scopeDir, jobVars, restarts>>

(* The source retrieval or the list of types fails.                        *)
FailCompare(c) ==
  /\ cmp[c].stage \in {"source", "list"}
  /\ cmp' = [cmp EXCEPT ![c].stage = "failed"]
  /\ UNCHANGED <<orgVars, dirs, table, removing, op, absent, scopeDir, jobVars, restarts>>

-----------------------------------------------------------------------------
(* Requests on a comparison. The handler looks it up, then awaits.         *)

RowKeys(c) == {r.key : r \in cmp[c].rows}
Deletable(c) == {r.key : r \in {x \in cmp[c].rows : x.status = "missing-source"}}

(* A user takes every component of the source, one that is not a profile,  *)
(* or none, with or without the deletions.                                 *)
Picks(c) ==
  LET ofSource == {x \in cmp[c].rows : x.sourceExists}
      single == {x \in ofSource : x.type \notin SecurityTypes}
  IN  {Keys(ofSource), {}} \cup {{r.key} : r \in single}

Start(o, c, stage, keys, destructiveKeys, mode) ==
  op' = [op EXCEPT ![o] = [stage |-> stage, on |-> c, keys |-> keys,
                           destructive |-> destructiveKeys, mode |-> mode]]
Move(o, stage) == op' = [op EXCEPT ![o].stage = stage]
FilesOf(o) == UNION {Row(op[o].on, k).files : k \in op[o].keys}
Fail(o) == Start(o, op[o].on, "failed", {}, {}, "validate")

(* The comparison has expired, the target org is another one, the row is   *)
(* unknown or nothing is selected: the request fails and changes nothing.  *)
Reject(o, c) ==
  /\ op[o].stage = "idle" /\ cmp[c].stage = "done"
  /\ Start(o, c, "failed", {}, {}, "validate")
  /\ UNCHANGED <<orgVars, cmpVars, absent, scopeDir, jobVars, restarts>>

AskDiff(o, c, key) ==
  /\ op[o].stage = "idle" /\ InTable(c)
  /\ key \in RowKeys(c)
  /\ Start(o, c, "diff", {key}, {}, "validate")
  /\ UNCHANGED <<orgVars, cmpVars, absent, scopeDir, jobVars, restarts>>

(* Keys that no row has are dropped, and so are deletions of rows that the *)
(* source has.                                                             *)
SelectedKeys(c, keys, destructiveKeys) ==
  IncludeRequiredFieldSecurityKeys(cmp[c].rows,
    (keys \cap RowKeys(c)) \cup (destructiveKeys \cap Deletable(c)))

AskPackage(o, c, stage, keys, destructiveKeys, mode) ==
  LET selected == SelectedKeys(c, keys, destructiveKeys)
  IN  /\ op[o].stage = "idle" /\ InTable(c)
      /\ selected # {}
      /\ Start(o, c, stage, selected, destructiveKeys \cap Deletable(c), mode)
      /\ UNCHANGED <<orgVars, cmpVars, absent, scopeDir, jobVars, restarts>>

AskPreview(o, c, keys, destructiveKeys) ==
  AskPackage(o, c, "preview", keys, destructiveKeys, "validate")

AskDeploy(o, c, keys, destructiveKeys, mode) ==
  AskPackage(o, c, "scope", keys, destructiveKeys, mode)

(* A file that cannot be read counts as one the org does not have.         *)
MissingInBoth(o) ==
  LET left == dirs[op[o].on]
  IN  ({"source"} \X (FilesOf(o) \ left.source))
      \cup ({"target"} \X (FilesOf(o) \ left.target))

Missing(o) ==
  LET left == dirs[op[o].on]
  IN  ({"source"} \X (FilesOf(o) \ left.source))
      \cup (IF cmp[op[o].on].available
            THEN {"target"} \X (FilesOf(o) \ left.target) ELSE {})

ReadDiff(o) ==
  /\ op[o].stage = "diff"
  /\ absent' = [absent EXCEPT ![o] = Missing(o)]
  /\ Move(o, "done")
  /\ UNCHANGED <<orgVars, cmpVars, scopeDir, jobVars, restarts>>

CanBuild(o) ==
  CanBuildDeployScope(dirs[op[o].on].source, cmp[op[o].on].rows, op[o].keys,
                      op[o].destructive)
Scope(o) ==
  LET c == op[o].on
      s == BuildDeployScope(cmp[c].sourceCopy, cmp[c].rows, op[o].keys,
                            op[o].destructive)
  IN  [files |-> s.files, members |-> s.members, deletions |-> s.deletions,
       manifest |-> TRUE]

(* The preview's own scope directory is read back at once.                 *)
BuildPreview(o) ==
  /\ op[o].stage = "preview"
  /\ \/ CanBuild(o) /\ Move(o, "done")
     \/ (~CanBuild(o) \/ op[o].on \in removing) /\ Fail(o)
  /\ UNCHANGED <<orgVars, cmpVars, absent, scopeDir, jobVars, restarts>>

BuildScope(o) ==
  /\ op[o].stage = "scope"
  /\ IF CanBuild(o)
     THEN /\ scopeDir' = [scopeDir EXCEPT ![o] = Scope(o)]
          /\ Move(o, IF op[o].mode = "validate" THEN "display" ELSE "submit")
     ELSE Fail(o) /\ UNCHANGED scopeDir
  /\ UNCHANGED <<orgVars, cmpVars, absent, jobVars, restarts>>

(* `org display` tells whether the target is a sandbox. The command, or    *)
(* the one that submits the job, may fail.                                 *)
Display(o) ==
  /\ op[o].stage = "display"
  /\ Move(o, "submit")
  /\ UNCHANGED <<orgVars, cmpVars, absent, scopeDir, jobVars, restarts>>

CommandFails(o) ==
  /\ op[o].stage \in {"display", "submit"}
  /\ Fail(o)
  /\ scopeDir' = [scopeDir EXCEPT ![o] = NoScope]
  /\ UNCHANGED <<orgVars, cmpVars, absent, jobVars, restarts>>

(* The CLI packs what the scope directory holds and hands it to the org.   *)
Submit(o, testLevel) ==
  /\ op[o].stage = "submit"
  /\ scopeDir[o].manifest
  /\ LET targetIsSandbox == op[o].mode = "validate" /\ sandbox
     IN  job' = [job EXCEPT ![o] =
           [state |-> "queued", scope |-> scopeDir[o],
            args |-> BuildDeployArgs(op[o].mode, testLevel, targetIsSandbox)]]
  /\ Move(o, "answer")
  /\ scopeDir' = [scopeDir EXCEPT ![o] = NoScope]
  /\ UNCHANGED <<orgVars, cmpVars, absent, history, saved, latest, lost, restarts>>

(* The job's id arrives: the record goes to the front of the history.      *)
RecordAtTheEnd(o) ==
  history' = SubSeq(history \o <<[op |-> o, status |-> "running"]>>, 1,
                    IF Len(history) < MaxRecords THEN Len(history) + 1 ELSE MaxRecords)

Record(o) ==
  LET longer == <<[op |-> o, status |-> "running"]>> \o history
  IN  history' = SubSeq(longer, 1, IF Len(longer) < MaxRecords
                                   THEN Len(longer) ELSE MaxRecords)

Answer(o) ==
  /\ op[o].stage = "answer"
  /\ Record(o)
  /\ latest' = o
  /\ Move(o, "done")
  /\ UNCHANGED <<orgVars, cmpVars, absent, scopeDir, job, saved, lost, restarts>>

(* The CLI is killed by its timeout, or fails, after the org has accepted  *)
(* the job.                                                                *)
AnswerLost(o) ==
  /\ op[o].stage = "answer"
  /\ lost' = lost \cup {o}
  /\ Move(o, "failed")
  /\ UNCHANGED <<orgVars, cmpVars, absent, scopeDir, job, history, saved, latest, restarts>>

(* PATCH of a record, by the client that has read the job's report.        *)
PatchHistory(o) ==
  /\ job[o].state \in {"succeeded", "failed"}
  /\ history' = [i \in DOMAIN history |->
                   IF history[i].op = o THEN [op |-> o, status |-> job[o].state]
                   ELSE history[i]]
  /\ UNCHANGED <<orgVars, cmpVars, op, absent, scopeDir, job, saved, latest, lost, restarts>>

-----------------------------------------------------------------------------
(* rm() of a directory: an entry that a handler has still to read, then,   *)
(* later, all the others. What tells handlers apart is whether anything    *)
(* they need is missing.                                                   *)
Reading(o, c) == op[o].stage \in {"diff", "preview", "scope"} /\ op[o].on = c
RemoveSome(c) ==
  /\ c \in removing
  /\ \/ /\ \E o \in Ops : Reading(o, c) /\
             \E f \in FilesOf(o) :
               \/ /\ f \in dirs[c].source /\ dirs[c].source = DOMAIN cmp[c].sourceCopy
                  /\ dirs' = [dirs EXCEPT ![c].source = @ \ {f}]
               \/ /\ f \in dirs[c].target /\ dirs[c].target = DOMAIN cmp[c].targetCopy
                  /\ dirs' = [dirs EXCEPT ![c].target = @ \ {f}]
        /\ UNCHANGED scopeDir
     \/ /\ \E o \in Ops :
             /\ op[o].stage \in {"display", "submit"}
             /\ op[o].on = c
             /\ scopeDir[o] = Scope(o)
             /\ \/ \E f \in scopeDir[o].files :
                     scopeDir' = [scopeDir EXCEPT ![o].files = @ \ {f}]
                \/ scopeDir' = [scopeDir EXCEPT ![o].manifest = FALSE]
                \/ /\ scopeDir[o].deletions # {}
                   /\ scopeDir' = [scopeDir EXCEPT ![o].deletions = {}]
        /\ UNCHANGED dirs
  /\ UNCHANGED <<orgVars, cmp, table, removing, op, absent, jobVars, restarts>>

RemoveRest(c) ==
  /\ c \in removing
  /\ removing' = removing \ {c}
  /\ dirs' = [dirs EXCEPT ![c] = [source |-> {}, target |-> {}]]
  /\ scopeDir' = [o \in Ops |-> IF op[o].stage # "idle" /\ op[o].on = c
                                THEN NoScope ELSE scopeDir[o]]
  /\ UNCHANGED <<orgVars, cmp, table, op, absent, jobVars, restarts>>

(* A flush of the state file (module StateStore): the debounce, a signal,  *)
(* or nothing ever.                                                        *)
Save ==
  /\ saved # history
  /\ saved' = history
  /\ UNCHANGED <<orgVars, cmpVars, op, absent, scopeDir, job, history, latest, lost, restarts>>

(* The comparisons are in memory, and so is what was not saved: a crash or *)
(* a quit of the desktop shell does not wait for the debounce.             *)
Restart ==
  /\ restarts < MaxRestarts
  /\ restarts' = restarts + 1
  /\ table' = <<>>
  /\ removing' = {}
  /\ cmp' = [c \in Comparisons |->
               IF cmp[c].stage \in Ended \cup {"idle"} THEN cmp[c]
               ELSE [cmp[c] EXCEPT !.stage = "failed"]]
  /\ op' = [o \in Ops |-> IF op[o].stage \in Ended \cup {"idle"} THEN op[o]
                          ELSE [op[o] EXCEPT !.stage = "failed"]]
  /\ history' = saved
  /\ lost' = lost \cup {o \in Ops : job[o].state # "none" /\ ~InSaved(o)}
  /\ UNCHANGED <<orgVars, dirs, absent, scopeDir, job, saved, latest>>

-----------------------------------------------------------------------------
(* The target org.                                                         *)

(* A package with a component that has no file is refused.                 *)
IsComplete(scope) ==
  \A f \in Files :
    LET c == ComponentOf(f, TypeDirMap)
    IN  [type |-> c.type, fullName |-> c.fullName] \in scope.members =>
          \E s \in scope.files :
            LET d == ComponentOf(s.path, TypeDirMap) IN d.key = c.key

Applied(scope) ==
  [f \in Files |->
     LET c == ComponentOf(f, TypeDirMap)
         new == {s \in scope.files : s.path = StripUnpackagedWrapper(f)}
     IN  IF new # {} THEN (CHOOSE s \in new : TRUE).content
         ELSE IF [type |-> c.type, fullName |-> c.fullName] \in scope.deletions
         THEN 0 ELSE target[f]]

JobSucceeds(o) ==
  /\ job[o].state = "queued"
  /\ IsComplete(job[o].scope)
  /\ job' = [job EXCEPT ![o].state = "succeeded"]
  /\ target' = IF Commits(job[o].args) THEN Applied(job[o].scope) ELSE target
  /\ UNCHANGED <<sandbox, cmpVars, op, absent, scopeDir, history, saved, latest, lost, restarts>>

(* Errors of components or tests, or a cancellation.                       *)
JobFails(o) ==
  /\ job[o].state = "queued"
  /\ job' = [job EXCEPT ![o].state = "failed"]
  /\ UNCHANGED <<orgVars, cmpVars, op, absent, scopeDir, history, saved, latest, lost, restarts>>

-----------------------------------------------------------------------------
Handler(o) ==
  \/ ReadDiff(o) \/ BuildPreview(o) \/ BuildScope(o) \/ Display(o)
  \/ CommandFails(o)
  \/ \E testLevel \in TestLevels : Submit(o, testLevel)
  \/ Answer(o) \/ AnswerLost(o)

Comparing(c) ==
  RetrieveSource(c) \/ RetrieveTarget(c) \/ FinishCompare(c) \/ FailCompare(c)

Next ==
  \/ \E c \in Comparisons :
       \/ \E selections \in Requests : Compare(c, selections)
       \/ Comparing(c)
       \/ RemoveSome(c) \/ RemoveRest(c)
  \/ \E o \in Ops, c \in Comparisons :
       \/ Reject(o, c)
       \/ \E key \in RowKeys(c) : AskDiff(o, c, key)
       \/ \E keys \in Picks(c), destructiveKeys \in {{}, Deletable(c)} :
            \/ AskPreview(o, c, keys, destructiveKeys)
            \/ \E mode \in {"validate", "deploy"} :
                 AskDeploy(o, c, keys, destructiveKeys, mode)
  \/ \E o \in Ops :
       Handler(o) \/ JobSucceeds(o) \/ JobFails(o) \/ PatchHistory(o)
  \/ Save \/ Restart

Spec == Init /\ [][Next]_vars

-----------------------------------------------------------------------------
(* A comparison that a request can still find, and one in progress, has    *)
(* all it retrieved on disk, and there are at most MaxComparisons to find  *)
(* (storeComparison, 45-54).                                               *)
StoredIsIntact ==
  /\ Len(table) <= MaxComparisons
  /\ \A c \in Comparisons :
       InTable(c) \/ cmp[c].stage \in {"target", "list"} =>
         /\ dirs[c].source = DOMAIN cmp[c].sourceCopy
         /\ dirs[c].target = DOMAIN cmp[c].targetCopy

(* A row claims that a component is the same in both orgs, differs, is new *)
(* or is the target's only, exactly when the retrieved files say so, and   *)
(* claims nothing when the target was not read (compareComponentGroups,    *)
(* 148-150: "Never claims `changed`/`identical` unless ...").              *)
RowsAreTruthful ==
  \A c \in Comparisons : cmp[c].stage = "done" =>
    \A r \in cmp[c].rows :
      LET Has(copy) == {f \in DOMAIN copy \ {Manifest} :
                          ComponentOf(f, TypeDirMap).key = r.key}
          s == Has(cmp[c].sourceCopy)
          t == Has(cmp[c].targetCopy)
          same == s = t /\ \A f \in s : cmp[c].sourceCopy[f] = cmp[c].targetCopy[f]
      IN  IF ~cmp[c].available THEN r.status = "unknown"
          ELSE /\ r.status = "identical" <=> s # {} /\ same
               /\ r.status = "new" <=> t = {}
               /\ r.status = "missing-source" <=> s = {}

(* What the review shows of a comparison, as long as it can be found.      *)
ReviewsTellTheTruth == TypeOK /\ StoredIsIntact /\ RowsAreTruthful

(* A job that succeeds has shipped the reviewed content of components that *)
(* were selected, or that carry the security of a selected field, and no   *)
(* other; its deletions were asked for and are not in the source; and      *)
(* nothing selected was left out, unless the comparison had been evicted   *)
(* (buildDeployScope; orgDeploy.ts:260-281).                               *)
ShipsWhatWasReviewed ==
  \A o \in Ops : job[o].state = "succeeded" =>
    LET c == op[o].on
        scope == job[o].scope
        wanted == {r \in cmp[c].rows : r.key \in op[o].keys \ op[o].destructive}
        files == {f \in DOMAIN cmp[c].sourceCopy \ {Manifest} :
                    \E r \in wanted : ComponentOf(f, TypeDirMap).key = r.key}
        paths == {[path |-> StripUnpackagedWrapper(f),
                   content |-> cmp[c].sourceCopy[f]] : f \in files}
        doomed == {Component(r) : r \in {x \in cmp[c].rows : x.key \in op[o].destructive}}
    IN  /\ scope.files \subseteq paths
        /\ scope.deletions \subseteq doomed
        /\ InTable(c) => scope.files = paths /\ scope.deletions = doomed

(* A package with a custom field has every profile and permission set of   *)
(* the comparison with it (includeRequiredFieldSecurityKeys, 318: "Keeps   *)
(* FLS payloads mandatory whenever at least one CustomField is in the      *)
(* deploy scope").                                                         *)
FieldsTravelWithSecurity ==
  \A o \in Ops :
    (\E m \in job[o].scope.members : m.type = "CustomField") =>
      \A f \in DOMAIN cmp[op[o].on].sourceCopy \ {Manifest} :
        LET c == ComponentOf(f, TypeDirMap)
        IN  c.type \in SecurityTypes =>
              [type |-> c.type, fullName |-> c.fullName] \in job[o].scope.members

(* What a job ships: nothing but what was reviewed, and all that a field   *)
(* in it needs to be seen.                                                 *)
PackagesAreAsReviewed == ShipsWhatWasReviewed /\ FieldsTravelWithSecurity

(* A job changes the target only if its mode is deploy, and a validation   *)
(* of a production org always runs tests                                   *)
(* (buildDeployArgs; DeploySettingsStep.tsx:102: "Validation never commits *)
(* anything to the target org").                                           *)
ValidationNeverCommits ==
  [][\A o \in Ops :
       /\ job[o].state = "queued" /\ job'[o].state = "succeeded"
          /\ target' # target => op[o].mode = "deploy"
       /\ job'[o].args.command = "validate" => job'[o].args.testLevel # "NoTestRun"]_vars

(* Every job the org accepted has its record, at the front if it is the    *)
(* last, through reports, truncations and restarts, unless its answer was  *)
(* lost, the process ended before the record was saved, or newer records   *)
(* pushed it out (orgDeploy.ts:293-307; store.ts:82-96).                   *)
AcceptedIsRecorded ==
  /\ \A o \in Ops : job[o].state # "none" =>
       InHistory(o) \/ op[o].stage = "answer" \/ o \in lost
         \/ Len(history) = MaxRecords
  /\ latest # None /\ latest \notin lost => history # <<>> /\ history[1].op = latest

(* A diff says that an org lacks a file only if that org was read and did  *)
(* not deliver it, or if the comparison has been evicted since the diff    *)
(* looked it up (orgDeploy.ts:180-193; CompareReviewStep.tsx:69: "This     *)
(* file does not exist in this org").                                      *)
DiffTellsTruth ==
  \A o \in Ops : \A missing \in absent[o] :
    LET c == op[o].on
    IN  \/ ~InTable(c)
        \/ missing[1] = "source" /\ missing[2] \notin DOMAIN cmp[c].sourceCopy
        \/ missing[1] = "target" /\ missing[2] \notin DOMAIN cmp[c].targetCopy
           /\ cmp[c].available
=============================================================================
