-------------------------- MODULE OrgDeploy_proofs --------------------------
(***************************************************************************)
(* Theorems about the deployment of one org's metadata to another, for any *)
(* files, any number of comparisons, requests, records and restarts.       *)
(***************************************************************************)
EXTENDS OrgDeploy, SequenceTheorems, TLAPS

-----------------------------------------------------------------------------
(* The invariant.                                                          *)

KeyOf(f) == ComponentOf(f, TypeDirMap).key
KindOf(f) == ComponentOf(f, TypeDirMap).type
NameOf(f) == ComponentOf(f, TypeDirMap).fullName
Having(copy, key) == {f \in DOMAIN copy \ {Manifest} : KeyOf(f) = key}

Contents == 0 .. MaxVersion
Copies == UNION {[D -> Contents] : D \in SUBSET (Files \cup {Manifest})}
Selections == {<<>>} \cup {IncludeFieldLevelSecurity(s) : s \in Requests}
AllKeys == {KeyOf(f) : f \in Files}
AllTypes == {KindOf(f) : f \in Files}
AllNames == {NameOf(f) : f \in Files}
RowRecords ==
  [key : AllKeys, type : AllTypes, fullName : AllNames, files : SUBSET Files,
   sourceExists : BOOLEAN,
   status : {"identical", "changed", "new", "missing-source", "unknown"}]
CmpRecords ==
  [stage : CmpStages, selections : Selections, available : BOOLEAN,
   sourceCopy : Copies, targetCopy : Copies, rows : SUBSET RowRecords]
Modes == {"validate", "deploy"}
OpRecords ==
  {[stage |-> "idle"]}
  \cup [stage : OpStages \ {"idle"}, on : Comparisons, keys : SUBSET AllKeys,
        destructive : SUBSET AllKeys, mode : Modes]
ComponentNames == [type : AllTypes, fullName : AllNames]
ScopeFiles == [path : {StripUnpackagedWrapper(f) : f \in Files}, content : Contents]
Scopes ==
  [files : SUBSET ScopeFiles, members : SUBSET ComponentNames,
   deletions : SUBSET ComponentNames, manifest : BOOLEAN]
Arguments ==
  {[command |-> "none"]}
  \cup [command : {"start", "validate"}, testLevel : TestLevels, dryRun : BOOLEAN]
JobRecords ==
  [state : {"none", "queued", "succeeded", "failed"}, args : Arguments, scope : Scopes]
HistoryRecords ==
  [op : Ops \cup {None}, status : {"running", "succeeded", "failed"}]

Shapes ==
  /\ target \in Org /\ sandbox \in BOOLEAN
  /\ cmp \in [Comparisons -> CmpRecords]
  /\ dirs \in [Comparisons -> [source : SUBSET (Files \cup {Manifest}),
                               target : SUBSET (Files \cup {Manifest})]]
  /\ table \in Seq(Comparisons)
  /\ removing \subseteq Comparisons
  /\ op \in [Ops -> OpRecords]
  /\ absent \in [Ops -> SUBSET ({"source", "target"} \X Files)]
  /\ scopeDir \in [Ops -> Scopes]
  /\ job \in [Ops -> JobRecords]
  /\ history \in Seq(HistoryRecords) /\ saved \in Seq(HistoryRecords)
  /\ latest \in Ops \cup {None}
  /\ lost \subseteq Ops

(* A comparison enters the table when it is done, once; what leaves it is  *)
(* removed, and only that; until then its directory has all it retrieved.  *)
TableInv ==
  /\ Len(table) <= MaxComparisons
  /\ \A i, j \in DOMAIN table : table[i] = table[j] => i = j
  /\ \A c \in Comparisons : InTable(c) => cmp[c].stage = "done" /\ c \notin removing
  /\ \A c \in removing : cmp[c].stage = "done"

Intact(c) ==
  /\ dirs[c].source = DOMAIN cmp[c].sourceCopy
  /\ dirs[c].target = DOMAIN cmp[c].targetCopy

CmpOk(c) ==
  /\ dirs[c].source \subseteq DOMAIN cmp[c].sourceCopy
  /\ dirs[c].target \subseteq DOMAIN cmp[c].targetCopy
  /\ InTable(c) \/ cmp[c].stage \in {"idle", "source", "target", "list"} => Intact(c)
  /\ cmp[c].stage = "done" => cmp[c].rows = Rows(c)

(* The keys of a package: rows of the source, and deletions of rows that   *)
(* only the target has; with a field, every profile and permission set.    *)
SourceKeys(c) == {r.key : r \in {x \in cmp[c].rows : x.sourceExists}}
Closed(c, keys) ==
  (\E r \in cmp[c].rows : r.type = "CustomField" /\ r.key \in keys) =>
    \A x \in cmp[c].rows :
      x.sourceExists /\ x.type \in SecurityTypes => x.key \in keys
KeysOk(o) ==
  LET c == op[o].on
  IN  /\ op[o].destructive \subseteq Deletable(c)
      /\ op[o].keys \ op[o].destructive \subseteq SourceKeys(c)
      /\ Closed(c, op[o].keys)

Packing(o) ==
  op[o].stage \in {"scope", "display", "submit", "answer"} \/ job[o].state # "none"

OpOk(o) ==
  /\ op[o].stage # "idle" =>
       cmp[op[o].on].stage = "done" /\ op[o].keys \subseteq RowKeys(op[o].on)
  /\ Packing(o) => KeysOk(o)

(* What is packed is the scope of the request, whole while the comparison  *)
(* can be found; its list of components is whole as long as there is one.  *)
PartOf(o, scope) ==
  /\ scope.files \subseteq Scope(o).files
  /\ scope.deletions \subseteq Scope(o).deletions
  /\ scope.manifest => scope.members = Scope(o).members
  /\ InTable(op[o].on) => scope = Scope(o)

ScopeOk(o) == op[o].stage \in {"display", "submit"} => PartOf(o, scopeDir[o])

JobOk(o) ==
  /\ job[o].state = "none" => job[o] = NoJob
  /\ job[o].state # "none" =>
       /\ op[o].stage \in {"answer", "done", "failed"}
       /\ job[o].scope.manifest
       /\ PartOf(o, job[o].scope)
       /\ \E testLevel \in TestLevels :
            job[o].args = BuildDeployArgs(op[o].mode, testLevel,
                                          op[o].mode = "validate" /\ sandbox)

AbsentOk(o) ==
  absent[o] # {} =>
    /\ op[o].stage \in Ended
    /\ \A missing \in absent[o] :
         LET c == op[o].on
         IN  \/ ~InTable(c)
             \/ missing[1] = "source" /\ missing[2] \notin DOMAIN cmp[c].sourceCopy
             \/ missing[1] = "target" /\ missing[2] \notin DOMAIN cmp[c].targetCopy
                /\ cmp[c].available

(* A record is of a job that was answered; the file tells of no other.     *)
RecordOk(o) ==
  /\ job[o].state # "none" =>
       InHistory(o) \/ op[o].stage = "answer" \/ o \in lost \/ Len(history) = MaxRecords
  /\ InHistory(o) \/ InSaved(o) => op[o].stage = "done" /\ job[o].state # "none"
  /\ op[o].stage = "answer" => job[o].state # "none"

(* The last answered job is at the front in memory, and in the file if the *)
(* file has it.                                                            *)
HistoryInv ==
  /\ Len(history) <= MaxRecords /\ Len(saved) <= MaxRecords
  /\ latest # None /\ latest \notin lost =>
       /\ history # <<>> /\ history[1].op = latest
       /\ InSaved(latest) => saved # <<>> /\ saved[1].op = latest

DeployInv ==
  /\ Shapes
  /\ TableInv
  /\ \A c \in Comparisons : CmpOk(c)
  /\ \A o \in Ops : OpOk(o) /\ ScopeOk(o) /\ JobOk(o) /\ AbsentOk(o) /\ RecordOk(o)
  /\ HistoryInv

-----------------------------------------------------------------------------
(* The rows of a comparison.                                               *)

(* The manifest of a retrieval, and only that, is the root manifest.       *)
LEMMA ManifestIsRoot ==
  \A f \in Files \cup {Manifest} : IsRootManifest(f) <=> f = Manifest
<1>1. IsRootManifest(Manifest)
  <2> DEFINE First(i) == /\ i = Len(Manifest) \/ Manifest[i] # Unpackaged
                         /\ \A j \in 1 .. i - 1 : Manifest[j] = Unpackaged
  <2>1. Len(Manifest) = 2 /\ DOMAIN Manifest = 1 .. 2
        /\ Manifest[1] = Unpackaged /\ Manifest[2] = PackageXml
    BY DEF Manifest
  <2>2. First(2)
    BY <2>1
  <2>3. \A i \in DOMAIN Manifest : First(i) => i = 2
    BY <2>1
  <2>4. (CHOOSE i \in DOMAIN Manifest : First(i)) = 2
    <3> HIDE DEF First
    <3> QED BY <2>1, <2>2, <2>3
  <2>5. SubSeq(Manifest, 2, 2) = <<PackageXml>>
    <3>1. Manifest \in Seq({Unpackaged, PackageXml})
      BY DEF Manifest
    <3>2. /\ SubSeq(Manifest, 2, 2) \in Seq({Unpackaged, PackageXml})
          /\ Len(SubSeq(Manifest, 2, 2)) = 1
          /\ SubSeq(Manifest, 2, 2)[1] = PackageXml
      BY <3>1, <2>1
    <3> DEFINE last == SubSeq(Manifest, 2, 2)
    <3> HIDE DEF last
    <3>3. <<PackageXml>> \in Seq({Unpackaged, PackageXml}) /\ Len(<<PackageXml>>) = 1
      OBVIOUS
    <3>4. last \in Seq({Unpackaged, PackageXml}) /\ Len(last) = 1 /\ last[1] = PackageXml
      BY <3>2 DEF last
    <3>5. \A i \in 1 .. Len(last) : last[i] = <<PackageXml>>[i]
      BY <3>4
    <3>6. last = <<PackageXml>>
      BY <3>3, <3>4, <3>5, SeqEqual, Zenon
    <3> QED BY <3>6 DEF last
  <2> QED BY <2>1, <2>4, <2>5 DEF IsRootManifest, StripUnpackagedWrapper
<1> QED BY <1>1, OrgAssumption

GroupOf(f, files) ==
  [key |-> KeyOf(f), type |-> KindOf(f), fullName |-> NameOf(f),
   files |-> {g \in files \ {Manifest} : KeyOf(g) = KeyOf(f)}]

\* The keys of the groups are those of the files.
LEMMA KeysOfGroups ==
  ASSUME NEW files
  PROVE  Keys({GroupOf(f, files) : f \in files \ {Manifest}}) =
           {KeyOf(f) : f \in files \ {Manifest}}
<1>1. \A f : GroupOf(f, files).key = KeyOf(f)
  BY DEF GroupOf
<1> QED BY <1>1, Zenon DEF Keys

(* Grouping: one group for each component that has a file.                 *)
LEMMA GroupsOfFiles ==
  ASSUME NEW files, files \subseteq Files \cup {Manifest}
  PROVE  GroupMetadataFiles(files, TypeDirMap) =
           {GroupOf(f, files) : f \in files \ {Manifest}}
<1>1. {f \in files : ~IsRootManifest(f)} = files \ {Manifest}
  BY ManifestIsRoot
<1> QED BY <1>1 DEF GroupMetadataFiles, GroupOf, KeyOf, KindOf, NameOf

(* The hash of a component is that of its files in the copy.               *)
LEMMA HashOfGroup ==
  ASSUME NEW copy, DOMAIN copy \subseteq Files \cup {Manifest}
  PROVE  LET hashes == HashGroups(GroupMetadataFiles(DOMAIN copy, TypeDirMap), copy)
         IN  /\ DOMAIN hashes = {KeyOf(f) : f \in DOMAIN copy \ {Manifest}}
             /\ \A k \in DOMAIN hashes : hashes[k] = [f \in Having(copy, k) |-> copy[f]]
<1> DEFINE G == GroupMetadataFiles(DOMAIN copy, TypeDirMap)
           hashes == HashGroups(G, copy)
<1>1. G = {GroupOf(f, DOMAIN copy) : f \in DOMAIN copy \ {Manifest}}
  BY GroupsOfFiles
<1>2. \A g \in G : g.files = Having(copy, g.key)
  BY <1>1 DEF GroupOf, Having
<1>3. Keys(G) = {KeyOf(f) : f \in DOMAIN copy \ {Manifest}}
  BY <1>1, KeysOfGroups
<1> HIDE DEF G
<1>4. \A k \in Keys(G) : GroupFor(k, G) \in G /\ GroupFor(k, G).key = k
  BY DEF Keys, GroupFor
<1>5. hashes = [k \in Keys(G) |-> [f \in GroupFor(k, G).files |-> copy[f]]]
  BY DEF HashGroups
<1>6. ASSUME NEW k \in Keys(G)
      PROVE  hashes[k] = [f \in Having(copy, k) |-> copy[f]]
  BY <1>2, <1>4, <1>5
<1> QED BY <1>3, <1>5, <1>6 DEF G

(* What a row says of its component, whichever files the orgs have.        *)
RowTruth(c, r) ==
  LET s == Having(cmp[c].sourceCopy, r.key)
      t == Having(cmp[c].targetCopy, r.key)
      same == s = t /\ \A f \in s : cmp[c].sourceCopy[f] = cmp[c].targetCopy[f]
  IN  /\ r.sourceExists <=> s # {}
      /\ r.sourceExists => r.files = s
      /\ ~cmp[c].available => r.status = "unknown"
      /\ cmp[c].available =>
           /\ r.status = "identical" <=> s # {} /\ same
           /\ r.status = "new" <=> t = {}
           /\ r.status = "missing-source" <=> s = {}

(* A row tells the truth, and every component of the source has its row.   *)
LEMMA RowsTellTheTruth ==
  ASSUME NEW c \in Comparisons, cmp[c] \in CmpRecords
  PROVE  /\ \A r \in Rows(c) : r \in RowRecords /\ RowTruth(c, r)
         /\ \A f \in DOMAIN cmp[c].sourceCopy \ {Manifest} :
              \E r \in Rows(c) : /\ r.key = KeyOf(f) /\ r.type = KindOf(f)
                                 /\ r.fullName = NameOf(f) /\ r.sourceExists
<1> DEFINE S == cmp[c].sourceCopy
           T == cmp[c].targetCopy
           SG == GroupMetadataFiles(DOMAIN S, TypeDirMap)
           TG == GroupMetadataFiles(DOMAIN T, TypeDirMap)
           SH == HashGroups(SG, S)
           TH == HashGroups(TG, T)
           Shown == SG \cup {h \in TG : h.key \notin Keys(SG)}
           Line(g) ==
             [key |-> g.key, type |-> g.type, fullName |-> g.fullName,
              files |-> g.files, sourceExists |-> g.key \in DOMAIN SH,
              status |-> Status(g.key, SH, TH, cmp[c].available)]
<1>1. DOMAIN S \subseteq Files \cup {Manifest} /\ DOMAIN T \subseteq Files \cup {Manifest}
  BY DEF CmpRecords, Copies
<1>2. /\ SG = {GroupOf(f, DOMAIN S) : f \in DOMAIN S \ {Manifest}}
      /\ TG = {GroupOf(f, DOMAIN T) : f \in DOMAIN T \ {Manifest}}
  BY <1>1, GroupsOfFiles
<1>3. /\ DOMAIN SH = {KeyOf(f) : f \in DOMAIN S \ {Manifest}}
      /\ \A k \in DOMAIN SH : SH[k] = [f \in Having(S, k) |-> S[f]]
  BY <1>1, HashOfGroup
<1>4. /\ DOMAIN TH = {KeyOf(f) : f \in DOMAIN T \ {Manifest}}
      /\ \A k \in DOMAIN TH : TH[k] = [f \in Having(T, k) |-> T[f]]
  BY <1>1, HashOfGroup
<1>5. Rows(c) = {Line(g) : g \in Shown}
  BY DEF Rows, CompareComponentGroups
<1>6. Keys(SG) = DOMAIN SH
  BY <1>2, <1>3, KeysOfGroups
<1>7. /\ \A k : k \in DOMAIN SH <=> Having(S, k) # {}
      /\ \A k : k \in DOMAIN TH <=> Having(T, k) # {}
  BY <1>3, <1>4 DEF Having
<1>8. \A g \in SG : g.files = Having(S, g.key) /\ g.key \in DOMAIN SH
  BY <1>2, <1>3 DEF GroupOf, Having
<1>9. \A g \in TG : g.key \in DOMAIN TH
  BY <1>2, <1>4 DEF GroupOf
<1>10. \A g \in Shown : /\ g.key \in AllKeys /\ g.type \in AllTypes
                        /\ g.fullName \in AllNames /\ g.files \in SUBSET Files
  BY <1>1, <1>2 DEF GroupOf, AllKeys, AllTypes, AllNames
<1> HIDE DEF S, T, SG, TG, SH, TH
<1>11. ASSUME NEW g \in Shown
       PROVE  Line(g) \in RowRecords /\ RowTruth(c, Line(g))
  <2> DEFINE k == g.key
             r == Line(g)
  <2>1. k \in DOMAIN SH \/ k \in DOMAIN TH
    BY <1>8, <1>9
  <2>2. k \in DOMAIN SH => g \in SG
    BY <1>6
  <2>3. k \in DOMAIN SH /\ k \in DOMAIN TH =>
          (SH[k] = TH[k] <=>
             Having(S, k) = Having(T, k) /\ \A f \in Having(S, k) : S[f] = T[f])
    <3> SUFFICES ASSUME k \in DOMAIN SH, k \in DOMAIN TH
                 PROVE  SH[k] = TH[k] <=>
                          Having(S, k) = Having(T, k) /\ \A f \in Having(S, k) : S[f] = T[f]
      OBVIOUS
    <3>1. SH[k] = [f \in Having(S, k) |-> S[f]] /\ TH[k] = [f \in Having(T, k) |-> T[f]]
      BY <1>3, <1>4
    <3> HIDE DEF k
    <3> QED BY <3>1
  <2>4. cmp[c].available \in BOOLEAN
    BY DEF CmpRecords
  <2>5. Status(k, SH, TH, cmp[c].available) \in
          {"identical", "changed", "new", "missing-source", "unknown"}
    BY <2>4 DEF Status
  <2>6. r \in RowRecords
    BY <2>5, <1>10 DEF RowRecords
  <2>7. /\ r.key = k /\ r.files = g.files /\ r.sourceExists = (k \in DOMAIN SH)
        /\ r.status = Status(k, SH, TH, cmp[c].available)
    OBVIOUS
  <2>8. r.sourceExists <=> Having(S, k) # {}
    BY <2>7, <1>7
  <2>9. r.sourceExists => r.files = Having(S, k)
    BY <2>2, <2>7, <1>8
  <2>10. ~cmp[c].available => r.status = "unknown"
    BY <2>7, <2>4 DEF Status
  <2> HIDE DEF r, k
  <2>11. ASSUME cmp[c].available
         PROVE  /\ r.status = "identical" <=>
                     /\ Having(S, k) # {} /\ Having(S, k) = Having(T, k)
                     /\ \A f \in Having(S, k) : S[f] = T[f]
                /\ r.status = "new" <=> Having(T, k) = {}
                /\ r.status = "missing-source" <=> Having(S, k) = {}
    <3>1. CASE k \in DOMAIN SH /\ k \in DOMAIN TH
      BY <3>1, <2>3, <2>7, <2>11, <1>7 DEF Status
    <3>2. CASE k \in DOMAIN SH /\ k \notin DOMAIN TH
      <4>1. r.status = "new"
        BY <3>2, <2>7, <2>11 DEF Status
      <4> QED BY <4>1, <3>2, <1>7
    <3>3. CASE k \notin DOMAIN SH /\ k \in DOMAIN TH
      <4>1. r.status = "missing-source"
        BY <3>3, <2>7, <2>11 DEF Status
      <4> QED BY <4>1, <3>3, <1>7
    <3> QED BY <2>1, <3>1, <3>2, <3>3
  <2> QED BY <2>6, <2>7, <2>8, <2>9, <2>10, <2>11 DEF RowTruth, S, T, r
<1>12. ASSUME NEW f \in DOMAIN S \ {Manifest}
       PROVE  \E r \in Rows(c) : /\ r.key = KeyOf(f) /\ r.type = KindOf(f)
                                 /\ r.fullName = NameOf(f) /\ r.sourceExists
  <2> DEFINE g == GroupOf(f, DOMAIN S)
  <2>1. g \in SG
    BY <1>2
  <2>2. g.key = KeyOf(f) /\ g.type = KindOf(f) /\ g.fullName = NameOf(f)
    BY DEF GroupOf
  <2> HIDE DEF g
  <2>3. Line(g) \in Rows(c) /\ Line(g).sourceExists
    BY <2>1, <1>5, <1>8
  <2> QED BY <2>2, <2>3
<1> QED BY <1>5, <1>11, <1>12 DEF S

-----------------------------------------------------------------------------
(* What follows from the invariant in any state.                           *)

\* A finished comparison has true rows, one for each component of the source.
LEMMA RowsOfDone ==
  ASSUME DeployInv, NEW c \in Comparisons, cmp[c].stage = "done"
  PROVE  /\ \A r \in cmp[c].rows : r \in RowRecords /\ RowTruth(c, r)
         /\ \A f \in DOMAIN cmp[c].sourceCopy \ {Manifest} :
              \E r \in cmp[c].rows : /\ r.key = KeyOf(f) /\ r.type = KindOf(f)
                                     /\ r.fullName = NameOf(f) /\ r.sourceExists
<1>1. cmp[c] \in CmpRecords /\ cmp[c].rows = Rows(c)
  BY DEF DeployInv, Shapes, CmpOk
<1> QED BY <1>1, RowsTellTheTruth

(* A key is one of the source, whichever of its rows says so, and is not   *)
(* one to delete.                                                          *)
LEMMA SourceKeysAreNotDeletable ==
  ASSUME DeployInv, NEW c \in Comparisons, cmp[c].stage = "done"
  PROVE  /\ \A r \in cmp[c].rows : r.key \in SourceKeys(c) => r.sourceExists
         /\ \A r \in cmp[c].rows : r.key \in Deletable(c) => ~r.sourceExists
         /\ SourceKeys(c) \subseteq RowKeys(c)
         /\ Deletable(c) \subseteq RowKeys(c)
         /\ RowKeys(c) \subseteq AllKeys
<1>1. \A r \in cmp[c].rows : r \in RowRecords /\ RowTruth(c, r)
  BY RowsOfDone
<1>2. cmp[c].available \in BOOLEAN
  BY DEF DeployInv, Shapes, CmpRecords
<1>3. \A r, x \in cmp[c].rows : r.key = x.key => r.sourceExists = x.sourceExists
  BY <1>1 DEF RowTruth, RowRecords
<1>4. \A x \in cmp[c].rows : x.status = "missing-source" => ~x.sourceExists
  BY <1>1, <1>2 DEF RowTruth
<1>5. \A r \in cmp[c].rows : r.key \in AllKeys
  BY <1>1 DEF RowRecords
<1> QED BY <1>3, <1>4, <1>5, Zenon DEF SourceKeys, Deletable, RowKeys

(* The package of a request holds exactly the files that the retrieval of  *)
(* the source has of the components selected and not to be deleted.        *)
FilesToShip(o) ==
  {f \in DOMAIN cmp[op[o].on].sourceCopy \ {Manifest} :
     \E r \in cmp[op[o].on].rows : /\ r.key \in op[o].keys \ op[o].destructive
                                   /\ KeyOf(f) = r.key}

\* The package of a request: the files, deletions and members it names.
LEMMA PackageOfRequest ==
  ASSUME DeployInv, NEW o \in Ops, op[o].stage # "idle", KeysOk(o)
  PROVE  /\ Scope(o) \in Scopes
         /\ Scope(o).manifest
         /\ Scope(o).files =
              {[path |-> StripUnpackagedWrapper(f),
                content |-> cmp[op[o].on].sourceCopy[f]] : f \in FilesToShip(o)}
         /\ Scope(o).deletions =
              {Component(r) : r \in {x \in cmp[op[o].on].rows :
                                       x.key \in op[o].destructive}}
         /\ Scope(o).members =
              {Component(r) : r \in {x \in cmp[op[o].on].rows :
                                       x.key \in op[o].keys \ op[o].destructive}}
<1> DEFINE c == op[o].on
           S == cmp[c].sourceCopy
           rows == cmp[c].rows
           shipped == Shipped(rows, op[o].keys, op[o].destructive)
           from == UNION {r.files : r \in shipped}
<1>1. c \in Comparisons /\ cmp[c].stage = "done"
  BY DEF DeployInv, Shapes, OpRecords, OpOk
<1>2. \A r \in rows : r \in RowRecords /\ RowTruth(c, r)
  BY <1>1, RowsOfDone
<1>3. shipped = {x \in rows : x.key \in op[o].keys \ op[o].destructive}
  BY DEF Shipped
<1>4. \A r \in shipped : r.files = Having(S, r.key)
  <2> SUFFICES ASSUME NEW r \in shipped
               PROVE  r.files = Having(S, r.key)
    OBVIOUS
  <2>1. r \in rows /\ r.key \in SourceKeys(c)
    BY <1>3 DEF KeysOk
  <2>2. r.sourceExists
    BY <2>1, <1>1, SourceKeysAreNotDeletable
  <2> QED BY <2>1, <2>2, <1>2 DEF RowTruth
<1>5. from = FilesToShip(o)
  BY <1>3, <1>4 DEF FilesToShip, Having
<1>6. /\ Scope(o).files =
           {[path |-> StripUnpackagedWrapper(f), content |-> S[f]] : f \in from}
      /\ Scope(o).members = {Component(r) : r \in shipped}
      /\ Scope(o).deletions =
           {Component(r) : r \in {x \in rows : x.key \in op[o].destructive}}
      /\ Scope(o).manifest = TRUE
      /\ Scope(o) = [files |-> Scope(o).files, members |-> Scope(o).members,
                     deletions |-> Scope(o).deletions, manifest |-> TRUE]
  BY DEF Scope, BuildDeployScope
<1>7. \A f \in from : f \in Files /\ S[f] \in Contents
  <2>1. from \subseteq DOMAIN S \ {Manifest}
    BY <1>5 DEF FilesToShip
  <2>2. S \in Copies
    BY <1>1 DEF DeployInv, Shapes, CmpRecords
  <2> QED BY <2>1, <2>2 DEF Copies
<1>8. \A r \in rows : Component(r) \in ComponentNames
  BY <1>2 DEF Component, ComponentNames, RowRecords
<1>9. Scope(o).files \subseteq ScopeFiles
  BY <1>6, <1>7 DEF ScopeFiles
<1>10. Scope(o).members \subseteq ComponentNames /\ Scope(o).deletions \subseteq ComponentNames
  BY <1>3, <1>6, <1>8
<1>11. Scope(o) \in Scopes
  BY <1>6, <1>9, <1>10 DEF Scopes
<1> QED BY <1>3, <1>5, <1>6, <1>11

(* The keys that AskPackage selects.                                       *)
LEMMA SelectedKeysAreOk ==
  ASSUME DeployInv, NEW c \in Comparisons, cmp[c].stage = "done",
         NEW keys \in Picks(c), NEW doomed
  PROVE  LET selected == SelectedKeys(c, keys, doomed)
         IN  /\ selected \subseteq RowKeys(c)
             /\ selected \ (doomed \cap Deletable(c)) \subseteq SourceKeys(c)
             /\ Closed(c, selected)
<1> DEFINE rows == cmp[c].rows
           requested == (keys \cap RowKeys(c)) \cup (doomed \cap Deletable(c))
           selected == SelectedKeys(c, keys, doomed)
           security == {r.key : r \in {x \in rows : x.sourceExists /\ x.type \in SecurityTypes}}
<1>1. keys \subseteq SourceKeys(c)
  BY DEF Picks, SourceKeys, Keys
<1>2. security \subseteq SourceKeys(c) /\ SourceKeys(c) \subseteq RowKeys(c)
      /\ Deletable(c) \subseteq RowKeys(c)
  BY SourceKeysAreNotDeletable DEF SourceKeys
<1>3. selected = IF \E r \in rows : r.type = "CustomField" /\ r.key \in requested
                 THEN requested \cup security ELSE requested
  BY DEF SelectedKeys, IncludeRequiredFieldSecurityKeys
<1>4. \A x \in rows : x.sourceExists /\ x.type \in SecurityTypes => x.key \in security
  OBVIOUS
<1> HIDE DEF selected, security
<1>5. selected \subseteq RowKeys(c)
      /\ selected \ (doomed \cap Deletable(c)) \subseteq SourceKeys(c)
  BY <1>1, <1>2, <1>3
<1>6. Closed(c, selected)
  BY <1>3, <1>4 DEF Closed
<1> QED BY <1>5, <1>6 DEF selected

-----------------------------------------------------------------------------
(* What a step leaves alone.                                               *)

(* A comparison that is done does not change, and does not come back.      *)
Frozen ==
  \A c \in Comparisons : cmp[c].stage = "done" =>
    cmp'[c] = cmp[c] /\ (InTable(c)' => InTable(c))

Same(o) ==
  /\ op'[o] = op[o] /\ absent'[o] = absent[o] /\ scopeDir'[o] = scopeDir[o] /\ job'[o] = job[o]
  /\ InHistory(o)' \/ InSaved(o)' => InHistory(o) \/ InSaved(o)

(* Records are dropped only from a history that is full, or by a restart.  *)
RecordsStay ==
  /\ lost \subseteq lost'
  /\ \A o \in Ops :
       job[o].state # "none" /\ (InHistory(o) \/ Len(history) = MaxRecords) =>
         InHistory(o)' \/ Len(history') = MaxRecords \/ o \in lost'

OpInv(o) == OpOk(o) /\ ScopeOk(o) /\ JobOk(o) /\ AbsentOk(o) /\ RecordOk(o)

\* The package of a request depends on its comparison and its choice alone.
LEMMA ScopeIsFixed ==
  ASSUME NEW o \in Ops, cmp'[op[o].on] = cmp[op[o].on], op'[o].on = op[o].on,
         op'[o].keys = op[o].keys, op'[o].destructive = op[o].destructive
  PROVE  Scope(o)' = Scope(o) /\ (KeysOk(o) => KeysOk(o)')
<1>1. Scope(o)' = Scope(o)
  BY DEF Scope
<1>2. /\ Deletable(op[o].on)' = Deletable(op[o].on)
      /\ SourceKeys(op[o].on)' = SourceKeys(op[o].on)
  BY DEF Deletable, SourceKeys
<1>3. KeysOk(o) => KeysOk(o)'
  BY DEF KeysOk, Closed, Deletable, SourceKeys
<1> QED BY <1>1, <1>3

\* A request that is not done has no record, and gets none while the records
\* stay what they are.
LEMMA Unrecorded ==
  ASSUME DeployInv, NEW o \in Ops, op[o].stage # "done"
  PROVE  /\ ~InHistory(o) /\ ~InSaved(o)
         /\ UNCHANGED <<history, saved>> => ~InHistory(o)' /\ ~InSaved(o)'
BY DEF DeployInv, RecordOk, InHistory, InSaved

\* What holds of a request stays while its comparison and its record do.
LEMMA OthersKeep ==
  ASSUME DeployInv, NEW o \in Ops, Frozen, Same(o), sandbox' = sandbox, RecordsStay
  PROVE  OpInv(o)'
<1>1. OpOk(o) /\ ScopeOk(o) /\ JobOk(o) /\ AbsentOk(o) /\ RecordOk(o)
  BY DEF DeployInv
<1>2. /\ op'[o] = op[o] /\ absent'[o] = absent[o] /\ scopeDir'[o] = scopeDir[o]
      /\ job'[o] = job[o]
      /\ InHistory(o)' \/ InSaved(o)' => InHistory(o) \/ InSaved(o)
  BY DEF Same
<1>6. RecordOk(o)'
  BY <1>1, <1>2 DEF RecordOk, RecordsStay
<1>3. op[o] \in OpRecords /\ absent[o] \in SUBSET ({"source", "target"} \X Files)
  BY DEF DeployInv, Shapes
<1>4. CASE op[o].stage = "idle"
  <2>1. job[o].state = "none" /\ job[o] = NoJob /\ absent[o] = {}
    BY <1>1, <1>4 DEF JobOk, AbsentOk, Ended
  <2> QED BY <1>2, <1>4, <1>6, <2>1
          DEF OpInv, OpOk, ScopeOk, JobOk, AbsentOk, Packing
<1>5. CASE op[o].stage # "idle"
  <2> DEFINE c == op[o].on
  <2>1. c \in Comparisons /\ cmp[c].stage = "done" /\ op[o].keys \subseteq RowKeys(c)
    BY <1>1, <1>3, <1>5 DEF OpRecords, OpOk
  <2>2. cmp'[c] = cmp[c] /\ (InTable(c)' => InTable(c))
    BY <1>2, <2>1 DEF Frozen, InTable
  <2>3. Scope(o)' = Scope(o) /\ (KeysOk(o) => KeysOk(o)')
    BY <1>2, <2>2, ScopeIsFixed
  <2>4. RowKeys(c)' = RowKeys(c)
    BY <2>2, <1>2 DEF RowKeys
  <2>5. OpOk(o)'
    BY <1>1, <1>2, <2>1, <2>2, <2>3, <2>4 DEF OpOk, Packing, RowKeys
  <2>6. \A scope : PartOf(o, scope) => PartOf(o, scope)'
    BY <1>2, <2>2, <2>3 DEF PartOf, InTable
  <2>7. ScopeOk(o)'
    BY <1>1, <1>2, <2>6 DEF ScopeOk
  <2>8. JobOk(o)'
    BY <1>1, <1>2, <2>6 DEF JobOk
  <2>9. AbsentOk(o)'
    BY <1>1, <1>2, <2>2 DEF AbsentOk, InTable
  <2> QED BY <1>6, <2>5, <2>7, <2>8, <2>9 DEF OpInv
<1> QED BY <1>4, <1>5

\* What holds of a comparison stays while its copies and its place in the
\* table do.
LEMMA ComparisonKeeps ==
  ASSUME DeployInv, NEW c \in Comparisons, cmp'[c] = cmp[c], dirs'[c] = dirs[c],
         InTable(c)' => InTable(c)
  PROVE  CmpOk(c)'
<1>1. CmpOk(c)
  BY DEF DeployInv
<1>2. Rows(c)' = Rows(c)
  BY DEF Rows
<1> QED BY <1>1, <1>2 DEF CmpOk, Intact, InTable

(* A step of one request: nothing that concerns the comparisons changes.   *)
LEMMA RequestStep ==
  ASSUME DeployInv, NEW o \in Ops, UNCHANGED <<cmpVars, sandbox>>,
         \A p \in Ops \ {o} : Same(p), RecordsStay, Shapes', HistoryInv', OpInv(o)'
  PROVE  DeployInv'
<1>1. Frozen
  BY DEF Frozen, cmpVars, InTable
<1>2. \A p \in Ops \ {o} : OpInv(p)'
  BY <1>1, OthersKeep
<1>3. \A c \in Comparisons : CmpOk(c)'
  BY ComparisonKeeps DEF cmpVars, InTable
<1>4. TableInv'
  BY DEF DeployInv, TableInv, cmpVars, InTable
<1> QED BY <1>2, <1>3, <1>4 DEF DeployInv, OpInv

requestVars == <<op, absent, scopeDir, job, history, saved, latest, lost, sandbox>>

(* A step of one comparison: the requests on others do not see it.         *)
LEMMA ComparisonStep ==
  ASSUME DeployInv, NEW c \in Comparisons, UNCHANGED requestVars, Frozen,
         \A d \in Comparisons \ {c} : /\ cmp'[d] = cmp[d] /\ dirs'[d] = dirs[d]
                                      /\ InTable(d)' => InTable(d),
         Shapes', TableInv', CmpOk(c)'
  PROVE  DeployInv'
<1>1. \A o \in Ops : OpInv(o)'
  BY OthersKeep DEF requestVars, Same, RecordsStay, InHistory, InSaved
<1>2. \A d \in Comparisons : CmpOk(d)'
  BY ComparisonKeeps
<1>3. HistoryInv'
  BY DEF DeployInv, HistoryInv, InSaved, requestVars
<1> QED BY <1>1, <1>2, <1>3 DEF DeployInv, OpInv

-----------------------------------------------------------------------------
(* The steps of comparisons.                                               *)

\* At first there is no comparison, no request and no record.
LEMMA InitDeployInv == Init => DeployInv
<1> SUFFICES ASSUME Init
             PROVE  DeployInv
  OBVIOUS
<1> USE DEF Init
<1>1. NoCopy \in Copies
  <2>1. NoCopy \in [{} -> Contents]
    BY DEF NoCopy
  <2> QED BY <2>1, {} \in SUBSET (Files \cup {Manifest}) DEF Copies
<1>2. NoScope \in Scopes /\ NoJob \in JobRecords
  BY DEF NoScope, Scopes, NoJob, JobRecords, Arguments
<1>3. history \in Seq(HistoryRecords) /\ Len(history) <= MaxRecords
  <2>1. CASE history = <<>>
    BY <2>1, CapAssumption
  <2>2. CASE history = [i \in 1 .. MaxRecords |-> [op |-> None, status |-> "succeeded"]]
    <3>1. history \in [1 .. MaxRecords -> HistoryRecords] /\ MaxRecords \in Nat
      BY <2>2, CapAssumption DEF HistoryRecords
    <3> QED BY <3>1
  <2> QED BY <2>1, <2>2
<1>4. Shapes
  BY <1>1, <1>2, <1>3, OrgAssumption
     DEF Shapes, CmpRecords, CmpStages, Selections, OpRecords
<1>5. TableInv
  BY CapAssumption DEF TableInv, InTable
<1>6. \A c \in Comparisons : CmpOk(c)
  BY DEF CmpOk, Intact, NoCopy
<1>7. \A o \in Ops : OpInv(o)
  <2>1. \A o \in Ops : ~InHistory(o) /\ ~InSaved(o)
    <3> SUFFICES ASSUME NEW o \in Ops, NEW i \in DOMAIN history
                 PROVE  history[i].op # o
      BY DEF InHistory, InSaved
    <3>1. history # <<>>
      OBVIOUS
    <3>2. history = [k \in 1 .. MaxRecords |-> [op |-> None, status |-> "succeeded"]]
      BY <3>1
    <3> QED BY <3>2, NoneAssumption
  <2> QED BY <2>1 DEF OpInv, OpOk, ScopeOk, JobOk, AbsentOk, RecordOk, Packing, NoJob
<1>8. HistoryInv
  BY <1>3 DEF HistoryInv
<1> QED BY <1>4, <1>5, <1>6, <1>7, <1>8 DEF DeployInv, OpInv

\* What is retrieved from an org is a copy.
LEMMA CopyOfOrg ==
  ASSUME NEW org \in Org, NEW selections
  PROVE  Retrieved(org, selections) \in Copies
<1> DEFINE Wanted(f) == LET c == ComponentOf(f, TypeDirMap)
                        IN  \E i \in DOMAIN selections :
                              /\ selections[i].type = c.type
                              /\ {Wildcard, c.fullName} \cap selections[i].members # {}
           D == {g \in Files : org[g] # 0 /\ Wanted(g)} \cup {Manifest}
<1>1. Retrieved(org, selections) = [f \in D |-> IF f = Manifest THEN 1 ELSE org[f]]
  BY DEF Retrieved
<1>2. D \in SUBSET (Files \cup {Manifest})
  OBVIOUS
<1>3. \A f \in D : (IF f = Manifest THEN 1 ELSE org[f]) \in Contents
  BY VersionAssumption DEF Org, Contents
<1> HIDE DEF D
<1>4. Retrieved(org, selections) \in [D -> Contents]
  BY <1>1, <1>3
<1> QED BY <1>2, <1>4 DEF Copies

\* A comparison that begins has nothing yet.
LEMMA CompareInv ==
  ASSUME DeployInv, NEW c \in Comparisons, NEW selections \in Requests,
         Compare(c, selections)
  PROVE  DeployInv'
<1> USE DEF Compare, orgVars, jobVars
<1>1. cmp[c] \in CmpRecords /\ cmp[c].stage = "idle"
      /\ cmp \in [Comparisons -> CmpRecords]
  BY DEF DeployInv, Shapes
<1>2. /\ cmp'[c] = [cmp[c] EXCEPT !.stage = "source",
                                  !.selections = IncludeFieldLevelSecurity(selections)]
      /\ \A d \in Comparisons \ {c} : cmp'[d] = cmp[d]
  BY <1>1
<1>3. cmp'[c] \in CmpRecords
  BY <1>1, <1>2 DEF CmpRecords, CmpStages, Selections
<1>4. Shapes'
  <2>1. cmp' \in [Comparisons -> CmpRecords]
    BY <1>1, <1>2, <1>3
  <2> QED BY <2>1 DEF DeployInv, Shapes
<1>5. Frozen
  BY <1>1, <1>2 DEF Frozen, InTable
<1>6. TableInv'
  BY <1>1, <1>2 DEF DeployInv, TableInv, InTable, Shapes
<1>7. CmpOk(c)'
  BY <1>1, <1>2 DEF DeployInv, CmpOk, Intact, InTable, CmpRecords
<1> QED BY <1>2, <1>4, <1>5, <1>6, <1>7, ComparisonStep DEF requestVars, InTable

\* The copy of the source is what the sandbox has of the selection.
LEMMA RetrieveSourceInv ==
  ASSUME DeployInv, NEW c \in Comparisons, RetrieveSource(c)
  PROVE  DeployInv'
<1> DEFINE copy == Retrieved(SourceFiles, cmp[c].selections)
<1> USE DEF RetrieveSource, orgVars, jobVars
<1>1. /\ cmp[c] \in CmpRecords /\ cmp[c].stage = "source"
      /\ cmp \in [Comparisons -> CmpRecords]
      /\ dirs \in [Comparisons -> [source : SUBSET (Files \cup {Manifest}),
                                   target : SUBSET (Files \cup {Manifest})]]
  BY DEF DeployInv, Shapes
<1>2. copy \in Copies /\ DOMAIN copy \subseteq Files \cup {Manifest}
  <2>1. copy \in Copies
    BY OrgAssumption, CopyOfOrg
  <2> QED BY <2>1 DEF Copies
<1> HIDE DEF copy
<1>3. /\ cmp'[c] = [cmp[c] EXCEPT !.stage = "target", !.sourceCopy = copy]
      /\ dirs'[c] = [dirs[c] EXCEPT !.source = DOMAIN copy]
      /\ \A d \in Comparisons \ {c} : cmp'[d] = cmp[d] /\ dirs'[d] = dirs[d]
  BY <1>1 DEF copy
<1>4. /\ cmp'[c] \in CmpRecords
      /\ dirs'[c] \in [source : SUBSET (Files \cup {Manifest}),
                       target : SUBSET (Files \cup {Manifest})]
  BY <1>1, <1>2, <1>3 DEF CmpRecords, CmpStages
<1>5. Shapes'
  <2>1. cmp' \in [Comparisons -> CmpRecords]
        /\ dirs' \in [Comparisons -> [source : SUBSET (Files \cup {Manifest}),
                                      target : SUBSET (Files \cup {Manifest})]]
    BY <1>1, <1>3, <1>4
  <2> QED BY <2>1 DEF DeployInv, Shapes
<1>6. Frozen
  BY <1>1, <1>3 DEF Frozen, InTable
<1>7. TableInv'
  BY <1>1, <1>3 DEF DeployInv, TableInv, InTable, Shapes
<1>8. CmpOk(c)'
  <2>1. Intact(c)
    BY <1>1 DEF DeployInv, CmpOk
  <2>2. /\ cmp'[c].sourceCopy = copy /\ cmp'[c].targetCopy = cmp[c].targetCopy
        /\ cmp'[c].stage = "target"
        /\ dirs'[c].source = DOMAIN copy /\ dirs'[c].target = dirs[c].target
    <3>1. dirs[c] \in [source : SUBSET (Files \cup {Manifest}),
                      target : SUBSET (Files \cup {Manifest})]
      BY <1>1
    <3> DEFINE files == DOMAIN copy
    <3> HIDE DEF files
    <3> QED BY <1>1, <1>3, <3>1 DEF CmpRecords, files
  <2> QED BY <2>1, <2>2 DEF CmpOk, Intact
<1> QED BY <1>3, <1>5, <1>6, <1>7, <1>8, ComparisonStep DEF requestVars, InTable

\* The copy of the target is what the target has then.
LEMMA RetrieveTargetInv ==
  ASSUME DeployInv, NEW c \in Comparisons, RetrieveTarget(c)
  PROVE  DeployInv'
<1> DEFINE copy == Retrieved(target, cmp[c].selections)
<1> USE DEF RetrieveTarget, orgVars, jobVars
<1>1. /\ cmp[c] \in CmpRecords /\ cmp[c].stage = "target"
      /\ cmp \in [Comparisons -> CmpRecords]
      /\ dirs \in [Comparisons -> [source : SUBSET (Files \cup {Manifest}),
                                   target : SUBSET (Files \cup {Manifest})]]
  BY DEF DeployInv, Shapes
<1>2. copy \in Copies /\ DOMAIN copy \subseteq Files \cup {Manifest}
  <2>1. copy \in Copies
    BY CopyOfOrg DEF DeployInv, Shapes
  <2> QED BY <2>1 DEF Copies
<1> HIDE DEF copy
<1>3. /\ \/ /\ cmp'[c] = [cmp[c] EXCEPT !.stage = "list", !.available = TRUE,
                                        !.targetCopy = copy]
            /\ dirs'[c] = [dirs[c] EXCEPT !.target = DOMAIN copy]
         \/ cmp'[c] = [cmp[c] EXCEPT !.stage = "list"] /\ dirs'[c] = dirs[c]
      /\ \A d \in Comparisons \ {c} : cmp'[d] = cmp[d] /\ dirs'[d] = dirs[d]
      /\ DOMAIN cmp' = Comparisons /\ DOMAIN dirs' = Comparisons
      /\ cmp' = [d \in Comparisons |-> cmp'[d]] /\ dirs' = [d \in Comparisons |-> dirs'[d]]
  BY <1>1 DEF copy
<1>4. /\ cmp'[c] \in CmpRecords
      /\ dirs'[c] \in [source : SUBSET (Files \cup {Manifest}),
                       target : SUBSET (Files \cup {Manifest})]
  BY <1>1, <1>2, <1>3 DEF CmpRecords, CmpStages
<1>5. Shapes'
  <2>1. cmp' \in [Comparisons -> CmpRecords]
        /\ dirs' \in [Comparisons -> [source : SUBSET (Files \cup {Manifest}),
                                      target : SUBSET (Files \cup {Manifest})]]
    BY <1>1, <1>3, <1>4
  <2> QED BY <2>1 DEF DeployInv, Shapes
<1>6. Frozen
  BY <1>1, <1>3 DEF Frozen, InTable
<1>7. TableInv'
  BY <1>1, <1>3 DEF DeployInv, TableInv, InTable, Shapes
<1>8. CmpOk(c)'
  <2>1. Intact(c)
    BY <1>1 DEF DeployInv, CmpOk
  <2>2. /\ cmp'[c].sourceCopy = cmp[c].sourceCopy /\ cmp'[c].stage = "list"
        /\ dirs'[c].source = dirs[c].source
        /\ \/ cmp'[c].targetCopy = copy /\ dirs'[c].target = DOMAIN copy
           \/ cmp'[c].targetCopy = cmp[c].targetCopy /\ dirs'[c].target = dirs[c].target
    <3>1. dirs[c] \in [source : SUBSET (Files \cup {Manifest}),
                      target : SUBSET (Files \cup {Manifest})]
      BY <1>1
    <3> DEFINE files == DOMAIN copy
    <3> HIDE DEF files
    <3> QED BY <1>1, <1>3, <3>1 DEF CmpRecords, files
  <2> QED BY <2>1, <2>2 DEF CmpOk, Intact
<1> QED BY <1>3, <1>5, <1>6, <1>7, <1>8, ComparisonStep DEF requestVars, InTable

\* A comparison that fails is never in the table.
LEMMA FailCompareInv ==
  ASSUME DeployInv, NEW c \in Comparisons, FailCompare(c)
  PROVE  DeployInv'
<1> USE DEF FailCompare, orgVars, jobVars
<1>1. cmp[c] \in CmpRecords /\ cmp[c].stage \in {"source", "list"}
      /\ cmp \in [Comparisons -> CmpRecords]
  BY DEF DeployInv, Shapes
<1>2. /\ cmp'[c] = [cmp[c] EXCEPT !.stage = "failed"]
      /\ \A d \in Comparisons \ {c} : cmp'[d] = cmp[d]
  BY <1>1
<1>3. cmp'[c] \in CmpRecords
  BY <1>1, <1>2 DEF CmpRecords, CmpStages
<1>4. Shapes'
  <2>1. cmp' \in [Comparisons -> CmpRecords]
    BY <1>1, <1>2, <1>3
  <2> QED BY <2>1 DEF DeployInv, Shapes
<1>5. Frozen
  BY <1>1, <1>2 DEF Frozen, InTable
<1>6. TableInv'
  BY <1>1, <1>2 DEF DeployInv, TableInv, InTable, Shapes
<1>7. CmpOk(c)'
  BY <1>1, <1>2 DEF DeployInv, CmpOk, Intact, InTable, CmpRecords
<1> QED BY <1>2, <1>4, <1>5, <1>6, <1>7, ComparisonStep DEF requestVars, InTable

(* storeComparison(): the oldest makes room, and the newest stays.         *)
LEMMA StoringOne ==
  ASSUME DeployInv, NEW c \in Comparisons, ~InTable(c), StoreComparison(c)
  PROVE  /\ table' \in Seq(Comparisons) /\ Len(table') <= MaxComparisons
         /\ \A i, j \in DOMAIN table' : table'[i] = table'[j] => i = j
         /\ \A d \in Comparisons : InTable(d)' => InTable(d) \/ d = c
         /\ removing \subseteq removing'
         /\ \A d \in removing' : d \in removing \/ (InTable(d) /\ ~InTable(d)')
<1> DEFINE t == Append(table, c)
<1>1. /\ table \in Seq(Comparisons) /\ Len(table) <= MaxComparisons
      /\ \A i, j \in DOMAIN table : table[i] = table[j] => i = j
      /\ MaxComparisons \in Nat \ {0}
  BY CapAssumption DEF DeployInv, Shapes, TableInv
<1>2. /\ t \in Seq(Comparisons) /\ Len(t) = Len(table) + 1
      /\ \A i \in 1 .. Len(table) : t[i] = table[i]
      /\ t[Len(t)] = c
  BY <1>1
<1>3. \A i \in 1 .. Len(table) : table[i] # c
  BY <1>1 DEF InTable
<1>4. /\ table' = Kept(t) /\ removing' = removing \cup Evicted(t)
  BY DEF StoreComparison
<1> HIDE DEF t
<1>5. \A i, j \in 1 .. Len(t) : t[i] = t[j] => i = j
  BY <1>1, <1>2, <1>3
<1>6. CASE Len(t) <= MaxComparisons
  <2>1. table' = t /\ removing' = removing
    BY <1>1, <1>2, <1>4, <1>6 DEF Kept, Evicted
  <2> QED BY <1>1, <1>2, <1>5, <1>6, <2>1 DEF InTable
<1>7. CASE Len(t) > MaxComparisons
  <2>1. Len(table) = MaxComparisons /\ Len(t) - MaxComparisons = 1
    BY <1>1, <1>2, <1>7
  <2>2. table' = SubSeq(t, 2, Len(t)) /\ removing' = removing \cup {t[1]}
    <3>1. Len(t) - MaxComparisons + 1 = 2
      BY <1>1, <1>2, <2>1
    <3>2. table' = SubSeq(t, 2, Len(t))
      BY <1>4, <1>7, <3>1 DEF Kept
    <3>3. 1 .. Len(t) - MaxComparisons = {1}
      BY <2>1
    <3>4. Evicted(t) = {t[1]}
      BY <3>3 DEF Evicted
    <3> QED BY <1>4, <3>2, <3>4
  <2>3. /\ table' \in Seq(Comparisons) /\ Len(table') = MaxComparisons
        /\ \A i \in 1 .. MaxComparisons : table'[i] = t[i + 1]
    <3>1. \A i \in 2 .. Len(t) : t[i] \in Comparisons
      BY <1>2
    <3>2. 2 \in Int /\ Len(t) \in Int /\ 2 <= Len(t) /\ Len(t) - 2 + 1 = MaxComparisons
      BY <1>1, <1>2, <2>1
    <3>3. /\ SubSeq(t, 2, Len(t)) \in Seq(Comparisons)
          /\ Len(SubSeq(t, 2, Len(t))) = IF 2 <= Len(t) THEN Len(t) - 2 + 1 ELSE 0
          /\ \A i \in 1 .. Len(t) - 2 + 1 : SubSeq(t, 2, Len(t))[i] = t[2 + i - 1]
      BY <3>1, <3>2, SubSeqProperties
    <3>4. \A i \in 1 .. MaxComparisons : 2 + i - 1 = i + 1
      BY <1>1
    <3> QED BY <2>2, <3>2, <3>3, <3>4
  <2>4. \A i, j \in DOMAIN table' : table'[i] = table'[j] => i = j
    <3> SUFFICES ASSUME NEW i \in 1 .. MaxComparisons, NEW j \in 1 .. MaxComparisons,
                        table'[i] = table'[j]
                 PROVE  i = j
      BY <2>3
    <3>1. t[i + 1] = t[j + 1]
      BY <2>3
    <3>2. i + 1 \in 1 .. Len(t) /\ j + 1 \in 1 .. Len(t)
      BY <1>1, <1>2, <2>1
    <3>3. i + 1 = j + 1
      BY <1>5, <3>1, <3>2
    <3> QED BY <1>1, <3>3
  <2>5. \A d \in Comparisons : InTable(d)' => InTable(d) \/ d = c
    <3> SUFFICES ASSUME NEW i \in 1 .. MaxComparisons
                 PROVE  table'[i] = c \/ \E j \in DOMAIN table : table[j] = table'[i]
      BY <2>3 DEF InTable
    <3>1. table'[i] = t[i + 1] /\ i + 1 \in 1 .. Len(t)
      BY <1>1, <1>2, <2>1, <2>3
    <3>2. CASE i = MaxComparisons
      BY <3>1, <3>2, <1>2, <2>1
    <3>3. CASE i # MaxComparisons
      <4>1. i + 1 \in 1 .. Len(table)
        BY <3>3, <1>1, <2>1
      <4> QED BY <4>1, <3>1, <1>1, <1>2
    <3> QED BY <3>2, <3>3
  <2>6. t[1] = table[1] /\ 1 \in DOMAIN table
    BY <1>1, <1>2, <2>1
  <2>7. \A i \in DOMAIN table' : table'[i] # t[1]
    <3> SUFFICES ASSUME NEW i \in 1 .. MaxComparisons PROVE table'[i] # t[1]
      BY <2>3
    <3>1. i + 1 \in 1 .. Len(t) /\ 1 \in 1 .. Len(t) /\ i + 1 # 1
      BY <1>1, <1>2, <2>1
    <3> QED BY <1>5, <2>3, <3>1
  <2>8. ASSUME NEW d \in removing', d \notin removing
        PROVE  InTable(d) /\ ~InTable(d)'
    <3>1. d = t[1]
      BY <2>2, <2>8
    <3> QED BY <3>1, <2>6, <2>7 DEF InTable
  <2>9. removing \subseteq removing'
    BY <2>2
  <2> QED BY <1>1, <2>3, <2>4, <2>5, <2>8, <2>9
<1> QED BY <1>1, <1>2, <1>6, <1>7

\* A comparison enters the table with its directories whole; the oldest leaves
\* it first.
LEMMA FinishCompareInv ==
  ASSUME DeployInv, NEW c \in Comparisons, FinishCompare(c)
  PROVE  DeployInv'
<1> USE DEF FinishCompare, orgVars, jobVars
<1>1. cmp[c] \in CmpRecords /\ cmp[c].stage = "list"
      /\ cmp \in [Comparisons -> CmpRecords]
  BY DEF DeployInv, Shapes
<1>2. /\ cmp'[c] = [cmp[c] EXCEPT !.stage = "done", !.rows = Rows(c)]
      /\ \A d \in Comparisons \ {c} : cmp'[d] = cmp[d]
  BY <1>1
<1>3. Rows(c) \subseteq RowRecords
  BY <1>1, RowsTellTheTruth
<1>4. /\ cmp'[c] \in CmpRecords
      /\ cmp'[c].stage = "done" /\ cmp'[c].rows = Rows(c)
      /\ cmp'[c].sourceCopy = cmp[c].sourceCopy
      /\ cmp'[c].targetCopy = cmp[c].targetCopy
      /\ cmp'[c].available = cmp[c].available
  <2> DEFINE rows == Rows(c)
  <2> HIDE DEF rows
  <2> QED BY <1>1, <1>2, <1>3 DEF CmpRecords, CmpStages, rows
<1>5. ~InTable(c) /\ c \notin removing
  BY <1>1 DEF DeployInv, TableInv
<1>6. /\ table' \in Seq(Comparisons) /\ Len(table') <= MaxComparisons
      /\ \A i, j \in DOMAIN table' : table'[i] = table'[j] => i = j
      /\ \A d \in Comparisons : InTable(d)' => InTable(d) \/ d = c
      /\ removing \subseteq removing'
      /\ \A d \in removing' : d \in removing \/ (InTable(d) /\ ~InTable(d)')
  BY <1>5, StoringOne
<1>7. \A d \in removing' : d \in Comparisons
  BY <1>6 DEF DeployInv, Shapes, InTable
<1>8. Shapes'
  <2>1. cmp' \in [Comparisons -> CmpRecords]
    BY <1>1, <1>2, <1>4
  <2> QED BY <1>6, <1>7, <2>1 DEF DeployInv, Shapes
<1>9. Frozen
  BY <1>1, <1>2, <1>6 DEF Frozen
<1>10. TableInv'
  <2>1. ASSUME NEW d \in Comparisons, InTable(d)'
        PROVE  cmp'[d].stage = "done" /\ d \notin removing'
    <3>1. InTable(d) => cmp[d].stage = "done" /\ d \notin removing
      BY DEF DeployInv, TableInv
    <3>2. InTable(d) \/ d = c
      BY <1>6, <2>1
    <3>3. d \notin removing'
      BY <1>5, <1>6, <2>1, <3>1, <3>2
    <3> QED BY <1>2, <1>4, <3>1, <3>2, <3>3
  <2>2. ASSUME NEW d \in removing'
        PROVE  cmp'[d].stage = "done"
    <3>1. d \in Comparisons
      BY <1>7
    <3>2. (d \in removing => cmp[d].stage = "done") /\ (InTable(d) => cmp[d].stage = "done")
      BY <3>1 DEF DeployInv, TableInv
    <3>3. cmp[d].stage = "done"
      BY <1>6, <2>2, <3>2
    <3> QED BY <1>1, <1>2, <3>1, <3>3
  <2> QED BY <1>6, <2>1, <2>2 DEF TableInv, InTable
<1>11. CmpOk(c)'
  <2>1. Rows(c)' = Rows(c)
    BY <1>4 DEF Rows
  <2>2. CmpOk(c) /\ Intact(c)
    BY <1>1 DEF DeployInv, CmpOk
  <2> QED BY <1>4, <2>1, <2>2 DEF CmpOk, Intact
<1>12. \A d \in Comparisons \ {c} :
         cmp'[d] = cmp[d] /\ dirs'[d] = dirs[d] /\ (InTable(d)' => InTable(d))
  BY <1>2, <1>6
<1> QED BY <1>8, <1>9, <1>10, <1>11, <1>12, ComparisonStep DEF requestVars

\* After a restart no comparison can be found, and no request runs.
LEMMA RestartInv ==
  ASSUME DeployInv, Restart
  PROVE  DeployInv'
<1> USE DEF Restart, orgVars
<1>1. /\ cmp \in [Comparisons -> CmpRecords] /\ op \in [Ops -> OpRecords]
      /\ removing' = {} /\ table' = <<>>
  BY DEF DeployInv, Shapes
<1>2. \A c \in Comparisons :
        \/ cmp'[c] = cmp[c]
        \/ /\ cmp[c].stage \notin {"idle", "done", "failed"}
           /\ cmp'[c] = [cmp[c] EXCEPT !.stage = "failed"]
  BY <1>1 DEF Ended
<1>3. \A c \in Comparisons : cmp'[c] \in CmpRecords
  <2> SUFFICES ASSUME NEW c \in Comparisons
               PROVE  cmp'[c] \in CmpRecords
    OBVIOUS
  <2>1. cmp[c] \in CmpRecords
    BY <1>1
  <2> QED BY <2>1, <1>2 DEF CmpRecords, CmpStages
<1>4. \A c \in Comparisons : ~InTable(c)'
  BY <1>1 DEF InTable
<1>5. \A o \in Ops :
        \/ op'[o] = op[o]
        \/ /\ op[o].stage \notin {"idle", "done", "failed"}
           /\ op'[o] = [op[o] EXCEPT !.stage = "failed"]
  BY <1>1 DEF Ended
<1>6. \A o \in Ops : op[o].stage # "idle" =>
        op[o] \in [stage : OpStages \ {"idle"}, on : Comparisons, keys : SUBSET AllKeys,
                   destructive : SUBSET AllKeys, mode : Modes]
  BY <1>1 DEF OpRecords
<1>7. \A o \in Ops : /\ op'[o] \in OpRecords
                     /\ \/ op'[o] = op[o]
                        \/ /\ op[o].stage \notin {"idle", "done", "failed"}
                           /\ op'[o].stage = "failed" /\ op'[o].on = op[o].on
                           /\ op'[o].keys = op[o].keys /\ op'[o].mode = op[o].mode
                           /\ op'[o].destructive = op[o].destructive
  <2> SUFFICES ASSUME NEW o \in Ops
               PROVE  /\ op'[o] \in OpRecords
                      /\ \/ op'[o] = op[o]
                         \/ /\ op[o].stage \notin {"idle", "done", "failed"}
                            /\ op'[o].stage = "failed" /\ op'[o].on = op[o].on
                            /\ op'[o].keys = op[o].keys /\ op'[o].mode = op[o].mode
                            /\ op'[o].destructive = op[o].destructive
    OBVIOUS
  <2>1. CASE op'[o] = op[o]
    BY <1>1, <2>1
  <2>2. CASE op[o].stage \notin {"idle", "done", "failed"}
             /\ op'[o] = [op[o] EXCEPT !.stage = "failed"]
    BY <1>6, <2>2 DEF OpRecords, OpStages
  <2> QED BY <1>5, <2>1, <2>2
<1>8. Shapes'
  <2>1. cmp' \in [Comparisons -> CmpRecords] /\ op' \in [Ops -> OpRecords]
    BY <1>1, <1>3, <1>7
  <2> QED BY <1>1, <2>1 DEF DeployInv, Shapes
<1>9. TableInv'
  BY <1>1, <1>4, CapAssumption DEF TableInv
<1>10. \A c \in Comparisons : CmpOk(c)'
  <2> SUFFICES ASSUME NEW c \in Comparisons
               PROVE  CmpOk(c)'
    OBVIOUS
  <2>1. CmpOk(c) /\ cmp[c] \in CmpRecords /\ dirs' = dirs
    BY <1>1 DEF DeployInv
  <2>2. CASE cmp'[c] = cmp[c]
    BY <2>1, <2>2, <1>4, ComparisonKeeps
  <2>3. CASE cmp'[c] = [cmp[c] EXCEPT !.stage = "failed"]
    <3>1. /\ cmp'[c].stage = "failed" /\ cmp'[c].sourceCopy = cmp[c].sourceCopy
          /\ cmp'[c].targetCopy = cmp[c].targetCopy
      BY <2>1, <2>3 DEF CmpRecords
    <3> QED BY <2>1, <3>1, <1>4 DEF CmpOk
  <2> QED BY <1>2, <2>2, <2>3
<1>11. Frozen
  BY <1>2, <1>4 DEF Frozen
<1>12. RecordsStay /\ \A o \in Ops : InHistory(o)' \/ InSaved(o)' => InSaved(o)
  BY DEF RecordsStay, InHistory, InSaved
<1>13. ASSUME NEW o \in Ops
       PROVE  OpInv(o)'
  <2>1. CASE op'[o] = op[o]
    <3>1. Same(o)
      BY <2>1, <1>12 DEF Same
    <3> QED BY <3>1, <1>11, <1>12, OthersKeep
  <2>2. CASE /\ op[o].stage \notin {"idle", "done", "failed"}
             /\ op'[o].stage = "failed" /\ op'[o].on = op[o].on
             /\ op'[o].keys = op[o].keys /\ op'[o].mode = op[o].mode
             /\ op'[o].destructive = op[o].destructive
    <3>1. OpOk(o) /\ ScopeOk(o) /\ JobOk(o) /\ AbsentOk(o) /\ RecordOk(o)
      BY DEF DeployInv
    <3>2. cmp[op[o].on].stage = "done" /\ op[o].on \in Comparisons
      BY <2>2, <3>1, <1>6 DEF OpOk
    <3>3. cmp'[op[o].on] = cmp[op[o].on]
      BY <3>2, <1>11 DEF Frozen
    <3>4. Scope(o)' = Scope(o) /\ (KeysOk(o) => KeysOk(o)')
      BY <2>2, <3>3, ScopeIsFixed
    <3>5. absent[o] = {} /\ absent'[o] = {}
      BY <2>2, <3>1 DEF AbsentOk, Ended
    <3>6. OpOk(o)'
      BY <2>2, <3>1, <3>2, <3>3, <3>4 DEF OpOk, RowKeys, Packing
    <3>7. ScopeOk(o)' /\ AbsentOk(o)'
      BY <2>2, <3>5 DEF ScopeOk, AbsentOk
    <3>8. JobOk(o)'
      <4>1. ~InTable(op[o].on)'
        BY <1>1 DEF InTable
      <4> QED BY <2>2, <3>1, <3>4, <4>1 DEF JobOk, PartOf
    <3>9. RecordOk(o)'
      <4>1. ~InHistory(o)' /\ ~InSaved(o)' /\ ~InSaved(o)
        BY <2>2, <1>12, Unrecorded
      <4>2. job'[o] = job[o] /\ (job[o].state # "none" => o \in lost')
        BY <4>1
      <4> QED BY <2>2, <4>1, <4>2 DEF RecordOk
    <3> QED BY <3>6, <3>7, <3>8, <3>9 DEF OpInv
  <2> QED BY <1>7, <2>1, <2>2
<1>14. HistoryInv'
  <2>1. /\ Len(history') <= MaxRecords /\ Len(saved') <= MaxRecords
        /\ history' = saved /\ saved' = saved /\ latest' = latest /\ lost \subseteq lost'
    BY DEF DeployInv, HistoryInv
  <2>2. ASSUME latest # None, latest \notin lost'
        PROVE  saved # <<>> /\ saved[1].op = latest
    <3>1. latest \in Ops /\ latest \notin lost
      BY <2>1, <2>2 DEF DeployInv, Shapes
    <3>2. history # <<>> /\ history[1].op = latest /\ history \in Seq(HistoryRecords)
      BY <2>2, <3>1 DEF DeployInv, Shapes, HistoryInv
    <3>3. InHistory(latest)
      <4>1. 1 \in DOMAIN history
        BY <3>2
      <4> QED BY <3>2, <4>1 DEF InHistory
    <3>4. job[latest].state # "none"
      BY <3>1, <3>3 DEF DeployInv, RecordOk
    <3>5. InSaved(latest)
      BY <2>2, <3>1, <3>4
    <3> QED BY <2>2, <3>1, <3>5 DEF DeployInv, HistoryInv
  <2> QED BY <2>1, <2>2 DEF HistoryInv, InSaved
<1> QED BY <1>8, <1>9, <1>10, <1>13, <1>14 DEF DeployInv, OpInv

-----------------------------------------------------------------------------
(* The removal of a directory.                                             *)

\* A request keeps its part when only its directory changes.
LEMMA OnlyScopeDirChanges ==
  ASSUME DeployInv, NEW o \in Ops, ScopeOk(o)',
         UNCHANGED <<cmp, table, op, absent, job, history, saved, lost, sandbox>>
  PROVE  OpInv(o)'
<1>1. OpOk(o) /\ JobOk(o) /\ AbsentOk(o) /\ RecordOk(o)
  BY DEF DeployInv
<1>2. Scope(o)' = Scope(o) /\ (KeysOk(o) => KeysOk(o)')
  BY ScopeIsFixed
<1>3. OpOk(o)'
  BY <1>1, <1>2 DEF OpOk, Packing, RowKeys
<1>4. JobOk(o)'
  BY <1>1, <1>2 DEF JobOk, PartOf, InTable
<1>5. AbsentOk(o)' /\ RecordOk(o)'
  BY <1>1 DEF AbsentOk, InTable, RecordOk, InHistory, InSaved
<1> QED BY <1>3, <1>4, <1>5 DEF OpInv

\* A comparison that is being removed cannot be found.
LEMMA RemovedIsGone ==
  ASSUME DeployInv, NEW c \in removing
  PROVE  c \in Comparisons /\ ~InTable(c) /\ cmp[c].stage = "done"
BY DEF DeployInv, Shapes, TableInv

(* A step that takes files out of the directory of a removed comparison.   *)
LEMMA DirectoryShrinks ==
  ASSUME DeployInv, NEW c \in removing, NEW left,
         left \in [source : SUBSET dirs[c].source, target : SUBSET dirs[c].target],
         dirs' = [dirs EXCEPT ![c] = left],
         UNCHANGED <<orgVars, cmp, table, removing, op, absent, scopeDir, jobVars>>
  PROVE  DeployInv'
<1> USE DEF orgVars, jobVars
<1>1. c \in Comparisons /\ ~InTable(c) /\ cmp[c].stage = "done"
  BY RemovedIsGone
<1>2. dirs \in [Comparisons -> [source : SUBSET (Files \cup {Manifest}),
                                target : SUBSET (Files \cup {Manifest})]]
  BY DEF DeployInv, Shapes
<1>3. dirs'[c] = left /\ \A d \in Comparisons \ {c} : dirs'[d] = dirs[d]
  BY <1>1, <1>2
<1>4. left \in [source : SUBSET (Files \cup {Manifest}),
                target : SUBSET (Files \cup {Manifest})]
  <2>1. dirs[c].source \subseteq Files \cup {Manifest}
        /\ dirs[c].target \subseteq Files \cup {Manifest}
    BY <1>1, <1>2
  <2> QED BY <2>1
<1>5. Shapes'
  <2>1. dirs' \in [Comparisons -> [source : SUBSET (Files \cup {Manifest}),
                                   target : SUBSET (Files \cup {Manifest})]]
    BY <1>1, <1>2, <1>4
  <2> QED BY <2>1 DEF DeployInv, Shapes
<1>6. Frozen
  BY DEF Frozen, InTable
<1>7. TableInv'
  BY DEF DeployInv, TableInv, InTable
<1>8. CmpOk(c)'
  <2>1. Rows(c)' = Rows(c)
    BY DEF Rows
  <2>2. /\ dirs[c].source \subseteq DOMAIN cmp[c].sourceCopy
        /\ dirs[c].target \subseteq DOMAIN cmp[c].targetCopy
        /\ cmp[c].rows = Rows(c)
    BY <1>1 DEF DeployInv, CmpOk
  <2>3. left.source \subseteq dirs[c].source /\ left.target \subseteq dirs[c].target
    OBVIOUS
  <2>4. ~InTable(c)'
    BY <1>1 DEF InTable
  <2> QED BY <1>1, <1>3, <2>1, <2>2, <2>3, <2>4 DEF CmpOk
<1> QED BY <1>1, <1>3, <1>5, <1>6, <1>7, <1>8, ComparisonStep DEF requestVars, InTable

(* A step that takes something out of a scope directory.                   *)
LEMMA ScopeDirShrinks ==
  ASSUME DeployInv, NEW c \in removing, NEW o \in Ops, NEW left \in Scopes,
         op[o].stage \in {"display", "submit"}, op[o].on = c,
         left.files \subseteq Scope(o).files,
         left.deletions \subseteq Scope(o).deletions,
         left.members = Scope(o).members,
         scopeDir' = [scopeDir EXCEPT ![o] = left],
         UNCHANGED <<orgVars, cmpVars, op, absent, jobVars>>
  PROVE  DeployInv'
<1> USE DEF orgVars, jobVars, cmpVars
<1>1. c \in Comparisons /\ ~InTable(c) /\ cmp[c].stage = "done"
  BY RemovedIsGone
<1>2. scopeDir \in [Ops -> Scopes]
  BY DEF DeployInv, Shapes
<1>3. scopeDir'[o] = left /\ \A p \in Ops \ {o} : scopeDir'[p] = scopeDir[p]
  BY <1>2
<1>4. Shapes'
  <2>1. scopeDir' \in [Ops -> Scopes]
    BY <1>2
  <2> QED BY <2>1 DEF DeployInv, Shapes
<1>5. Scope(o)' = Scope(o)
  BY ScopeIsFixed
<1>6. ~InTable(op[o].on)'
  BY <1>1 DEF InTable
<1>7. ScopeOk(o)'
  BY <1>3, <1>5, <1>6 DEF ScopeOk, PartOf
<1>8. OpInv(o)'
  BY <1>7, OnlyScopeDirChanges
<1>9. RecordsStay /\ HistoryInv'
  BY DEF RecordsStay, InHistory, InSaved, DeployInv, HistoryInv, InSaved
<1> QED BY <1>3, <1>4, <1>8, <1>9, RequestStep DEF Same, InHistory, InSaved

\* A removal takes files of a comparison that cannot be found, or of its packages.
LEMMA RemoveSomeInv ==
  ASSUME DeployInv, NEW c \in Comparisons, RemoveSome(c)
  PROVE  DeployInv'
<1> USE DEF orgVars, jobVars, cmpVars
<1>1. c \in removing /\ UNCHANGED <<orgVars, cmp, table, removing, op, absent, jobVars>>
  BY DEF RemoveSome
<1>2. /\ dirs \in [Comparisons -> [source : SUBSET (Files \cup {Manifest}),
                                   target : SUBSET (Files \cup {Manifest})]]
      /\ dirs[c] \in [source : SUBSET (Files \cup {Manifest}),
                      target : SUBSET (Files \cup {Manifest})]
      /\ scopeDir \in [Ops -> Scopes]
  BY DEF DeployInv, Shapes
<1>3. ASSUME NEW f, UNCHANGED scopeDir,
             \/ dirs' = [dirs EXCEPT ![c].source = @ \ {f}]
             \/ dirs' = [dirs EXCEPT ![c].target = @ \ {f}]
      PROVE  DeployInv'
  <2>1. \/ dirs' = [dirs EXCEPT ![c] = [source |-> dirs[c].source \ {f},
                                        target |-> dirs[c].target]]
        \/ dirs' = [dirs EXCEPT ![c] = [source |-> dirs[c].source,
                                        target |-> dirs[c].target \ {f}]]
    BY <1>2, <1>3
  <2> QED BY <1>1, <1>3, <2>1, DirectoryShrinks
<1>4. ASSUME NEW o \in Ops, op[o].stage \in {"display", "submit"}, op[o].on = c,
             scopeDir[o] = Scope(o), UNCHANGED dirs,
             \/ \E f \in scopeDir[o].files :
                  scopeDir' = [scopeDir EXCEPT ![o].files = @ \ {f}]
             \/ scopeDir' = [scopeDir EXCEPT ![o].manifest = FALSE]
             \/ scopeDir' = [scopeDir EXCEPT ![o].deletions = {}]
      PROVE  DeployInv'
  <2> DEFINE old == scopeDir[o]
  <2>1. old \in Scopes
    BY <1>2
  <2>2. \/ \E f \in old.files :
             scopeDir' = [scopeDir EXCEPT ![o] = [old EXCEPT !.files = old.files \ {f}]]
        \/ scopeDir' = [scopeDir EXCEPT ![o] = [old EXCEPT !.manifest = FALSE]]
        \/ scopeDir' = [scopeDir EXCEPT ![o] = [old EXCEPT !.deletions = {}]]
    BY <1>2, <1>4
  <2> DEFINE Smaller(left) == /\ left \in Scopes
                              /\ left.files \subseteq old.files
                              /\ left.deletions \subseteq old.deletions
                              /\ left.members = old.members
                              /\ scopeDir' = [scopeDir EXCEPT ![o] = left]
  <2>3. PICK left : Smaller(left)
    <3>1. ASSUME NEW f \in old.files,
                 scopeDir' = [scopeDir EXCEPT ![o] = [old EXCEPT !.files = old.files \ {f}]]
          PROVE  \E left : Smaller(left)
      <4> DEFINE left == [old EXCEPT !.files = old.files \ {f}]
      <4>1. /\ left \in Scopes /\ left.files \subseteq old.files
            /\ left.deletions \subseteq old.deletions /\ left.members = old.members
        BY <2>1 DEF Scopes
      <4> HIDE DEF left
      <4> QED BY <3>1, <4>1 DEF left
    <3>2. ASSUME scopeDir' = [scopeDir EXCEPT ![o] = [old EXCEPT !.manifest = FALSE]]
          PROVE  \E left : Smaller(left)
      <4> DEFINE left == [old EXCEPT !.manifest = FALSE]
      <4>1. /\ left \in Scopes /\ left.files \subseteq old.files
            /\ left.deletions \subseteq old.deletions /\ left.members = old.members
        BY <2>1 DEF Scopes
      <4> HIDE DEF left
      <4> QED BY <3>2, <4>1 DEF left
    <3>3. ASSUME scopeDir' = [scopeDir EXCEPT ![o] = [old EXCEPT !.deletions = {}]]
          PROVE  \E left : Smaller(left)
      <4> DEFINE left == [old EXCEPT !.deletions = {}]
      <4>1. /\ left \in Scopes /\ left.files \subseteq old.files
            /\ left.deletions \subseteq old.deletions /\ left.members = old.members
        BY <2>1 DEF Scopes
      <4> HIDE DEF left
      <4> QED BY <3>3, <4>1 DEF left
    <3> QED BY <2>2, <3>1, <3>2, <3>3
  <2> QED BY <1>1, <1>4, <2>3, ScopeDirShrinks
<1>5. \/ /\ UNCHANGED scopeDir
         /\ \E f : \/ dirs' = [dirs EXCEPT ![c].source = @ \ {f}]
                   \/ dirs' = [dirs EXCEPT ![c].target = @ \ {f}]
      \/ /\ UNCHANGED dirs
         /\ \E o \in Ops :
              /\ op[o].stage \in {"display", "submit"} /\ op[o].on = c
              /\ scopeDir[o] = Scope(o)
              /\ \/ \E f \in scopeDir[o].files :
                      scopeDir' = [scopeDir EXCEPT ![o].files = @ \ {f}]
                 \/ scopeDir' = [scopeDir EXCEPT ![o].manifest = FALSE]
                 \/ scopeDir' = [scopeDir EXCEPT ![o].deletions = {}]
  BY DEF RemoveSome
<1> QED BY <1>3, <1>4, <1>5

\* A removal ends with directories that nobody can find.
LEMMA RemoveRestInv ==
  ASSUME DeployInv, NEW c \in Comparisons, RemoveRest(c)
  PROVE  DeployInv'
<1> USE DEF RemoveRest, orgVars, jobVars
<1>1. ~InTable(c) /\ cmp[c].stage = "done"
  BY RemovedIsGone
<1>2. /\ dirs \in [Comparisons -> [source : SUBSET (Files \cup {Manifest}),
                                   target : SUBSET (Files \cup {Manifest})]]
      /\ scopeDir \in [Ops -> Scopes]
  BY DEF DeployInv, Shapes
<1>3. NoScope \in Scopes
  BY DEF NoScope, Scopes
<1>4. Shapes'
  <2>1. dirs' \in [Comparisons -> [source : SUBSET (Files \cup {Manifest}),
                                   target : SUBSET (Files \cup {Manifest})]]
    BY <1>2
  <2>2. scopeDir' \in [Ops -> Scopes]
    BY <1>2, <1>3
  <2> QED BY <2>1, <2>2 DEF DeployInv, Shapes
<1>5. TableInv'
  BY DEF DeployInv, TableInv, InTable
<1>6. ASSUME NEW d \in Comparisons
      PROVE  CmpOk(d)'
  <2>1. CASE d = c
    <3>1. CmpOk(c) /\ Rows(c)' = Rows(c) /\ ~InTable(c)'
      BY <1>1 DEF DeployInv, Rows, InTable
    <3>2. dirs'[c] = [source |-> {}, target |-> {}]
      BY <1>2
    <3> QED BY <1>1, <2>1, <3>1, <3>2 DEF CmpOk
  <2>2. CASE d # c
    <3>1. dirs'[d] = dirs[d]
      BY <1>2, <2>2
    <3> QED BY <3>1, ComparisonKeeps DEF InTable
  <2> QED BY <2>1, <2>2
<1>7. ASSUME NEW o \in Ops
      PROVE  OpInv(o)'
  <2>1. ScopeOk(o)
    BY DEF DeployInv
  <2>2. Scope(o)' = Scope(o)
    BY ScopeIsFixed
  <2>3. CASE op[o].stage # "idle" /\ op[o].on = c
    <3>1. scopeDir'[o] = NoScope
      BY <2>3
    <3>2. ~InTable(op[o].on)'
      BY <1>1, <2>3 DEF InTable
    <3>3. ScopeOk(o)'
      BY <3>1, <3>2 DEF ScopeOk, PartOf, NoScope
    <3> QED BY <3>3, OnlyScopeDirChanges
  <2>4. CASE ~(op[o].stage # "idle" /\ op[o].on = c)
    <3>1. scopeDir'[o] = scopeDir[o]
      BY <2>4
    <3>2. ScopeOk(o)'
      BY <2>1, <2>2, <3>1 DEF ScopeOk, PartOf, InTable
    <3> QED BY <3>2, OnlyScopeDirChanges
  <2> QED BY <2>3, <2>4
<1>8. HistoryInv'
  BY DEF DeployInv, HistoryInv, InSaved
<1> QED BY <1>4, <1>5, <1>6, <1>7, <1>8 DEF DeployInv, OpInv

-----------------------------------------------------------------------------
(* The steps of requests.                                                  *)

(* A request that has begun.                                               *)
FullOps ==
  [stage : OpStages \ {"idle"}, on : Comparisons, keys : SUBSET AllKeys,
   destructive : SUBSET AllKeys, mode : Modes]

(* A handler that has looked its comparison up.                            *)
LEMMA NewRequest ==
  ASSUME DeployInv, NEW o \in Ops, NEW c \in Comparisons,
         op[o].stage = "idle", cmp[c].stage = "done",
         NEW stage \in {"failed", "diff", "preview", "scope"},
         NEW keys \in SUBSET RowKeys(c), NEW doomed \in SUBSET Deletable(c),
         NEW mode \in Modes, Start(o, c, stage, keys, doomed, mode),
         stage = "scope" => keys \ doomed \subseteq SourceKeys(c) /\ Closed(c, keys),
         UNCHANGED <<orgVars, cmpVars, absent, scopeDir, jobVars>>
  PROVE  DeployInv'
<1> USE DEF orgVars, jobVars
<1>1. /\ job[o].state = "none" /\ job[o] = NoJob /\ absent[o] = {}
      /\ op \in [Ops -> OpRecords]
  BY DEF DeployInv, JobOk, AbsentOk, Ended, Shapes
<1>2. /\ op'[o] = [stage |-> stage, on |-> c, keys |-> keys, destructive |-> doomed,
                   mode |-> mode]
      /\ \A p \in Ops \ {o} : op'[p] = op[p]
  BY <1>1 DEF Start
<1>3. keys \subseteq AllKeys /\ doomed \subseteq AllKeys
  BY SourceKeysAreNotDeletable
<1>4. Shapes'
  <2>1. op'[o] \in OpRecords
    BY <1>2, <1>3 DEF OpRecords, OpStages
  <2>2. op' \in [Ops -> OpRecords]
    BY <1>1, <2>1 DEF Start
  <2> QED BY <2>2 DEF DeployInv, Shapes, cmpVars
<1>5. /\ RowKeys(c)' = RowKeys(c) /\ SourceKeys(c)' = SourceKeys(c)
      /\ Deletable(c)' = Deletable(c) /\ cmp' = cmp
  BY DEF RowKeys, SourceKeys, Deletable, cmpVars
<1>6. /\ op'[o].stage = stage /\ op'[o].on = c /\ op'[o].keys = keys
      /\ op'[o].destructive = doomed /\ op'[o].mode = mode
  BY <1>2
<1>7. OpOk(o)'
  <2>1. op'[o].keys \subseteq RowKeys(op[o].on)'
    BY <1>5, <1>6 DEF RowKeys
  <2>2. Packing(o)' => KeysOk(o)'
    <3> SUFFICES ASSUME Packing(o)'
                 PROVE  KeysOk(o)'
      OBVIOUS
    <3>1. stage = "scope"
      BY <1>1, <1>6 DEF Packing
    <3>2. keys \ doomed \subseteq SourceKeys(c) /\ Closed(c, keys)
      BY <3>1
    <3> QED BY <1>5, <1>6, <3>2 DEF KeysOk, Closed, SourceKeys, Deletable
  <2> QED BY <1>5, <1>6, <2>1, <2>2 DEF OpOk
<1>8. OpInv(o)'
  BY <1>1, <1>6, <1>7, Unrecorded DEF OpInv, ScopeOk, JobOk, AbsentOk, RecordOk
<1>9. RecordsStay /\ HistoryInv'
  BY DEF RecordsStay, InHistory, InSaved, DeployInv, HistoryInv, InSaved
<1> QED BY <1>2, <1>4, <1>8, <1>9, RequestStep DEF Same, InHistory, InSaved

\* A request that is refused has failed before it did anything.
LEMMA RejectInv ==
  ASSUME DeployInv, NEW o \in Ops, NEW c \in Comparisons, Reject(o, c)
  PROVE  DeployInv'
<1>1. "validate" \in Modes
  BY DEF Modes
<1> QED BY <1>1, NewRequest DEF Reject

\* A comparison that can be found is finished.
LEMMA FoundIsDone ==
  ASSUME DeployInv, NEW c \in Comparisons, InTable(c)
  PROVE  cmp[c].stage = "done"
BY DEF DeployInv, TableInv

\* A diff is asked for a row of a comparison that can be found.
LEMMA AskDiffInv ==
  ASSUME DeployInv, NEW o \in Ops, NEW c \in Comparisons, NEW key \in RowKeys(c),
         AskDiff(o, c, key)
  PROVE  DeployInv'
<1>1. "validate" \in Modes /\ cmp[c].stage = "done"
  BY FoundIsDone DEF Modes, AskDiff
<1>2. {key} \in SUBSET RowKeys(c) /\ {} \in SUBSET Deletable(c)
  OBVIOUS
<1>3. /\ Start(o, c, "diff", {key}, {}, "validate") /\ op[o].stage = "idle"
      /\ UNCHANGED <<orgVars, cmpVars, absent, scopeDir, jobVars>>
  BY DEF AskDiff
<1> QED BY <1>1, <1>2, <1>3, NewRequest

\* A package is asked for rows of a comparison that can be found.
LEMMA AskPackageInv ==
  ASSUME DeployInv, NEW o \in Ops, NEW c \in Comparisons,
         NEW stage \in {"preview", "scope"}, NEW keys \in Picks(c), NEW doomed,
         NEW mode \in Modes, AskPackage(o, c, stage, keys, doomed, mode)
  PROVE  DeployInv'
<1> DEFINE selected == SelectedKeys(c, keys, doomed)
<1>1. cmp[c].stage = "done"
  BY FoundIsDone DEF AskPackage
<1>2. /\ selected \subseteq RowKeys(c)
      /\ selected \ (doomed \cap Deletable(c)) \subseteq SourceKeys(c)
      /\ Closed(c, selected)
  BY <1>1, SelectedKeysAreOk
<1>3. /\ Start(o, c, stage, selected, doomed \cap Deletable(c), mode)
      /\ op[o].stage = "idle"
      /\ UNCHANGED <<orgVars, cmpVars, absent, scopeDir, jobVars>>
  BY DEF AskPackage
<1> HIDE DEF selected
<1> QED BY <1>1, <1>2, <1>3, NewRequest

\* A request that fails leaves no job.
LEMMA RequestFails ==
  ASSUME DeployInv, NEW o \in Ops, Fail(o),
         op[o].stage \in {"preview", "scope", "display", "submit"},
         scopeDir' \in [Ops -> Scopes],
         \A p \in Ops \ {o} : scopeDir'[p] = scopeDir[p],
         UNCHANGED <<orgVars, cmpVars, absent, jobVars>>
  PROVE  DeployInv'
<1> USE DEF orgVars, jobVars
<1>1. /\ job[o].state = "none" /\ job[o] = NoJob /\ absent[o] = {}
      /\ op \in [Ops -> OpRecords]
  BY DEF DeployInv, JobOk, AbsentOk, Ended, Shapes
<1>2. op[o].on \in Comparisons /\ cmp[op[o].on].stage = "done"
  BY <1>1 DEF DeployInv, OpOk, OpRecords
<1>3. /\ op'[o] = [stage |-> "failed", on |-> op[o].on, keys |-> {},
                   destructive |-> {}, mode |-> "validate"]
      /\ \A p \in Ops \ {o} : op'[p] = op[p]
  BY <1>1 DEF Fail, Start
<1>4. Shapes'
  <2>1. op'[o] \in OpRecords
    BY <1>2, <1>3 DEF OpRecords, OpStages, Modes
  <2>2. op' \in [Ops -> OpRecords]
    BY <1>1, <2>1 DEF Fail, Start
  <2> QED BY <2>2 DEF DeployInv, Shapes, cmpVars
<1>5. OpInv(o)'
  BY <1>1, <1>2, <1>3, Unrecorded
     DEF OpInv, OpOk, Packing, ScopeOk, JobOk, AbsentOk, RecordOk, cmpVars
<1>6. RecordsStay /\ HistoryInv'
  BY DEF RecordsStay, InHistory, InSaved, DeployInv, HistoryInv, InSaved
<1> QED BY <1>3, <1>4, <1>5, <1>6, RequestStep DEF Same, InHistory, InSaved

(* A handler that goes on to its next stage.                               *)
LEMMA Moving ==
  ASSUME DeployInv, NEW o \in Ops, op[o].stage # "idle",
         NEW stage \in OpStages \ {"idle"}, Move(o, stage), UNCHANGED cmpVars
  PROVE  /\ op' \in [Ops -> OpRecords]
         /\ \A p \in Ops \ {o} : op'[p] = op[p]
         /\ op'[o].stage = stage /\ op'[o].mode = op[o].mode /\ op'[o].on = op[o].on
         /\ op[o].on \in Comparisons /\ cmp[op[o].on].stage = "done"
         /\ op[o].mode \in Modes
         /\ Scope(o)' = Scope(o)
         /\ KeysOk(o) => KeysOk(o)'
         /\ \A scope : PartOf(o, scope) => PartOf(o, scope)'
         /\ (Packing(o)' => KeysOk(o)) => OpOk(o)'
<1>1. /\ op \in [Ops -> OpRecords] /\ op[o] \in FullOps
      /\ cmp[op[o].on].stage = "done" /\ op[o].keys \subseteq RowKeys(op[o].on)
  BY DEF DeployInv, Shapes, OpOk, OpRecords, FullOps
<1>2. op'[o] = [op[o] EXCEPT !.stage = stage] /\ \A p \in Ops \ {o} : op'[p] = op[p]
  BY <1>1 DEF Move
<1>3. /\ op'[o] \in FullOps /\ op'[o].stage = stage /\ op'[o].on = op[o].on
      /\ op'[o].keys = op[o].keys /\ op'[o].destructive = op[o].destructive
      /\ op'[o].mode = op[o].mode
  BY <1>1, <1>2 DEF FullOps
<1>4. op' \in [Ops -> OpRecords]
  <2>1. op'[o] \in OpRecords
    BY <1>3 DEF FullOps, OpRecords
  <2> QED BY <1>1, <2>1 DEF Move
<1>5. Scope(o)' = Scope(o) /\ (KeysOk(o) => KeysOk(o)')
  BY <1>3, ScopeIsFixed DEF cmpVars
<1>6. \A scope : PartOf(o, scope) => PartOf(o, scope)'
  BY <1>3, <1>5 DEF PartOf, InTable, cmpVars
<1>7. (Packing(o)' => KeysOk(o)) => OpOk(o)'
  BY <1>1, <1>3, <1>5 DEF OpOk, RowKeys, cmpVars
<1>8. op[o].on \in Comparisons /\ op[o].mode \in Modes
  BY <1>1 DEF FullOps
<1> QED BY <1>1, <1>2, <1>3, <1>4, <1>5, <1>6, <1>7, <1>8

(* A file is missing in the directory of a comparison that can be found    *)
(* only if the retrieval did not deliver it.                               *)
LEMMA ReadDiffInv ==
  ASSUME DeployInv, NEW o \in Ops, ReadDiff(o)
  PROVE  DeployInv'
<1> USE DEF orgVars, jobVars
<1> DEFINE c == op[o].on
<1>1. /\ op[o].stage = "diff" /\ absent' = [absent EXCEPT ![o] = Missing(o)]
      /\ Move(o, "done") /\ UNCHANGED <<orgVars, cmpVars, scopeDir, jobVars>>
  BY DEF ReadDiff
<1>2. "done" \in OpStages \ {"idle"}
  BY DEF OpStages
<1>3. /\ op' \in [Ops -> OpRecords] /\ op'[o].stage = "done" /\ op'[o].on = c
      /\ \A p \in Ops \ {o} : op'[p] = op[p]
      /\ c \in Comparisons /\ cmp[c].stage = "done"
      /\ (Packing(o)' => KeysOk(o)) => OpOk(o)'
  BY <1>1, <1>2, Moving
<1>4. /\ job[o].state = "none" /\ job[o] = NoJob
      /\ absent \in [Ops -> SUBSET ({"source", "target"} \X Files)]
  BY <1>1 DEF DeployInv, JobOk, Shapes
<1>5. OpOk(o)'
  BY <1>1, <1>3, <1>4 DEF Packing
<1>6. FilesOf(o) \subseteq Files
  <2> SUFFICES ASSUME NEW k \in op[o].keys
               PROVE  Row(c, k).files \subseteq Files
    BY DEF FilesOf
  <2>1. k \in RowKeys(c)
    BY <1>1 DEF DeployInv, OpOk
  <2>2. Row(c, k) \in cmp[c].rows
    BY <2>1 DEF Row, RowKeys
  <2>3. Row(c, k) \in RowRecords
    BY <1>3, <2>2, RowsOfDone
  <2> QED BY <2>3 DEF RowRecords
<1>7. /\ Missing(o) \in SUBSET ({"source", "target"} \X Files)
      /\ \A missing \in Missing(o) :
           \/ missing[1] = "source" /\ missing[2] \notin dirs[c].source
           \/ missing[1] = "target" /\ missing[2] \notin dirs[c].target /\ cmp[c].available
  BY <1>6 DEF Missing
<1>8. InTable(c) => Intact(c)
  BY <1>3 DEF DeployInv, CmpOk
<1>9. absent'[o] = Missing(o) /\ \A p \in Ops \ {o} : absent'[p] = absent[p]
  BY <1>1, <1>4
<1>10. AbsentOk(o)'
  <2>1. InTable(op[o].on)' = InTable(c) /\ cmp' = cmp
    BY <1>1, <1>3 DEF InTable, cmpVars
  <2> SUFFICES ASSUME NEW missing \in Missing(o)
               PROVE  \/ ~InTable(op[o].on)'
                      \/ missing[1] = "source"
                         /\ missing[2] \notin DOMAIN cmp'[op'[o].on].sourceCopy
                      \/ missing[1] = "target"
                         /\ missing[2] \notin DOMAIN cmp'[op'[o].on].targetCopy
                         /\ cmp'[op'[o].on].available
    BY <1>3, <1>9 DEF AbsentOk, Ended
  <2> QED BY <1>3, <1>7, <1>8, <2>1 DEF Intact
<1>11. Shapes'
  <2>1. absent' \in [Ops -> SUBSET ({"source", "target"} \X Files)]
    BY <1>1, <1>4, <1>7
  <2> QED BY <1>1, <1>3, <2>1 DEF DeployInv, Shapes, cmpVars
<1>12. OpInv(o)'
  BY <1>1, <1>3, <1>4, <1>5, <1>10, Unrecorded DEF OpInv, ScopeOk, JobOk, RecordOk
<1>13. RecordsStay /\ HistoryInv'
  BY <1>1 DEF RecordsStay, InHistory, InSaved, DeployInv, HistoryInv, InSaved
<1> QED BY <1>1, <1>3, <1>9, <1>11, <1>12, <1>13, RequestStep DEF Same, InHistory, InSaved

\* A preview reads the files and keeps none.
LEMMA BuildPreviewInv ==
  ASSUME DeployInv, NEW o \in Ops, BuildPreview(o)
  PROVE  DeployInv'
<1> USE DEF orgVars, jobVars
<1>1. /\ op[o].stage = "preview" /\ (Move(o, "done") \/ Fail(o))
      /\ UNCHANGED <<orgVars, cmpVars, absent, scopeDir, jobVars>>
  BY DEF BuildPreview
<1>2. CASE Fail(o)
  BY <1>1, <1>2, RequestFails DEF DeployInv, Shapes
<1>3. CASE Move(o, "done")
  <2>1. "done" \in OpStages \ {"idle"}
    BY DEF OpStages
  <2>2. /\ op' \in [Ops -> OpRecords] /\ op'[o].stage = "done"
        /\ \A p \in Ops \ {o} : op'[p] = op[p]
        /\ (Packing(o)' => KeysOk(o)) => OpOk(o)'
    BY <1>1, <1>3, <2>1, Moving
  <2>3. job[o].state = "none" /\ job[o] = NoJob /\ absent[o] = {}
    BY <1>1 DEF DeployInv, JobOk, AbsentOk, Ended
  <2>4. OpInv(o)'
    BY <1>1, <2>2, <2>3, Unrecorded DEF OpInv, ScopeOk, JobOk, AbsentOk, RecordOk, Packing
  <2>5. Shapes'
    BY <1>1, <2>2 DEF DeployInv, Shapes, cmpVars
  <2>6. RecordsStay /\ HistoryInv'
    BY <1>1 DEF RecordsStay, InHistory, InSaved, DeployInv, HistoryInv, InSaved
  <2> QED BY <1>1, <2>2, <2>4, <2>5, <2>6, RequestStep DEF Same, InHistory, InSaved
<1> QED BY <1>1, <1>2, <1>3

\* What is packed is a part of what was asked for, and all of it if the files
\* are there.
LEMMA BuildScopeInv ==
  ASSUME DeployInv, NEW o \in Ops, BuildScope(o)
  PROVE  DeployInv'
<1> USE DEF orgVars, jobVars
<1>1. /\ op[o].stage = "scope"
      /\ UNCHANGED <<orgVars, cmpVars, absent, jobVars>>
      /\ scopeDir \in [Ops -> Scopes]
  BY DEF BuildScope, DeployInv, Shapes
<1>2. CASE ~CanBuild(o)
  <2>1. Fail(o) /\ UNCHANGED scopeDir
    BY <1>2 DEF BuildScope
  <2> QED BY <1>1, <2>1, RequestFails
<1>3. CASE CanBuild(o)
  <2> DEFINE next == IF op[o].mode = "validate" THEN "display" ELSE "submit"
  <2>1. scopeDir' = [scopeDir EXCEPT ![o] = Scope(o)] /\ Move(o, next)
    BY <1>3 DEF BuildScope
  <2>2. next \in OpStages \ {"idle"} /\ next \in {"display", "submit"}
    BY DEF OpStages
  <2> HIDE DEF next
  <2>3. /\ op' \in [Ops -> OpRecords] /\ op'[o].stage = next
        /\ \A p \in Ops \ {o} : op'[p] = op[p]
        /\ Scope(o)' = Scope(o)
        /\ \A scope : PartOf(o, scope) => PartOf(o, scope)'
        /\ (Packing(o)' => KeysOk(o)) => OpOk(o)'
    BY <1>1, <2>1, <2>2, Moving
  <2>4. job[o].state = "none" /\ job[o] = NoJob /\ absent[o] = {} /\ KeysOk(o)
    BY <1>1 DEF DeployInv, JobOk, AbsentOk, Ended, OpOk, Packing
  <2>5. Scope(o) \in Scopes
    BY <1>1, <2>4, PackageOfRequest
  <2>6. scopeDir' \in [Ops -> Scopes] /\ scopeDir'[o] = Scope(o)
        /\ \A p \in Ops \ {o} : scopeDir'[p] = scopeDir[p]
    BY <1>1, <2>1, <2>5
  <2>7. ScopeOk(o)'
    BY <2>3, <2>6 DEF ScopeOk, PartOf
  <2>8. OpInv(o)'
    BY <1>1, <2>2, <2>3, <2>4, <2>7, Unrecorded DEF OpInv, JobOk, AbsentOk, RecordOk
  <2>9. Shapes'
    BY <1>1, <2>3, <2>6 DEF DeployInv, Shapes, cmpVars
  <2>10. RecordsStay /\ HistoryInv'
    BY <1>1 DEF RecordsStay, InHistory, InSaved, DeployInv, HistoryInv, InSaved
  <2> QED BY <1>1, <2>3, <2>6, <2>8, <2>9, <2>10, RequestStep DEF Same, InHistory, InSaved
<1> QED BY <1>2, <1>3

\* The target is looked up before the job is submitted.
LEMMA DisplayInv ==
  ASSUME DeployInv, NEW o \in Ops, Display(o)
  PROVE  DeployInv'
<1> USE DEF orgVars, jobVars
<1>1. /\ op[o].stage = "display" /\ Move(o, "submit")
      /\ UNCHANGED <<orgVars, cmpVars, absent, scopeDir, jobVars>>
  BY DEF Display
<1>2. "submit" \in OpStages \ {"idle"}
  BY DEF OpStages
<1>3. /\ op' \in [Ops -> OpRecords] /\ op'[o].stage = "submit"
      /\ \A p \in Ops \ {o} : op'[p] = op[p]
      /\ \A scope : PartOf(o, scope) => PartOf(o, scope)'
      /\ (Packing(o)' => KeysOk(o)) => OpOk(o)'
  BY <1>1, <1>2, Moving
<1>4. /\ job[o].state = "none" /\ job[o] = NoJob /\ absent[o] = {} /\ KeysOk(o)
      /\ PartOf(o, scopeDir[o])
  BY <1>1 DEF DeployInv, JobOk, AbsentOk, Ended, OpOk, Packing, ScopeOk
<1>5. ScopeOk(o)'
  BY <1>1, <1>3, <1>4 DEF ScopeOk
<1>6. OpInv(o)'
  BY <1>1, <1>3, <1>4, <1>5, Unrecorded DEF OpInv, JobOk, AbsentOk, RecordOk
<1>7. Shapes'
  BY <1>1, <1>3 DEF DeployInv, Shapes, cmpVars
<1>8. RecordsStay /\ HistoryInv'
  BY <1>1 DEF RecordsStay, InHistory, InSaved, DeployInv, HistoryInv, InSaved
<1> QED BY <1>1, <1>3, <1>6, <1>7, <1>8, RequestStep DEF Same, InHistory, InSaved

\* A command that fails before the org accepted leaves no job.
LEMMA CommandFailsInv ==
  ASSUME DeployInv, NEW o \in Ops, CommandFails(o)
  PROVE  DeployInv'
<1> USE DEF orgVars, jobVars
<1>1. NoScope \in Scopes /\ scopeDir \in [Ops -> Scopes]
  BY DEF NoScope, Scopes, DeployInv, Shapes
<1>2. /\ op[o].stage \in {"display", "submit"} /\ Fail(o)
      /\ scopeDir' = [scopeDir EXCEPT ![o] = NoScope]
      /\ UNCHANGED <<orgVars, cmpVars, absent, jobVars>>
  BY DEF CommandFails
<1>3. scopeDir' \in [Ops -> Scopes] /\ \A p \in Ops \ {o} : scopeDir'[p] = scopeDir[p]
  BY <1>1, <1>2
<1> QED BY <1>2, <1>3, RequestFails

(* What the CLI is told: a validation that is a `start` is a dry run, and  *)
(* one by the org runs tests.                                              *)
LEMMA ArgumentsOfJob ==
  ASSUME NEW mode \in Modes, NEW testLevel \in TestLevels, NEW isSandbox \in BOOLEAN
  PROVE  /\ BuildDeployArgs(mode, testLevel, isSandbox) \in Arguments
         /\ LET args == BuildDeployArgs(mode, testLevel, mode = "validate" /\ isSandbox)
            IN  /\ args.command = "validate" => args.testLevel # "NoTestRun"
                /\ Commits(args) => mode = "deploy"
BY DEF BuildDeployArgs, Arguments, Commits, Modes, TestLevels

\* The job keeps the package and the arguments of its mode.
LEMMA SubmitInv ==
  ASSUME DeployInv, NEW o \in Ops, NEW testLevel \in TestLevels, Submit(o, testLevel)
  PROVE  DeployInv'
<1> USE DEF orgVars
<1> DEFINE isSandbox == op[o].mode = "validate" /\ sandbox
           args == BuildDeployArgs(op[o].mode, testLevel, isSandbox)
<1>1. /\ op[o].stage = "submit" /\ Move(o, "answer") /\ scopeDir[o].manifest
      /\ job' = [job EXCEPT ![o] = [state |-> "queued", scope |-> scopeDir[o],
                                    args |-> args]]
      /\ scopeDir' = [scopeDir EXCEPT ![o] = NoScope]
      /\ UNCHANGED <<orgVars, cmpVars, absent, history, saved, latest, lost>>
  BY DEF Submit
<1>2. "answer" \in OpStages \ {"idle"}
  BY DEF OpStages
<1>3. /\ op' \in [Ops -> OpRecords] /\ op'[o].stage = "answer"
      /\ op'[o].mode = op[o].mode /\ op[o].mode \in Modes
      /\ \A p \in Ops \ {o} : op'[p] = op[p]
      /\ \A scope : PartOf(o, scope) => PartOf(o, scope)'
      /\ (Packing(o)' => KeysOk(o)) => OpOk(o)'
  BY <1>1, <1>2, Moving
<1>4. /\ absent[o] = {} /\ KeysOk(o) /\ PartOf(o, scopeDir[o])
      /\ scopeDir \in [Ops -> Scopes] /\ job \in [Ops -> JobRecords]
      /\ sandbox \in BOOLEAN
  BY <1>1 DEF DeployInv, AbsentOk, Ended, OpOk, Packing, ScopeOk, Shapes
<1>5. args \in Arguments
  <2>1. isSandbox \in BOOLEAN
    BY <1>4
  <2> QED BY <1>3, <2>1, ArgumentsOfJob
<1>6. NoScope \in Scopes
  BY DEF NoScope, Scopes
<1> HIDE DEF args
<1>7. /\ job'[o].state = "queued" /\ job'[o].scope = scopeDir[o] /\ job'[o].args = args
      /\ \A p \in Ops \ {o} : job'[p] = job[p] /\ scopeDir'[p] = scopeDir[p]
  BY <1>1, <1>4
<1>8. Shapes'
  <2>1. [state |-> "queued", scope |-> scopeDir[o], args |-> args] \in JobRecords
    BY <1>4, <1>5 DEF JobRecords
  <2>2. job' \in [Ops -> JobRecords] /\ scopeDir' \in [Ops -> Scopes]
    BY <1>1, <1>4, <1>6, <2>1
  <2> QED BY <1>1, <1>3, <2>2 DEF DeployInv, Shapes, cmpVars
<1>9. JobOk(o)'
  <2>1. PartOf(o, job[o].scope)'
    <3>1. PICK scope : scope = scopeDir[o]
      OBVIOUS
    <3>2. PartOf(o, scope)'
      BY <1>3, <1>4, <3>1
    <3> QED BY <1>7, <3>1, <3>2 DEF PartOf
  <2>2. job'[o].args = BuildDeployArgs(op'[o].mode, testLevel,
                                       op'[o].mode = "validate" /\ sandbox')
    BY <1>1, <1>3, <1>7 DEF args
  <2> QED BY <1>1, <1>3, <1>7, <2>1, <2>2 DEF JobOk
<1>10. OpInv(o)'
  BY <1>1, <1>3, <1>4, <1>7, <1>9, Unrecorded DEF OpInv, ScopeOk, AbsentOk, RecordOk
<1>11. RecordsStay /\ HistoryInv'
  BY <1>1 DEF RecordsStay, InHistory, InSaved, DeployInv, HistoryInv, InSaved
<1> QED BY <1>1, <1>3, <1>7, <1>8, <1>10, <1>11, RequestStep DEF Same, InHistory, InSaved

(* The record goes to the front; the last one may drop out.                *)
LEMMA Recording ==
  ASSUME DeployInv, NEW o \in Ops, Record(o)
  PROVE  /\ history' \in Seq(HistoryRecords) /\ Len(history') <= MaxRecords
         /\ history' # <<>> /\ history'[1].op = o
         /\ InHistory(o)'
         /\ \A p \in Ops : InHistory(p) \/ Len(history) = MaxRecords =>
                             InHistory(p)' \/ Len(history') = MaxRecords
         /\ \A p \in Ops \ {o} : InHistory(p)' => InHistory(p)
<1> DEFINE longer == <<[op |-> o, status |-> "running"]>> \o history
           n == IF Len(longer) < MaxRecords THEN Len(longer) ELSE MaxRecords
<1>1. /\ history \in Seq(HistoryRecords) /\ Len(history) <= MaxRecords
      /\ MaxRecords \in Nat \ {0}
      /\ [op |-> o, status |-> "running"] \in HistoryRecords
  BY CapAssumption DEF DeployInv, Shapes, HistoryInv, HistoryRecords
<1>2. /\ longer \in Seq(HistoryRecords) /\ Len(longer) = Len(history) + 1
      /\ longer[1] = [op |-> o, status |-> "running"]
      /\ \A i \in 1 .. Len(history) : longer[i + 1] = history[i]
  BY <1>1
<1>3. history' = SubSeq(longer, 1, n)
  BY DEF Record
<1> HIDE DEF longer
<1>4. n \in 1 .. Len(longer) /\ n <= MaxRecords
      /\ (n = Len(longer) \/ n = MaxRecords)
  BY <1>1, <1>2
<1>5. /\ history' \in Seq(HistoryRecords) /\ Len(history') = n
      /\ \A i \in 1 .. n : history'[i] = longer[i]
  <2> HIDE DEF n
  <2> QED BY <1>1, <1>2, <1>3, <1>4
<1>6. history' # <<>> /\ history'[1].op = o /\ 1 \in DOMAIN history'
  BY <1>2, <1>4, <1>5
<1>7. InHistory(o)'
  BY <1>6 DEF InHistory
<1>8. ASSUME NEW p \in Ops, InHistory(p) \/ Len(history) = MaxRecords
      PROVE  InHistory(p)' \/ Len(history') = MaxRecords
  <2>1. CASE n = MaxRecords
    BY <2>1, <1>5
  <2>2. CASE n = Len(longer) /\ n # MaxRecords
    <3>1. Len(history) # MaxRecords
      BY <2>2, <1>1, <1>2, <1>4
    <3>2. PICK i \in DOMAIN history : history[i].op = p
      BY <1>8, <3>1 DEF InHistory
    <3>3. i + 1 \in 1 .. n /\ longer[i + 1] = history[i]
      BY <2>2, <3>2, <1>1, <1>2
    <3>4. i + 1 \in DOMAIN history' /\ history'[i + 1].op = p
      BY <3>2, <3>3, <1>5
    <3> QED BY <3>4 DEF InHistory
  <2> QED BY <1>4, <2>1, <2>2
<1>9. ASSUME NEW p \in Ops \ {o}, InHistory(p)'
      PROVE  InHistory(p)
  <2>1. PICK i \in DOMAIN history' : history'[i].op = p
    BY <1>9 DEF InHistory
  <2>2. i \in 1 .. n /\ i # 1 /\ longer[i].op = p
    BY <1>5, <1>6, <2>1
  <2>3. i - 1 \in 1 .. Len(history) /\ longer[(i - 1) + 1] = history[i - 1]
    BY <1>1, <1>2, <1>4, <2>2
  <2>4. i - 1 \in DOMAIN history /\ history[i - 1].op = p
    BY <1>1, <2>2, <2>3
  <2> QED BY <2>4 DEF InHistory
<1> QED BY <1>4, <1>5, <1>6, <1>7, <1>8, <1>9

\* The answer puts the job into the history.
LEMMA AnswerInv ==
  ASSUME DeployInv, NEW o \in Ops, Answer(o)
  PROVE  DeployInv'
<1> USE DEF orgVars
<1>1. /\ op[o].stage = "answer" /\ Record(o) /\ latest' = o /\ Move(o, "done")
      /\ UNCHANGED <<orgVars, cmpVars, absent, scopeDir, job, saved, lost>>
  BY DEF Answer
<1>2. "done" \in OpStages \ {"idle"}
  BY DEF OpStages
<1>3. /\ op' \in [Ops -> OpRecords] /\ op'[o].stage = "done"
      /\ op'[o].mode = op[o].mode
      /\ \A p \in Ops \ {o} : op'[p] = op[p]
      /\ \A scope : PartOf(o, scope) => PartOf(o, scope)'
      /\ (Packing(o)' => KeysOk(o)) => OpOk(o)'
  BY <1>1, <1>2, Moving
<1>4. /\ absent[o] = {} /\ KeysOk(o) /\ JobOk(o)
  BY <1>1 DEF DeployInv, AbsentOk, Ended, OpOk, Packing
<1>5. /\ history' \in Seq(HistoryRecords) /\ Len(history') <= MaxRecords
      /\ history' # <<>> /\ history'[1].op = o /\ InHistory(o)'
      /\ RecordsStay
      /\ \A p \in Ops \ {o} : InHistory(p)' => InHistory(p)
  BY <1>1, Recording DEF RecordsStay
<1>9. /\ ~InSaved(o) /\ \A p \in Ops : InSaved(p)' = InSaved(p)
      /\ job[o].state # "none"
  <2>1. op[o].stage # "done" /\ RecordOk(o)
    BY <1>1 DEF DeployInv
  <2> QED BY <1>1, <2>1, Unrecorded DEF InSaved, RecordOk
<1>6. JobOk(o)'
  <2> SUFFICES ASSUME job[o].state # "none"
               PROVE  JobOk(o)'
    BY <1>1, <1>4 DEF JobOk
  <2>1. PICK scope : scope = job[o].scope
    OBVIOUS
  <2>2. PartOf(o, scope)'
    BY <1>3, <1>4, <2>1 DEF JobOk
  <2>3. PartOf(o, job[o].scope)'
    BY <1>1, <2>1, <2>2 DEF PartOf
  <2> QED BY <1>1, <1>3, <1>4, <2>3 DEF JobOk
<1>7. OpInv(o)'
  BY <1>1, <1>3, <1>4, <1>5, <1>6, <1>9 DEF OpInv, ScopeOk, AbsentOk, RecordOk
<1>8. Shapes' /\ HistoryInv'
  <2>1. Shapes'
    BY <1>1, <1>3, <1>5 DEF DeployInv, Shapes, cmpVars
  <2>2. HistoryInv'
    BY <1>1, <1>5, <1>9 DEF DeployInv, HistoryInv, InSaved
  <2> QED BY <2>1, <2>2
<1>10. \A p \in Ops \ {o} : Same(p)
  BY <1>1, <1>3, <1>5, <1>9 DEF Same
<1> QED BY <1>1, <1>5, <1>7, <1>8, <1>10, RequestStep

\* A job whose answer is lost counts as lost.
LEMMA AnswerLostInv ==
  ASSUME DeployInv, NEW o \in Ops, AnswerLost(o)
  PROVE  DeployInv'
<1> USE DEF orgVars
<1>1. /\ op[o].stage = "answer" /\ lost' = lost \cup {o} /\ Move(o, "failed")
      /\ UNCHANGED <<orgVars, cmpVars, absent, scopeDir, job, history, saved, latest>>
  BY DEF AnswerLost
<1>2. "failed" \in OpStages \ {"idle"}
  BY DEF OpStages
<1>3. /\ op' \in [Ops -> OpRecords] /\ op'[o].stage = "failed"
      /\ op'[o].mode = op[o].mode
      /\ \A p \in Ops \ {o} : op'[p] = op[p]
      /\ \A scope : PartOf(o, scope) => PartOf(o, scope)'
      /\ (Packing(o)' => KeysOk(o)) => OpOk(o)'
  BY <1>1, <1>2, Moving
<1>4. /\ absent[o] = {} /\ KeysOk(o) /\ JobOk(o)
  BY <1>1 DEF DeployInv, AbsentOk, Ended, OpOk, Packing
<1>5. RecordsStay /\ HistoryInv'
  BY <1>1 DEF RecordsStay, InHistory, InSaved, DeployInv, HistoryInv, InSaved
<1>6. JobOk(o)'
  <2> SUFFICES ASSUME job[o].state # "none"
               PROVE  JobOk(o)'
    BY <1>1, <1>4 DEF JobOk
  <2>1. PICK scope : scope = job[o].scope
    OBVIOUS
  <2>2. PartOf(o, scope)'
    BY <1>3, <1>4, <2>1 DEF JobOk
  <2>3. PartOf(o, job[o].scope)'
    BY <1>1, <2>1, <2>2 DEF PartOf
  <2> QED BY <1>1, <1>3, <1>4, <2>3 DEF JobOk
<1>7. OpInv(o)'
  BY <1>1, <1>3, <1>4, <1>6, Unrecorded DEF OpInv, ScopeOk, AbsentOk, RecordOk
<1>8. Shapes'
  BY <1>1, <1>3 DEF DeployInv, Shapes, cmpVars
<1> QED BY <1>1, <1>3, <1>5, <1>7, <1>8, RequestStep DEF Same, InHistory, InSaved

\* A report changes the outcome of a record and adds none.
LEMMA PatchHistoryInv ==
  ASSUME DeployInv, NEW o \in Ops, PatchHistory(o)
  PROVE  DeployInv'
<1> USE DEF orgVars
<1>1. /\ history \in Seq(HistoryRecords) /\ Len(history) <= MaxRecords
      /\ job[o].state \in {"succeeded", "failed"}
      /\ history' = [i \in DOMAIN history |->
                       IF history[i].op = o THEN [op |-> o, status |-> job[o].state]
                       ELSE history[i]]
      /\ UNCHANGED <<orgVars, cmpVars, op, absent, scopeDir, job, saved, latest, lost>>
  BY DEF PatchHistory, DeployInv, Shapes, HistoryInv
<1>2. \A i \in DOMAIN history : history'[i] \in HistoryRecords
                                /\ history'[i].op = history[i].op
  <2> SUFFICES ASSUME NEW i \in DOMAIN history
               PROVE  history'[i] \in HistoryRecords /\ history'[i].op = history[i].op
    OBVIOUS
  <2>1. history[i] \in HistoryRecords
    BY <1>1
  <2>2. history'[i] = IF history[i].op = o THEN [op |-> o, status |-> job[o].state]
                      ELSE history[i]
    BY <1>1
  <2> QED BY <1>1, <2>1, <2>2 DEF HistoryRecords
<1>3. history' \in Seq(HistoryRecords) /\ Len(history') = Len(history)
      /\ DOMAIN history' = DOMAIN history
  <2>1. history' \in [1 .. Len(history) -> HistoryRecords]
    BY <1>1, <1>2
  <2> QED BY <1>1, <2>1
<1>4. \A p \in Ops : InHistory(p)' = InHistory(p) /\ InSaved(p)' = InSaved(p)
  BY <1>1, <1>2, <1>3 DEF InHistory, InSaved
<1>5. RecordsStay
  BY <1>1, <1>3, <1>4 DEF RecordsStay
<1>6. HistoryInv'
  <2>1. history # <<>> => 1 \in DOMAIN history /\ history' # <<>>
    BY <1>1, <1>3
  <2> QED BY <1>1, <1>2, <1>3, <2>1 DEF DeployInv, HistoryInv, InSaved
<1>7. Shapes'
  BY <1>1, <1>3 DEF DeployInv, Shapes, cmpVars
<1>8. \A p \in Ops : Same(p)
  BY <1>1, <1>4 DEF Same
<1>9. OpInv(o)'
  <2>1. Frozen
    BY <1>1 DEF Frozen, cmpVars, InTable
  <2> QED BY <1>1, <1>5, <1>8, <2>1, OthersKeep
<1> QED BY <1>1, <1>5, <1>6, <1>7, <1>8, <1>9, RequestStep

(* What the org makes of a job.                                            *)
LEMMA JobEnds ==
  ASSUME DeployInv, NEW o \in Ops, NEW state \in {"succeeded", "failed"},
         job[o].state = "queued", job' = [job EXCEPT ![o].state = state],
         target' \in Org,
         UNCHANGED <<sandbox, cmpVars, op, absent, scopeDir, history, saved, latest, lost>>
  PROVE  DeployInv'
<1>1. job \in [Ops -> JobRecords] /\ job[o] \in JobRecords
  BY DEF DeployInv, Shapes
<1>2. /\ job'[o] = [job[o] EXCEPT !.state = state]
      /\ \A p \in Ops \ {o} : job'[p] = job[p]
  BY <1>1
<1>3. /\ job'[o] \in JobRecords /\ job'[o].state = state
      /\ job'[o].args = job[o].args /\ job'[o].scope = job[o].scope
  BY <1>1, <1>2 DEF JobRecords
<1>4. Shapes'
  <2>1. job' \in [Ops -> JobRecords]
    BY <1>1, <1>3
  <2> QED BY <2>1 DEF DeployInv, Shapes, cmpVars
<1>5. OpOk(o) /\ ScopeOk(o) /\ JobOk(o) /\ AbsentOk(o) /\ RecordOk(o)
  BY DEF DeployInv
<1>6. Scope(o)' = Scope(o) /\ (KeysOk(o) => KeysOk(o)')
  BY ScopeIsFixed DEF cmpVars
<1>7. OpInv(o)'
  <2>1. OpOk(o)'
    BY <1>5, <1>6 DEF OpOk, Packing, RowKeys, cmpVars
  <2>2. ScopeOk(o)' /\ AbsentOk(o)'
    BY <1>5, <1>6 DEF ScopeOk, PartOf, AbsentOk, InTable, cmpVars
  <2>3. JobOk(o)'
    BY <1>3, <1>5, <1>6 DEF JobOk, PartOf, InTable, cmpVars
  <2>4. RecordOk(o)'
    BY <1>5 DEF RecordOk, InHistory, InSaved
  <2> QED BY <2>1, <2>2, <2>3, <2>4 DEF OpInv
<1>8. RecordsStay /\ HistoryInv'
  BY DEF RecordsStay, InHistory, InSaved, DeployInv, HistoryInv, InSaved
<1> QED BY <1>2, <1>4, <1>7, <1>8, RequestStep DEF Same, InHistory, InSaved

\* A deployment that succeeds changes the target, a validation does not.
LEMMA JobSucceedsInv ==
  ASSUME DeployInv, NEW o \in Ops, JobSucceeds(o)
  PROVE  DeployInv'
<1> DEFINE scope == job[o].scope
<1>1. scope \in Scopes /\ target \in Org /\ 0 \in Contents
  BY VersionAssumption DEF DeployInv, Shapes, JobRecords, Contents
<1> HIDE DEF scope
<1>2. Applied(scope) \in Org
  <2> SUFFICES ASSUME NEW f \in Files
               PROVE  Applied(scope)[f] \in Contents
    BY DEF Applied, Org, Contents
  <2> DEFINE new == {s \in scope.files : s.path = StripUnpackagedWrapper(f)}
             gone == [type |-> ComponentOf(f, TypeDirMap).type,
                      fullName |-> ComponentOf(f, TypeDirMap).fullName]
                       \in scope.deletions
  <2>1. Applied(scope)[f] = IF new # {} THEN (CHOOSE s \in new : TRUE).content
                            ELSE IF gone THEN 0 ELSE target[f]
    BY DEF Applied
  <2>2. \A s \in new : s.content \in Contents
    BY <1>1 DEF Scopes, ScopeFiles
  <2>3. target[f] \in Contents
    BY <1>1 DEF Org, Contents
  <2> HIDE DEF new, gone
  <2>4. new # {} => (CHOOSE s \in new : TRUE) \in new
    OBVIOUS
  <2> QED BY <1>1, <2>1, <2>2, <2>3, <2>4
<1>3. target' \in Org
  BY <1>1, <1>2 DEF JobSucceeds, scope
<1> QED BY <1>3, JobEnds DEF JobSucceeds

\* A job that fails changes nothing in the target.
LEMMA JobFailsInv ==
  ASSUME DeployInv, NEW o \in Ops, JobFails(o)
  PROVE  DeployInv'
<1>1. target' \in Org
  BY DEF JobFails, orgVars, DeployInv, Shapes
<1> QED BY <1>1, JobEnds DEF JobFails, orgVars

\* A flush takes what is in memory to the file.
LEMMA SaveInv ==
  ASSUME DeployInv, Save
  PROVE  DeployInv'
<1>1. /\ saved' = history
      /\ UNCHANGED <<target, sandbox, cmp, dirs, table, removing, op, absent, scopeDir, job,
                    history, latest, lost>>
  BY DEF Save, orgVars, cmpVars
<1>2. \A p \in Ops : Same(p)
  BY <1>1 DEF Same, InHistory, InSaved
<1>3. RecordsStay /\ Frozen
  BY <1>1 DEF RecordsStay, InHistory, Frozen, InTable
<1>4. \A p \in Ops : OpInv(p)'
  BY <1>1, <1>2, <1>3, OthersKeep
<1>5. HistoryInv'
  BY <1>1 DEF DeployInv, HistoryInv
<1>6. \A c \in Comparisons : CmpOk(c)'
  BY <1>1, ComparisonKeeps DEF InTable
<1>7. Shapes' /\ TableInv'
  BY <1>1 DEF DeployInv, Shapes, TableInv, InTable
<1> QED BY <1>4, <1>5, <1>6, <1>7 DEF DeployInv, OpInv

\* Every step of the handlers and the orgs keeps the invariant.
LEMMA NextDeployInv == DeployInv /\ [Next]_vars => DeployInv'
<1> SUFFICES ASSUME DeployInv, [Next]_vars
             PROVE  DeployInv'
  OBVIOUS
<1>1. ASSUME NEW c \in Comparisons, NEW selections \in Requests, Compare(c, selections)
      PROVE  DeployInv'
  BY <1>1, CompareInv
<1>2. ASSUME NEW c \in Comparisons, Comparing(c)
      PROVE  DeployInv'
  BY <1>2, RetrieveSourceInv, RetrieveTargetInv, FinishCompareInv, FailCompareInv
     DEF Comparing
<1>3. ASSUME NEW c \in Comparisons, RemoveSome(c) \/ RemoveRest(c)
      PROVE  DeployInv'
  BY <1>3, RemoveSomeInv, RemoveRestInv
<1>4. ASSUME NEW o \in Ops, NEW c \in Comparisons, Reject(o, c)
      PROVE  DeployInv'
  BY <1>4, RejectInv
<1>5. ASSUME NEW o \in Ops, NEW c \in Comparisons, NEW key \in RowKeys(c), AskDiff(o, c, key)
      PROVE  DeployInv'
  BY <1>5, AskDiffInv
<1>6. ASSUME NEW o \in Ops, NEW c \in Comparisons, NEW keys \in Picks(c), NEW doomed,
             \/ AskPreview(o, c, keys, doomed)
             \/ \E mode \in Modes : AskDeploy(o, c, keys, doomed, mode)
      PROVE  DeployInv'
  <2>1. "validate" \in Modes /\ "preview" \in {"preview", "scope"}
        /\ "scope" \in {"preview", "scope"}
    BY DEF Modes
  <2>2. CASE AskPreview(o, c, keys, doomed)
    BY <2>1, <2>2, AskPackageInv DEF AskPreview
  <2>3. ASSUME NEW mode \in Modes, AskDeploy(o, c, keys, doomed, mode)
        PROVE  DeployInv'
    BY <2>1, <2>3, AskPackageInv DEF AskDeploy
  <2> QED BY <1>6, <2>2, <2>3
<1>7. ASSUME NEW o \in Ops, Handler(o)
      PROVE  DeployInv'
  BY <1>7, ReadDiffInv, BuildPreviewInv, BuildScopeInv, DisplayInv, CommandFailsInv,
     SubmitInv, AnswerInv, AnswerLostInv DEF Handler
<1>8. ASSUME NEW o \in Ops, JobSucceeds(o) \/ JobFails(o) \/ PatchHistory(o)
      PROVE  DeployInv'
  BY <1>8, JobSucceedsInv, JobFailsInv, PatchHistoryInv
<1>9. CASE Save \/ Restart
  BY <1>9, SaveInv, RestartInv
<1>10. CASE UNCHANGED vars
  <2> USE DEF vars, orgVars, cmpVars, jobVars
  <2>1. RecordsStay /\ Frozen /\ \A o \in Ops : Same(o)
    BY <1>10 DEF RecordsStay, InHistory, InSaved, Frozen, InTable, Same
  <2>2. \A o \in Ops : OpInv(o)'
    BY <1>10, <2>1, OthersKeep
  <2>3. \A c \in Comparisons : CmpOk(c)'
    BY <1>10, ComparisonKeeps DEF InTable
  <2>4. Shapes' /\ TableInv' /\ HistoryInv'
    BY <1>10 DEF DeployInv, Shapes, TableInv, InTable, HistoryInv, InSaved
  <2> QED BY <2>2, <2>3, <2>4 DEF DeployInv, OpInv
<1>11. CASE Next
  BY <1>1, <1>2, <1>3, <1>4, <1>5, <1>6, <1>7, <1>8, <1>9, <1>11 DEF Next, Modes
<1> QED BY <1>10, <1>11

(* The invariant holds throughout.                                         *)
THEOREM DeployInvariance == Spec => []DeployInv
<1> QED BY InitDeployInv, NextDeployInv, PTL DEF Spec

-----------------------------------------------------------------------------
(* What a reader wants to know.                                            *)

(* What the review shows of a comparison that can be found is what its     *)
(* files say, and the files are still there, for any comparisons, files    *)
(* and cap of the table (storeComparison, compareComponentGroups).         *)
THEOREM ReviewsAreTrue == Spec => []ReviewsTellTheTruth
<1>1. DeployInv => ReviewsTellTheTruth
  <2> SUFFICES ASSUME DeployInv
               PROVE  ReviewsTellTheTruth
    OBVIOUS
  <2>1. TypeOK
    <3>1. \A c \in Comparisons : /\ cmp[c].stage \in CmpStages
                                 /\ dirs[c].source \subseteq DOMAIN cmp[c].sourceCopy
                                 /\ dirs[c].target \subseteq DOMAIN cmp[c].targetCopy
      BY DEF DeployInv, Shapes, CmpRecords, CmpOk
    <3>2. \A o \in Ops : /\ op[o].stage \in OpStages
                         /\ op[o].stage # "idle" => op[o].on \in Comparisons
      BY DEF DeployInv, Shapes, OpRecords, OpStages
    <3>3. \A o \in Ops : job[o].state \in {"none", "queued", "succeeded", "failed"}
      BY DEF DeployInv, Shapes, JobRecords
    <3>4. /\ history \in [1 .. Len(history) -> HistoryRecords]
          /\ Len(history) <= MaxRecords
          /\ saved \in [1 .. Len(saved) -> HistoryRecords]
          /\ Len(saved) <= MaxRecords
      BY DEF DeployInv, Shapes, HistoryInv
    <3> QED BY <3>1, <3>2, <3>3, <3>4 DEF TypeOK, DeployInv, Shapes, HistoryRecords
  <2>2. StoredIsIntact
    BY DEF StoredIsIntact, DeployInv, TableInv, CmpOk, Intact
  <2>3. RowsAreTruthful
    <3> SUFFICES ASSUME NEW c \in Comparisons, cmp[c].stage = "done",
                        NEW r \in cmp[c].rows
                 PROVE  LET s == Having(cmp[c].sourceCopy, r.key)
                            t == Having(cmp[c].targetCopy, r.key)
                            same == s = t
                                    /\ \A f \in s : cmp[c].sourceCopy[f] = cmp[c].targetCopy[f]
                        IN  IF ~cmp[c].available THEN r.status = "unknown"
                            ELSE /\ r.status = "identical" <=> s # {} /\ same
                                 /\ r.status = "new" <=> t = {}
                                 /\ r.status = "missing-source" <=> s = {}
      BY DEF RowsAreTruthful, Having, KeyOf
    <3>1. RowTruth(c, r)
      BY RowsOfDone
    <3> QED BY <3>1 DEF RowTruth
  <2> QED BY <2>1, <2>2, <2>3 DEF ReviewsTellTheTruth
<1> QED BY <1>1, DeployInvariance, PTL

(* A job ships the reviewed content of what was selected, whole as long as *)
(* the comparison can be found, and a field never without the security it  *)
(* needs, for any files and any selection (buildDeployScope,               *)
(* includeRequiredFieldSecurityKeys).                                      *)
THEOREM PackagesAreReviewed == Spec => []PackagesAreAsReviewed
<1>1. ASSUME DeployInv, NEW o \in Ops, job[o].state # "none"
      PROVE  /\ op[o].stage # "idle" /\ KeysOk(o) /\ PartOf(o, job[o].scope)
             /\ job[o].scope.members = Scope(o).members
  BY <1>1 DEF DeployInv, JobOk, OpOk, Packing, PartOf
<1>2. ASSUME DeployInv, NEW o \in Ops, job[o].state # "none"
      PROVE  LET c == op[o].on
                 scope == job[o].scope
                 paths == {[path |-> StripUnpackagedWrapper(f),
                            content |-> cmp[c].sourceCopy[f]] : f \in FilesToShip(o)}
                 doomed == {Component(r) : r \in {x \in cmp[c].rows :
                                                    x.key \in op[o].destructive}}
             IN  /\ scope.files \subseteq paths
                 /\ scope.deletions \subseteq doomed
                 /\ InTable(c) => scope.files = paths /\ scope.deletions = doomed
  <2>1. op[o].stage # "idle" /\ KeysOk(o) /\ PartOf(o, job[o].scope)
    BY <1>1, <1>2
  <2> QED BY <1>2, <2>1, PackageOfRequest DEF PartOf
<1>3. DeployInv => ShipsWhatWasReviewed
  <2> SUFFICES ASSUME DeployInv, NEW o \in Ops, job[o].state = "succeeded"
               PROVE  LET c == op[o].on
                          scope == job[o].scope
                          wanted == {r \in cmp[c].rows :
                                       r.key \in op[o].keys \ op[o].destructive}
                          files == {f \in DOMAIN cmp[c].sourceCopy \ {Manifest} :
                                      \E r \in wanted :
                                        ComponentOf(f, TypeDirMap).key = r.key}
                          paths == {[path |-> StripUnpackagedWrapper(f),
                                     content |-> cmp[c].sourceCopy[f]] : f \in files}
                          doomed == {Component(r) : r \in {x \in cmp[c].rows :
                                                             x.key \in op[o].destructive}}
                      IN  /\ scope.files \subseteq paths
                          /\ scope.deletions \subseteq doomed
                          /\ InTable(c) => scope.files = paths /\ scope.deletions = doomed
    BY DEF ShipsWhatWasReviewed
  <2>1. FilesToShip(o) =
          {f \in DOMAIN cmp[op[o].on].sourceCopy \ {Manifest} :
             \E r \in {x \in cmp[op[o].on].rows : x.key \in op[o].keys \ op[o].destructive} :
               ComponentOf(f, TypeDirMap).key = r.key}
    BY DEF FilesToShip, KeyOf
  <2> QED BY <1>2, <2>1
<1>4. DeployInv => FieldsTravelWithSecurity
  <2> SUFFICES ASSUME DeployInv, NEW o \in Ops,
                      NEW m \in job[o].scope.members, m.type = "CustomField",
                      NEW f \in DOMAIN cmp[op[o].on].sourceCopy \ {Manifest},
                      KindOf(f) \in SecurityTypes
               PROVE  [type |-> KindOf(f), fullName |-> NameOf(f)]
                        \in job[o].scope.members
    BY DEF FieldsTravelWithSecurity, KindOf, NameOf
  <2> DEFINE c == op[o].on
  <2>1. CASE job[o].state = "none"
    BY <2>1 DEF DeployInv, JobOk, NoJob, NoScope
  <2>2. CASE job[o].state # "none"
    <3>1. /\ op[o].stage # "idle" /\ KeysOk(o)
          /\ job[o].scope.members = Scope(o).members
      BY <1>1, <2>2
    <3>2. job[o].scope.members =
            {Component(r) : r \in {x \in cmp[c].rows :
                                     x.key \in op[o].keys \ op[o].destructive}}
      BY <3>1, PackageOfRequest
    <3>3. c \in Comparisons /\ cmp[c].stage = "done"
      BY <3>1 DEF DeployInv, Shapes, OpRecords, OpOk
    <3>4. PICK r \in cmp[c].rows : r.key \in op[o].keys /\ r.type = "CustomField"
      BY <3>2 DEF Component
    <3>5. PICK x \in cmp[c].rows : /\ x.key = KeyOf(f) /\ x.type = KindOf(f)
                                   /\ x.fullName = NameOf(f) /\ x.sourceExists
      BY <3>3, RowsOfDone
    <3>6. x.key \in op[o].keys
      BY <3>1, <3>4, <3>5 DEF KeysOk, Closed
    <3>7. x.key \notin op[o].destructive
      BY <3>1, <3>3, <3>5, SourceKeysAreNotDeletable DEF KeysOk
    <3> QED BY <3>2, <3>5, <3>6, <3>7 DEF Component
  <2> QED BY <2>1, <2>2
<1>5. DeployInv => PackagesAreAsReviewed
  BY <1>3, <1>4 DEF PackagesAreAsReviewed
<1> QED BY <1>5, DeployInvariance, PTL

(* Every job the org accepted is in the history, through any number of     *)
(* restarts, unless its answer was lost, the process ended before its      *)
(* record was saved, or newer records pushed it out (orgDeploy.ts:293-307; *)
(* store.ts:82-96).                                                        *)
THEOREM JobsAreRecorded == Spec => []AcceptedIsRecorded
<1>1. DeployInv => AcceptedIsRecorded
  BY DEF DeployInv, RecordOk, HistoryInv, AcceptedIsRecorded
<1> QED BY <1>1, DeployInvariance, PTL

(* A diff says that an org lacks a file only when its retrieval did not    *)
(* deliver it, or the comparison was evicted meanwhile                     *)
(* (orgDeploy.ts:180-193).                                                 *)
THEOREM DiffsAreTrue == Spec => []DiffTellsTruth
<1>1. DeployInv => DiffTellsTruth
  BY DEF DeployInv, AbsentOk, DiffTellsTruth
<1> QED BY <1>1, DeployInvariance, PTL

(* What a job's arguments allow.                                           *)
ArgumentsAreSafe ==
  \A o \in Ops :
    /\ job[o].state # "none" /\ Commits(job[o].args) => op[o].mode = "deploy"
    /\ job[o].args.command = "validate" => job[o].args.testLevel # "NoTestRun"

\* The arguments of each job are those of its mode.
LEMMA JobsHaveSafeArguments == DeployInv => ArgumentsAreSafe
<1> SUFFICES ASSUME DeployInv, NEW o \in Ops
             PROVE  /\ job[o].state # "none" /\ Commits(job[o].args) =>
                         op[o].mode = "deploy"
                    /\ job[o].args.command = "validate" =>
                         job[o].args.testLevel # "NoTestRun"
  BY DEF ArgumentsAreSafe
<1>1. CASE job[o].state = "none"
  BY <1>1 DEF DeployInv, JobOk, NoJob
<1>2. CASE job[o].state # "none"
  <2>1. op[o].mode \in Modes /\ sandbox \in BOOLEAN
    <3>1. op[o] \in OpRecords /\ op[o].stage # "idle" /\ sandbox \in BOOLEAN
      BY <1>2 DEF DeployInv, JobOk, Shapes
    <3> QED BY <3>1 DEF OpRecords
  <2>2. PICK testLevel \in TestLevels :
          job[o].args = BuildDeployArgs(op[o].mode, testLevel,
                                        op[o].mode = "validate" /\ sandbox)
    BY <1>2 DEF DeployInv, JobOk
  <2> QED BY <2>1, <2>2, ArgumentsOfJob
<1> QED BY <1>1, <1>2

(* A job that changes the target was asked for as a deployment, and a      *)
(* validation by the org always runs tests, for any number of jobs         *)
(* (buildDeployArgs).                                                      *)
THEOREM ValidationsCommitNothing == Spec => ValidationNeverCommits
<1> DEFINE Safe == \A o \in Ops :
             /\ job[o].state = "queued" /\ job'[o].state = "succeeded"
                /\ target' # target => op[o].mode = "deploy"
             /\ job'[o].args.command = "validate" => job'[o].args.testLevel # "NoTestRun"
<1>1. DeployInv => ArgumentsAreSafe
  BY JobsHaveSafeArguments
<1>2. DeployInv' => ArgumentsAreSafe'
  BY <1>1, PTL
<1>3. DeployInv /\ DeployInv' /\ [Next]_vars => [Safe]_vars
  <2> SUFFICES ASSUME DeployInv, DeployInv', Next, NEW o \in Ops
               PROVE  /\ job[o].state = "queued" /\ job'[o].state = "succeeded"
                         /\ target' # target => op[o].mode = "deploy"
                      /\ job'[o].args.command = "validate" =>
                           job'[o].args.testLevel # "NoTestRun"
    OBVIOUS
  <2>1. ArgumentsAreSafe /\ ArgumentsAreSafe'
    BY <1>1, <1>2
  <2>2. job \in [Ops -> JobRecords]
    BY DEF DeployInv, Shapes
  <2>3. \/ target' = target
        \/ \E p \in Ops : JobSucceeds(p) /\ Commits(job[p].args)
    BY DEF Next, Compare, Comparing, RetrieveSource, RetrieveTarget, FinishCompare,
           FailCompare, RemoveSome, RemoveRest, Reject, AskDiff, AskPreview, AskDeploy,
           AskPackage, Handler, ReadDiff, BuildPreview, BuildScope, Display,
           CommandFails, Submit, Answer, AnswerLost, JobSucceeds, JobFails,
           PatchHistory, Save, Restart, orgVars
  <2>4. ASSUME job[o].state = "queued", job'[o].state = "succeeded", target' # target
        PROVE  op[o].mode = "deploy"
    <3>1. PICK p \in Ops : JobSucceeds(p) /\ Commits(job[p].args)
      BY <2>3, <2>4
    <3>2. p = o
      BY <2>2, <2>4, <3>1 DEF JobSucceeds
    <3> QED BY <2>1, <2>4, <3>1, <3>2 DEF ArgumentsAreSafe
  <2> QED BY <2>1, <2>4 DEF ArgumentsAreSafe
<1> QED BY <1>3, DeployInvariance, PTL DEF Spec, ValidationNeverCommits
=============================================================================
