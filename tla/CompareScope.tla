---------------------------- MODULE CompareScope ----------------------------
(***************************************************************************)
(* The pure algorithms of server/src/orgDeployCompare.ts: from the files   *)
(* of two retrievals to components, review rows, and the package to ship.  *)
(*                                                                         *)
(* A path is a sequence of segments. A segment is split where baseName()   *)
(* (53-58) would cut it; a key or a full name, which the code joins with   *)
(* slashes or a dot, is the sequence of its parts. A copy, the content of  *)
(* a retrieval's directory, is a function from paths to contents after     *)
(* normalizeMetadataContent().                                             *)
(***************************************************************************)
EXTENDS Naturals, Sequences

Dir(name) == [base |-> name, ext |-> ""]
BaseName(segment) == Dir(segment.base)

Unpackaged == Dir("unpackaged")
PackageXml == [base |-> "package", ext |-> ".xml"]
Wildcard == <<Dir("*")>>

NestedChildTypeByDir ==
  [fields |-> "CustomField", validationRules |-> "ValidationRule",
   recordTypes |-> "RecordType", listViews |-> "ListView", webLinks |-> "WebLink",
   businessProcesses |-> "BusinessProcess", compactLayouts |-> "CompactLayout",
   sharingReasons |-> "SharingReason", fieldSets |-> "FieldSet"]
BundleDirs == {Dir("lwc"), Dir("aura")}

(* Drops the leading `unpackaged` segments, but never the last segment.    *)
StripUnpackagedWrapper(parts) ==
  LET First(i) == /\ i = Len(parts) \/ parts[i] # Unpackaged
                  /\ \A j \in 1 .. i - 1 : parts[j] = Unpackaged
  IN  SubSeq(parts, CHOOSE i \in DOMAIN parts : First(i), Len(parts))

IsRootManifest(file) == StripUnpackagedWrapper(file) = <<PackageXml>>

-----------------------------------------------------------------------------
(* Components.                                                             *)

TypeOf(top, typeDirMap) ==
  IF top.ext = "" /\ top.base \in DOMAIN typeDirMap THEN typeDirMap[top.base]
  ELSE IF top = Dir("objects") THEN "CustomObject" ELSE "Unknown"

(* The component a file belongs to: a child of an object, an object, a     *)
(* bundle, or one file with its -meta.xml companion.                       *)
ComponentOf(file, typeDirMap) ==
  LET parts == StripUnpackagedWrapper(file)
      n == Len(parts)
      top == parts[1]
      name == Append(SubSeq(parts, 2, n - 1), BaseName(parts[n]))
      nested == n >= 4 /\ parts[3].base \in DOMAIN NestedChildTypeByDir
      Component(key, type, fullName) ==
        [key |-> key, type |-> type, fullName |-> fullName]
  IN  CASE top = Dir("objects") /\ nested ->
             Component(<<top, parts[2], parts[3], BaseName(parts[4])>>,
                       NestedChildTypeByDir[parts[3].base],
                       <<parts[2], BaseName(parts[4])>>)
        [] top = Dir("objects") /\ n >= 2 /\ ~nested ->
             Component(<<top, parts[2]>>, TypeOf(top, typeDirMap),
                       <<BaseName(parts[2])>>)
        [] top \in BundleDirs /\ n >= 2 ->
             Component(<<top, parts[2]>>, TypeOf(top, typeDirMap), <<parts[2]>>)
        [] OTHER ->
             Component(<<top>> \o name, TypeOf(top, typeDirMap), name)

GroupMetadataFiles(files, typeDirMap) ==
  LET kept == {f \in files : ~IsRootManifest(f)}
      Group(c) == [key |-> c.key, type |-> c.type, fullName |-> c.fullName,
                   files |-> {f \in kept : ComponentOf(f, typeDirMap).key = c.key}]
  IN  {Group(ComponentOf(f, typeDirMap)) : f \in kept}

Keys(groups) == {g.key : g \in groups}
GroupFor(key, groups) == CHOOSE g \in groups : g.key = key

(* A hash stands for the names and contents of the files of a group.       *)
HashGroups(groups, copy) ==
  [k \in Keys(groups) |-> [f \in GroupFor(k, groups).files |-> copy[f]]]

-----------------------------------------------------------------------------
(* Review rows. A group of both orgs keeps the file list of the source.    *)

Status(key, sourceHashes, targetHashes, targetAvailable) ==
  LET inSource == key \in DOMAIN sourceHashes
      inTarget == key \in DOMAIN targetHashes
  IN  CASE ~targetAvailable -> "unknown"
        [] targetAvailable /\ inSource /\ inTarget ->
             IF sourceHashes[key] = targetHashes[key] THEN "identical" ELSE "changed"
        [] targetAvailable /\ inSource /\ ~inTarget -> "new"
        [] targetAvailable /\ ~inSource /\ inTarget -> "missing-source"
        [] OTHER -> "unknown"

CompareComponentGroups(sourceGroups, targetGroups, sourceHashes, targetHashes, targetAvailable) ==
  LET Row(g) ==
        [key |-> g.key, type |-> g.type, fullName |-> g.fullName,
         files |-> g.files,
         sourceExists |-> g.key \in DOMAIN sourceHashes,
         status |-> Status(g.key, sourceHashes, targetHashes, targetAvailable)]
  IN  {Row(g) : g \in sourceGroups
                      \cup {h \in targetGroups : h.key \notin Keys(sourceGroups)}}

-----------------------------------------------------------------------------
(* Field-level security travels with fields.                               *)

SecurityTypes == {"Profile", "PermissionSet"}

IncludeFieldLevelSecurity(selections) ==
  LET NotSecurity(s) == s.type \notin SecurityTypes
      Every(type) == [type |-> type, members |-> {Wildcard}]
  IN  IF \E i \in DOMAIN selections : selections[i].type = "CustomField"
      THEN SelectSeq(selections, NotSecurity)
           \o <<Every("Profile"), Every("PermissionSet")>>
      ELSE selections

(* The closure over the rows that differ only.                             *)
RequiredUnlessIdentical(rows, requested) ==
  IF \E r \in rows : r.type = "CustomField" /\ r.key \in requested
  THEN requested \cup
       {r.key : r \in {x \in rows : x.status # "identical" /\ x.type \in SecurityTypes}}
  ELSE requested

IncludeRequiredFieldSecurityKeys(rows, requested) ==
  IF \E r \in rows : r.type = "CustomField" /\ r.key \in requested
  THEN requested \cup
       {r.key : r \in {x \in rows : x.sourceExists /\ x.type \in SecurityTypes}}
  ELSE requested

-----------------------------------------------------------------------------
(* The package. Its files are copied from the comparison's source copy;    *)
(* package.xml names the components that ship, destructiveChangesPost.xml, *)
(* written only when there are any, those that are deleted.                *)

Shipped(rows, selectedKeys, destructiveKeys) ==
  {r \in rows : r.key \in selectedKeys /\ r.key \notin destructiveKeys}

Component(row) == [type |-> row.type, fullName |-> row.fullName]

(* The copies fail when a file of a shipped row is not in the directory.   *)
CanBuildDeployScope(present, rows, selectedKeys, destructiveKeys) ==
  \A r \in Shipped(rows, selectedKeys, destructiveKeys) : r.files \subseteq present

BuildDeployScope(copy, rows, selectedKeys, destructiveKeys) ==
  LET shipped == Shipped(rows, selectedKeys, destructiveKeys)
      from == UNION {r.files : r \in shipped}
  IN  [files |-> {[path |-> StripUnpackagedWrapper(f), content |-> copy[f]] : f \in from},
       members |-> {Component(r) : r \in shipped},
       deletions |-> {Component(r) : r \in {x \in rows : x.key \in destructiveKeys}}]

-----------------------------------------------------------------------------
(* The CLI's arguments.                                                    *)

TestLevels == {"NoTestRun", "RunLocalTests"}

(* The arguments with `start` for every sandbox and no --dry-run.          *)
ArgsWithoutDryRun(mode, testLevel, targetIsSandbox) ==
  [command |-> IF mode = "deploy" \/ targetIsSandbox THEN "start" ELSE "validate",
   testLevel |-> testLevel, dryRun |-> FALSE]

BuildDeployArgs(mode, testLevel, targetIsSandbox) ==
  [command |-> IF mode = "deploy" \/ targetIsSandbox THEN "start" ELSE "validate",
   testLevel |-> IF mode = "validate" /\ ~targetIsSandbox /\ testLevel = "NoTestRun"
                 THEN "RunLocalTests" ELSE testLevel,
   dryRun |-> mode = "validate" /\ targetIsSandbox]

(* `start` changes the org unless it is a dry run; `validate` never does.  *)
Commits(args) == args.command = "start" /\ ~args.dryRun
=============================================================================
