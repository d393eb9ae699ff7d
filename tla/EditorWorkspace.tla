-------------------------- MODULE EditorWorkspace --------------------------
(***************************************************************************)
(* The metadata editor: server/src/routes/editor.ts, sf/editorSource.ts    *)
(* and client/src/features/editor.                                         *)
(*                                                                         *)
(* A component lives in its org, in a local copy that saving deploys, in   *)
(* the tabs of the window, and by name in the cached list that creating    *)
(* consults. Requests of the window overlap (nothing on the page waits for *)
(* another), each an action per await; other people change the orgs. The   *)
(* server keeps copies and lists by org; the page keeps tabs and files by  *)
(* the name of the component alone, whichever org is selected.             *)
(*                                                                         *)
(* The content of a part is a version. The parts of a component are its    *)
(* main file, a side file of a bundle, what a bundle may have beyond its   *)
(* plain files ("extra": files in a subfolder of a Lightning web           *)
(* component, definitions of an unknown kind in an Aura bundle), and the   *)
(* settings of its meta.xml beyond the API version ("pins", for            *)
(* packageVersions).                                                       *)
(***************************************************************************)
EXTENDS Naturals, FiniteSets, Functions

CONSTANTS Orgs,         \* orgs that can be selected
          Labels,       \* component names
          Opened,       \* the components that exist at first, each <<org, name>>
          Scope,        \* bound: what is worked on, each <<type, component>>
          Slots,        \* requests in flight at a time
          None,         \* no copy, no list, no request
          MaxAsks,      \* bound: requests
          MaxTabs,      \* bound: open tabs
          MaxClock      \* bound: versions

Names == Orgs \X Labels
OrgOf(c) == c[1]
Label(c) == c[2]
Types == {x[1] : x \in Scope}

ASSUME ScopeAssumption == Scope \subseteq {"apex", "lwc", "aura"} \X Names
ASSUME BoundsAssumption == MaxAsks \in Nat /\ MaxClock \in Nat \ {0}

VARIABLES
  type,       \* the type of the components, which never changes
  org,        \* what its org has of each component
  copy,       \* the local copy of each: None, or its files
  listed,     \* the cached list of each org, or None
  listing,    \* a load of the list in flight: what it read
  selected,   \* the org the window has selected
  requests,   \* requests in flight
  files,      \* componentFiles: the files the tree shows, by name
  tabs,       \* open tabs, by name and file
  clock,      \* the last version
  asks,       \* bounded by MaxAsks
  synced,     \* components whose copy has what their org has
  own         \* components made here and not touched by others since

serverVars == <<org, copy, listed, listing, synced, own>>
clientVars == <<files, tabs>>
vars == <<type, serverVars, selected, requests, clientVars, clock, asks>>

Files == {"main", "side"}
Package == "package"
Parts == Files \cup {"extra", "pins", Package}
\* The parts of a component, in an org, a copy or an answer, up to a version.
Contents(version) == UNION {[D -> 0 .. version] : D \in SUBSET Parts}
Nothing == [p \in {} |-> 0]
Only(p, value) == [q \in {p} |-> value]
Over(new, old) ==
  [p \in DOMAIN new \cup DOMAIN old |-> IF p \in DOMAIN new THEN new[p] ELSE old[p]]

Requests ==
  [kind : {"open", "save", "create", "add", "rename", "delete"},
   c : Names, d : Names, file : Files, content : 0 .. MaxClock,
   pc : {"check", "skeleton", "fetch", "wipe", "files", "retrieve", "ready",
         "write", "ship", "done", "destroy", "remove"},
   source : Contents(MaxClock), refused : BOOLEAN, alone : BOOLEAN, before : SUBSET Names]

ASSUME NoneAssumption ==
  /\ None \notin Contents(MaxClock) /\ None \notin Requests
  /\ \A S \in SUBSET Names : S # None

OnDisk(c) == IF copy[c] = None THEN Nothing ELSE copy[c]
Exists(c) == DOMAIN org[c] # {}
ListedNames(o) == {c \in Names : OrgOf(c) = o /\ Exists(c)}
InScope == {c \in Names : <<type, c>> \in Scope}
Here == {c \in InScope : OrgOf(c) = selected}
Present == Opened \cap InScope
Idle == {s \in Slots : requests[s] = None}
Busy == Slots \ Idle
\* The names a request works on; `d` is another only for a rename.
Touches(r) == {r.c, r.d}
\* Requests that were alone on some of `names` no longer are.
Disturb(names) ==
  [s \in Slots |-> IF s \in Busy /\ Touches(requests[s]) \cap names # {}
                   THEN [requests[s] EXCEPT !.alone = FALSE] ELSE requests[s]]

-----------------------------------------------------------------------------
(***************************************************************************)
(* What the Tooling API gives of a component, as files to be deployed      *)
(* back (editorSource.ts).                                                 *)
(***************************************************************************)
\* Settings as the Metadata record has them, whatever they are, and settings made
\* of nothing but the API version and the description.
RenderMetadataXml(c) == Restrict(org[c], DOMAIN org[c] \cap {"pins"})
SimpleMetaXml == Nothing

\* The source column and the whole record.
ApexSource(c) == Over(Restrict(org[c], {"main"}), RenderMetadataXml(c))
\* Every resource of the bundle, at any depth; its meta.xml is one of them.
LwcBundle(c) == org[c]
\* Every definition of a known kind; the others are skipped, and the meta.xml is
\* not one of them and is made.
AuraBundle(c) == Over(Restrict(org[c], DOMAIN org[c] \cap Files), SimpleMetaXml)

FetchSource(c) ==
  IF type = "apex" THEN ApexSource(c)
  ELSE IF type = "lwc" THEN LwcBundle(c) ELSE AuraBundle(c)

\* What a deployment of the local copy leaves in the org: it replaces the
\* component. Without a package or a main file nothing is deployed.
Deployable(f) == f # None /\ {Package, "main"} \subseteq DOMAIN f
Deployed(f) == Restrict(f, DOMAIN f \ {Package})
ListComponentFiles(f) == Files \cap DOMAIN f
WithPackage(f) == Over(Only(Package, 0), f)

\* The window has been opened, or the components were opened in it before.
FirstParts == IF type = "apex" THEN {"main", "pins"} ELSE {"main", "side", "extra", "pins"}
Init ==
  /\ type \in Types
  /\ org = [c \in Names |-> IF c \in Present THEN [p \in FirstParts |-> 1] ELSE Nothing]
  /\ listed = [o \in Orgs |-> None] /\ listing = [o \in Orgs |-> None]
  /\ \E c \in InScope : selected = OrgOf(c)
  /\ requests = [s \in Slots |-> None]
  /\ tabs = Nothing
  /\ own = {}
  /\ \/ copy = [c \in Names |-> None] /\ synced = {} /\ files = [l \in Labels |-> {}]
     \/ /\ copy = [c \in Names |-> IF c \in Present THEN WithPackage(FetchSource(c)) ELSE None]
        /\ synced = Present
        /\ files = [l \in Labels |-> UNION {ListComponentFiles(org[c]) :
                                             c \in {c \in Present : Label(c) = l}}]
  /\ clock = 1 /\ asks = 0

-----------------------------------------------------------------------------
(***************************************************************************)
(* The org, changed by other people, and the list of components, which the *)
(* tree and `componentExists` load through the read cache: what is cached  *)
(* may be older than the org, and an invalidation does not stop a load.    *)
(***************************************************************************)
OrgChange(c) ==
  /\ clock < MaxClock
  /\ Exists(c)
  /\ clock' = clock + 1
  /\ \/ org' = [org EXCEPT ![c] = Over(Only("main", clock + 1), @)]
     \/ "side" \in DOMAIN org[c] /\ org' = [org EXCEPT ![c] = Restrict(@, DOMAIN @ \ {"side"})]
     \/ org' = [org EXCEPT ![c] = Nothing]
  /\ requests' = Disturb({c})
  /\ synced' = synced \ {c} /\ own' = own \ {c}
  /\ UNCHANGED <<type, copy, listed, listing, selected, clientVars, asks>>

ListReads(o) ==
  /\ listing[o] = None
  /\ \/ o = selected /\ asks < MaxAsks
     \/ \E s \in Busy : requests[s].pc = "check" /\ OrgOf(requests[s].d) = o
  /\ listing' = [listing EXCEPT ![o] = ListedNames(o)]
  /\ UNCHANGED <<type, org, copy, listed, selected, synced, own, requests, clientVars, clock, asks>>

ListAnswers(o) ==
  /\ listing[o] # None
  /\ listed' = [listed EXCEPT ![o] = listing[o]]
  /\ listing' = [listing EXCEPT ![o] = None]
  /\ UNCHANGED <<type, org, copy, selected, synced, own, requests, clientVars, clock, asks>>

-----------------------------------------------------------------------------
(***************************************************************************)
(* The window. A request is named by its route and goes to the org that is *)
(* selected; `alone` until another touches the same components, `before`   *)
(* is what had been made here by then.                                     *)
(***************************************************************************)
Send(s, kind, c, d, f, content, pc) ==
  /\ asks < MaxAsks
  /\ s \in Idle
  /\ asks' = asks + 1
  /\ LET touched == {t \in Busy : Touches(requests[t]) \cap {c, d} # {}} IN
     requests' = [Disturb({c, d}) EXCEPT ![s] =
       [kind |-> kind, c |-> c, d |-> d, file |-> f, content |-> content, pc |-> pc,
        source |-> Nothing, refused |-> FALSE, alone |-> touched = {}, before |-> own]]
  /\ UNCHANGED <<type, serverVars, selected, files, clock>>

\* Another org: the tree shows its list, files and tabs stay.
SelectOrg(o) ==
  /\ asks < MaxAsks
  /\ o # selected /\ \E c \in InScope : OrgOf(c) = o
  /\ selected' = o
  /\ UNCHANGED <<type, serverVars, requests, clientVars, clock, asks>>

\* Expanding a component in the tree, or refreshing it from the org.
Open(s, c, force) ==
  /\ Exists(c) \/ copy[c] # None
  /\ ~force => files[Label(c)] = {}
  /\ Send(s, "open", c, c, "main", 0, IF force \/ copy[c] = None THEN "fetch" ELSE "ready")
  /\ UNCHANGED tabs

\* A file of the tree gets a tab that shows nothing until it is loaded.
OpenFile(l, f) ==
  /\ f \in files[l] /\ <<l, f>> \notin DOMAIN tabs
  /\ Cardinality(DOMAIN tabs) < MaxTabs
  /\ tabs' = Over(Only(<<l, f>>, [content |-> 0, original |-> 0, from |-> selected,
                                  loading |-> TRUE, saving |-> FALSE]), tabs)
  /\ UNCHANGED <<type, serverVars, selected, requests, files, clock, asks>>

\* The file as the copy has it now; without it the tab goes away.
FileAnswers(t) ==
  /\ t \in DOMAIN tabs /\ tabs[t].loading
  /\ LET c == <<tabs[t].from, t[1]>> f == t[2] IN
     tabs' = IF copy[c] # None /\ f \in DOMAIN copy[c]
             THEN [tabs EXCEPT ![t] = [@ EXCEPT !.content = copy[c][f], !.original = copy[c][f],
                                                !.loading = FALSE]]
             ELSE Restrict(tabs, DOMAIN tabs \ {t})
  /\ UNCHANGED <<type, serverVars, selected, requests, files, clock, asks>>

CloseTab(t) ==
  /\ t \in DOMAIN tabs
  /\ tabs' = Restrict(tabs, DOMAIN tabs \ {t})
  /\ UNCHANGED <<type, serverVars, selected, requests, files, clock, asks>>

UpdateTabContent(t) ==
  /\ clock < MaxClock
  /\ t \in DOMAIN tabs /\ ~tabs[t].loading
  /\ clock' = clock + 1
  /\ tabs' = [tabs EXCEPT ![t].content = clock + 1]
  /\ UNCHANGED <<type, serverVars, selected, requests, files, asks>>

\* The button needs a change, the keyboard does not. The file goes to the
\* component of that name in the org that is selected by then.
SaveTab(s, t) ==
  /\ t \in DOMAIN tabs /\ ~tabs[t].saving /\ ~tabs[t].loading
  /\ LET c == <<selected, t[1]>> IN
     c \in Here /\ Send(s, "save", c, c, t[2], tabs[t].content, "write")
  /\ tabs' = [tabs EXCEPT ![t].saving = TRUE]

CreateComponent(s, c) ==
  Send(s, "create", c, c, "main", 0, "check") /\ UNCHANGED tabs

AddBundleFile(s, c) ==
  /\ type # "apex" /\ files[Label(c)] # {} /\ "side" \notin files[Label(c)]
  /\ Send(s, "add", c, c, "side", 0, IF copy[c] = None THEN "fetch" ELSE "ready")
  /\ UNCHANGED tabs

\* The route; the page's own dialog never sends a name that it accepts.
Rename(s, c, d) ==
  /\ c # d
  /\ Send(s, "rename", c, d, "main", 0, "check") /\ UNCHANGED tabs

DeleteComponent(s, c) ==
  /\ Exists(c) \/ copy[c] # None
  /\ Send(s, "delete", c, c, "main", 0, "destroy") /\ UNCHANGED tabs

-----------------------------------------------------------------------------
(***************************************************************************)
(* The handlers, one action per await. `Goes` moves a request on; `Ends`   *)
(* answers it, which the window takes at once.                             *)
(***************************************************************************)
Goes(s, pc) == requests' = [requests EXCEPT ![s].pc = pc]
Ends(s) == requests' = [requests EXCEPT ![s] = None]
At(s, pc) == s \in Busy /\ requests[s].pc = pc

\* saveTab as if it did not matter whether there is an answer.
AfterSaveAlways(r, ok) ==
  LET t == <<Label(r.c), r.file>> IN
  IF t \notin DOMAIN tabs THEN tabs
  ELSE [tabs EXCEPT ![t].saving = FALSE, ![t].original = tabs[t].content]

\* saveTab: what the tab holds now counts as saved, once the save is answered,
\* whether or not the answer is that the org refused it.
AfterSave(r, ok) ==
  LET t == <<Label(r.c), r.file>> IN
  IF t \notin DOMAIN tabs THEN tabs
  ELSE [tabs EXCEPT ![t].saving = FALSE, ![t].original = IF ok THEN tabs[t].content ELSE @]

CloseAll(c) == Restrict(tabs, {t \in DOMAIN tabs : t[1] # Label(c)})

Fails(s) ==
  /\ Ends(s)
  /\ tabs' = IF requests[s].kind = "save" THEN AfterSave(requests[s], FALSE) ELSE tabs
  /\ UNCHANGED files

KeepList(o) == listed' = listed
\* invalidateComponents drops the list from the runner and from the cache.
Invalidate(o) == listed' = [listed EXCEPT ![o] = None]

\* componentExists, from the cached list.
CheckExists(s) ==
  /\ At(s, "check")
  /\ LET r == requests[s] o == OrgOf(r.d) IN
     /\ listed[o] # None
     /\ IF r.d \in listed[o] THEN Fails(s)
        ELSE /\ Goes(s, IF r.kind = "create" THEN "skeleton" ELSE "fetch")
             /\ UNCHANGED clientVars
  /\ UNCHANGED <<type, serverVars, selected, clock, asks>>

\* retrieveComponent: through the API, or through the CLI when that cannot
\* answer; an error that must not fall back ends the request.
FetchAnswers(s) ==
  LET r == requests[s] IN
  /\ At(s, "fetch")
  /\ \/ /\ Exists(r.c)
        /\ requests' = [requests EXCEPT ![s] = [r EXCEPT !.pc = "wipe", !.source = FetchSource(r.c)]]
        /\ UNCHANGED clientVars
     \/ Goes(s, "retrieve") /\ UNCHANGED clientVars
     \/ Fails(s)
  /\ UNCHANGED <<type, serverVars, selected, clock, asks>>

\* Without the removal that comes first.
WipeNothing(s) ==
  /\ At(s, "wipe")
  /\ copy' = [copy EXCEPT ![requests[s].c] = OnDisk(requests[s].c)]
  /\ synced' = synced \ {requests[s].c}
  /\ Goes(s, "files")
  /\ UNCHANGED <<type, org, listed, listing, selected, own, clientVars, clock, asks>>

\* writeComponentFromApi removes the copy and writes file by file, the
\* package last.
Wipe(s) ==
  /\ At(s, "wipe")
  /\ copy' = [copy EXCEPT ![requests[s].c] = Nothing]
  /\ synced' = synced \ {requests[s].c}
  /\ Goes(s, "files")
  /\ UNCHANGED <<type, org, listed, listing, selected, own, clientVars, clock, asks>>

WriteFile(s) ==
  LET r == requests[s] IN
  /\ At(s, "files")
  /\ r.source # Nothing
  /\ LET p == CHOOSE p \in DOMAIN r.source : TRUE IN
     /\ copy' = [copy EXCEPT ![r.c] = Over(Only(p, r.source[p]), OnDisk(r.c))]
     /\ requests' = [requests EXCEPT ![s].source = Restrict(@, DOMAIN @ \ {p})]
  /\ UNCHANGED <<type, org, listed, listing, selected, synced, own, clientVars, clock, asks>>

WritePackage(s) ==
  LET r == requests[s] IN
  /\ At(s, "files") /\ r.source = Nothing
  /\ copy' = [copy EXCEPT ![r.c] = WithPackage(OnDisk(r.c))]
  /\ synced' = IF r.alone THEN synced \cup {r.c} ELSE synced
  /\ Goes(s, "ready")
  /\ UNCHANGED <<type, org, listed, listing, selected, own, clientVars, clock, asks>>

\* The CLI unzips what it retrieved over what is there.
RetrieveAnswers(s) ==
  LET r == requests[s] IN
  /\ At(s, "retrieve")
  /\ IF Exists(r.c)
     THEN /\ copy' = [copy EXCEPT ![r.c] = Over(WithPackage(org[r.c]), OnDisk(r.c))]
          /\ synced' = synced \ {r.c}
          /\ Goes(s, "ready") /\ UNCHANGED clientVars
     ELSE Fails(s) /\ UNCHANGED <<copy, synced>>
  /\ UNCHANGED <<type, org, listed, listing, selected, own, clock, asks>>

\* The copy is there: an open answers with its files, and fails without any.
OpenAnswers(s) ==
  LET r == requests[s] IN
  /\ At(s, "ready") /\ r.kind = "open"
  /\ IF copy[r.c] # None /\ ListComponentFiles(copy[r.c]) # {}
     THEN /\ Ends(s)
          /\ files' = [files EXCEPT ![Label(r.c)] = ListComponentFiles(copy[r.c])]
          /\ UNCHANGED tabs
     ELSE Fails(s)
  /\ UNCHANGED <<type, serverVars, selected, clock, asks>>

\* The other routes write into their copy what they are to deploy; files are
\* written into a directory and replace only those of their name.
Writes(s, c, new) ==
  /\ copy' = [copy EXCEPT ![c] = Over(new, OnDisk(c))]
  /\ Goes(s, "ship")
  /\ UNCHANGED <<type, org, listed, listing, selected, synced, own, clientVars, clock, asks>>

WriteContent(s) ==
  LET r == requests[s] IN
  /\ At(s, "write")
  /\ IF copy[r.c] # None /\ r.file \in DOMAIN copy[r.c]
     THEN Writes(s, r.c, Only(r.file, r.content))
     ELSE Fails(s) /\ UNCHANGED <<type, serverVars, selected, clock, asks>>

WriteSkeleton(s) ==
  /\ At(s, "skeleton")
  /\ Writes(s, requests[s].c, WithPackage(Only("main", 0)))

AddFile(s) ==
  LET r == requests[s] IN
  /\ At(s, "ready") /\ r.kind = "add"
  /\ IF copy[r.c] = None \/ "side" \in DOMAIN copy[r.c]
     THEN Fails(s) /\ UNCHANGED <<type, serverVars, selected, clock, asks>>
     ELSE Writes(s, r.c, Only("side", 0))

\* Only what is a plain file in the directory of the bundle is copied.
PlainFiles(f) == Restrict(f, DOMAIN f \ (IF type = "lwc" THEN {"extra"} ELSE {}))
CopyRenamed(s) ==
  LET r == requests[s] IN
  /\ At(s, "ready") /\ r.kind = "rename"
  /\ IF copy[r.c] = None \/ "main" \notin DOMAIN copy[r.c]
     THEN Fails(s) /\ UNCHANGED <<type, serverVars, selected, clock, asks>>
     ELSE Writes(s, r.d, WithPackage(PlainFiles(copy[r.c])))

\* A rename that would go on when the deployment of the new component throws.
DeployAnyhow(s) ==
  LET r == requests[s]
      taken == /\ Deployable(copy[r.d])
               /\ org' = [org EXCEPT ![r.d] = Deployed(copy[r.d])]
               /\ own' = own \ {r.d}
  IN
  /\ At(s, "ship")
  /\ \/ taken
     \/ r.kind = "rename" /\ UNCHANGED <<org, own>>
  /\ Goes(s, IF r.kind = "rename" THEN "destroy" ELSE "done")
  /\ synced' = IF r.alone THEN synced \cup {r.d} ELSE synced \ {r.d}
  /\ UNCHANGED <<type, copy, listed, listing, selected, clientVars, clock, asks>>

(***************************************************************************)
(* deployMetadataDir: the CLI reads the directory as it is then. The org   *)
(* takes it; or refuses it, which the answer says and no route looks at;   *)
(* or the call throws, whether or not the org took it.                     *)
(***************************************************************************)
Deploy(s) ==
  LET r == requests[s]
      next == IF r.kind = "rename" THEN "destroy" ELSE "done"
      taken == /\ Deployable(copy[r.d])
               /\ org' = [org EXCEPT ![r.d] = Deployed(copy[r.d])]
               /\ own' = own \ {r.d}
      refused == UNCHANGED <<org, own>>
  IN
  /\ At(s, "ship")
  /\ \/ /\ taken /\ Goes(s, next)
        /\ synced' = IF r.alone THEN synced \cup {r.d} ELSE synced \ {r.d}
        /\ UNCHANGED clientVars
     \/ /\ refused
        /\ requests' = [requests EXCEPT ![s] = [r EXCEPT !.pc = next, !.refused = TRUE]]
        /\ synced' = synced \ {r.d}
        /\ UNCHANGED clientVars
     \/ Fails(s) /\ synced' = synced \ {r.d} /\ (taken \/ refused)
  /\ UNCHANGED <<type, copy, listed, listing, selected, clock, asks>>

\* The routes that deployed something end.
DeployAnswers(s) ==
  LET r == requests[s] IN
  /\ At(s, "done")
  /\ Ends(s)
  /\ IF r.kind = "add" THEN KeepList(OrgOf(r.c)) ELSE Invalidate(OrgOf(r.c))
  /\ own' = IF r.kind = "create" /\ ~r.refused /\ listing[OrgOf(r.c)] = None /\ Exists(r.c)
            THEN own \cup {r.c} ELSE own
  /\ files' = IF r.kind = "save" \/ copy[r.c] = None THEN files
              ELSE [files EXCEPT ![Label(r.c)] = ListComponentFiles(copy[r.c])]
  /\ tabs' = IF r.kind = "save" THEN AfterSave(r, TRUE) ELSE tabs
  /\ UNCHANGED <<type, org, copy, listing, selected, synced, clock, asks>>

\* destructiveDeploy. What was answered goes on, refused or not; a call that
\* throws, whether or not the org took it, ends a deletion and not a rename.
Destroy(s) ==
  LET r == requests[s] IN
  /\ At(s, "destroy")
  /\ \/ org' = [org EXCEPT ![r.c] = Nothing] /\ own' = own \ {r.c}
     \/ UNCHANGED <<org, own>>
  /\ \/ Goes(s, "remove") /\ UNCHANGED clientVars
     \/ r.kind = "delete" /\ Fails(s)
  /\ synced' = synced \ {r.c}
  /\ UNCHANGED <<type, copy, listed, listing, selected, clock, asks>>

RemoveCopy(s) ==
  LET r == requests[s] IN
  /\ At(s, "remove")
  /\ copy' = [copy EXCEPT ![r.c] = None]
  /\ synced' = synced \ {r.c}
  /\ Invalidate(OrgOf(r.c))
  /\ own' = IF r.kind = "rename" /\ ~r.refused /\ listing[OrgOf(r.d)] = None /\ Exists(r.d)
            THEN own \cup {r.d} ELSE own
  /\ Ends(s)
  /\ files' = [l \in Labels |-> IF l = Label(r.c) THEN {}
                                ELSE IF l = Label(r.d) /\ copy[r.d] # None
                                     THEN ListComponentFiles(copy[r.d]) ELSE files[l]]
  /\ tabs' = CloseAll(r.c)
  /\ UNCHANGED <<type, org, listing, selected, clock, asks>>

-----------------------------------------------------------------------------
Ask(s) ==
  \/ \E t \in DOMAIN tabs : SaveTab(s, t)
  \/ \E c \in Here :
       \/ \E force \in BOOLEAN : Open(s, c, force)
       \/ CreateComponent(s, c) \/ AddBundleFile(s, c) \/ DeleteComponent(s, c)
       \/ \E d \in Here : Rename(s, c, d)

Handle(s) ==
  \/ CheckExists(s) \/ FetchAnswers(s) \/ Wipe(s) \/ WriteFile(s) \/ WritePackage(s)
  \/ RetrieveAnswers(s) \/ OpenAnswers(s) \/ WriteContent(s) \/ WriteSkeleton(s)
  \/ AddFile(s) \/ CopyRenamed(s) \/ Deploy(s) \/ DeployAnswers(s)
  \/ Destroy(s) \/ RemoveCopy(s)

Next ==
  \/ \E s \in Slots : Ask(s) \/ Handle(s)
  \/ \E c \in InScope : OrgChange(c)
  \/ \E l \in Labels, f \in Files : OpenFile(l, f)
  \/ \E t \in DOMAIN tabs : FileAnswers(t) \/ UpdateTabContent(t) \/ CloseTab(t)
  \/ \E o \in Orgs : SelectOrg(o) \/ ListReads(o) \/ ListAnswers(o)

Spec == Init /\ [][Next]_vars

-----------------------------------------------------------------------------
(***************************************************************************)
(* Properties.                                                             *)
(***************************************************************************)
TypeOK ==
  /\ type \in Types
  /\ org \in [Names -> Contents(clock)] /\ \A c \in Names : Package \notin DOMAIN org[c]
  /\ copy \in [Names -> Contents(clock) \cup {None}]
  /\ listed \in [Orgs -> {None} \cup SUBSET Names]
  /\ listing \in [Orgs -> {None} \cup SUBSET Names]
  /\ selected \in Orgs
  /\ requests \in [Slots -> Requests \cup {None}]
  /\ files \in [Labels -> SUBSET Files]
  /\ DOMAIN tabs \subseteq Labels \X Files
  /\ tabs \in [DOMAIN tabs -> [content : 0 .. clock, original : 0 .. clock, from : Orgs,
                              loading : BOOLEAN, saving : BOOLEAN]]
  /\ synced \subseteq Names /\ own \subseteq Names
  /\ clock \in 1 .. MaxClock /\ asks \in 0 .. MaxAsks

\* The parts a deployment of an API copy can bring back.
Kept(f) == IF type = "aura" THEN Restrict(f, DOMAIN f \cap Files) ELSE f
But(f, p) == Restrict(f, DOMAIN f \ {p})
Deploys(s) == At(s, "ship") /\ ~(s \in Busy /\ At(s, "ship"))'

\* Saving or adding one file changes nothing else of the component in the org,
\* when the copy was what the org had: not when the org has changed since, when
\* an earlier save was refused and its content stayed in the copy, when the CLI
\* retrieved over an older copy, or when another request works on the same
\* component (editor.ts:171-210, 309-324). A save of an Aura bundle drops the
\* definitions and settings that are not read.
SaveSparesTheRest ==
  []TypeOK /\ [][\A s \in Slots :
       LET r == requests[s] IN
       (Deploys(s) /\ r.kind \in {"save", "add"} /\ r.alone /\ r.c \in synced)
         => But(Kept(org'[r.c]), r.file) = But(Kept(org[r.c]), r.file)]_vars

\* A tab stops being marked as changed only by the answer of its own save. What
\* was sent is then in the local copy, and in the org unless the answer is that
\* it was refused ("saved locally", EditorPage.tsx:184), unless the component
\* was touched meanwhile. What is typed while the save is out loses its mark too
\* (EditorPage.tsx:181).
Holds(f, p, value) == f # None /\ p \in DOMAIN f /\ f[p] = value
CleanMeansSent ==
  [][\A t \in DOMAIN tabs \cap DOMAIN tabs' :
       (~tabs[t].loading /\ tabs[t].content # tabs[t].original
          /\ tabs'[t].content = tabs'[t].original)
         => \E s \in Busy : LET r == requests[s] IN
              /\ At(s, "done") /\ r.kind = "save" /\ <<Label(r.c), r.file>> = t
              /\ r.alone => /\ Holds(copy[r.c], r.file, r.content)
                            /\ r.refused \/ Holds(org[r.c], r.file, r.content)]_vars

\* Creating or renaming never replaces a component that was made here before it
\* was asked for, if that one's answer found no load of the list in flight: the
\* list is dropped whenever it changed, but a load that had read it before
\* brings the old one back (editor.ts:227-231, cache.ts:147).
CreateSparesOwn ==
  [][\A s \in Slots :
       LET r == requests[s] IN
       (Deploys(s) /\ r.kind \in {"create", "rename"} /\ r.alone /\ r.d \in r.before \cap own)
         => org'[r.d] = org[r.d]]_vars

\* When the old component of a rename is deleted, the org has its files and
\* settings under the new name, unless one of the two was touched during the
\* rename or the answer was that the new one was refused, at which the route does
\* not look (editor.ts:395-399). Excepted are what a bundle has in subfolders,
\* which is not copied (248), and what is not read of an Aura bundle.
RenameKeepsFiles ==
  [][\A s \in Slots :
       LET r == requests[s] IN
       (At(s, "destroy") /\ r.kind = "rename" /\ r.alone /\ ~r.refused /\ org'[r.c] # org[r.c])
         => \A p \in DOMAIN Kept(org[r.c]) \ {"extra"} : Holds(org[r.d], p, org[r.c][p])]_vars
=============================================================================
