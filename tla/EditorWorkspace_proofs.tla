----------------------- MODULE EditorWorkspace_proofs -----------------------
(***************************************************************************)
(* Theorems about the editor, for any components, any number of requests   *)
(* in flight, of tabs and of changes in the org by other people.           *)
(***************************************************************************)
EXTENDS EditorWorkspace, TLAPS

(* A request that is alone shares its names with no other.                 *)
AloneInv ==
  \A s, t \in Busy : s # t /\ requests[s].alone =>
    Touches(requests[s]) \cap Touches(requests[t]) = {}

(* The parts that an API copy can bring back: `f` and `g` have the same,   *)
(* but for `p`; `f` has those of `g`, or all but what a copy leaves out;   *)
(* `f` has only what `g` has.                                              *)
KeptParts == IF type = "aura" THEN Files ELSE Files \cup {"pins", "extra"}
Agree(f, g, p) ==
  \A q \in KeptParts \ {p} :
    (q \in DOMAIN f <=> q \in DOMAIN g) /\ (q \in DOMAIN f => f[q] = g[q])
Carries(f, g) == \A q \in KeptParts \cap DOMAIN g : q \in DOMAIN f /\ f[q] = g[q]
CarriesFiles(f, g) ==
  \A q \in (KeptParts \cap DOMAIN g) \ {"extra"} : q \in DOMAIN f /\ f[q] = g[q]
IsFrom(f, g) == \A q \in DOMAIN f : q \in KeptParts \cap DOMAIN g /\ f[q] = g[q]

(* A class has neither a side file nor anything beyond its files.          *)
Shaped(f) == type = "apex" => "side" \notin DOMAIN f /\ "extra" \notin DOMAIN f
USE DEF Shaped

(* What each request is, and at which await it can be.                     *)
StageOk(r) ==
  /\ r.kind = "rename" \/ r.c = r.d
  /\ OrgOf(r.c) = OrgOf(r.d)
  /\ r.kind = "add" => type # "apex" /\ r.file = "side"
  /\ \/ r.kind = "open" /\ r.pc \in {"fetch", "wipe", "files", "retrieve", "ready"}
     \/ r.kind = "save" /\ r.pc \in {"write", "ship", "done"}
     \/ r.kind = "create" /\ r.pc \in {"check", "skeleton", "ship", "done"}
     \/ r.kind = "add" /\ r.pc \in {"fetch", "wipe", "files", "retrieve", "ready", "ship", "done"}
     \/ /\ r.kind = "rename"
        /\ r.pc \in {"check", "fetch", "wipe", "files", "retrieve", "ready", "ship",
                     "destroy", "remove"}
     \/ r.kind = "delete" /\ r.pc \in {"destroy", "remove"}

(* What is known of a request that is alone. While it fetches, the org has *)
(* what it read; what it still has to write and what is in the copy make   *)
(* it up.                                                                  *)
Fetching(r) ==
  /\ r.pc = "wipe" => IsFrom(r.source, org[r.c]) /\ Carries(r.source, org[r.c])
  /\ r.pc = "files" =>
       /\ copy[r.c] # None
       /\ IsFrom(r.source, org[r.c]) /\ IsFrom(copy[r.c], org[r.c])
       /\ KeptParts \cap DOMAIN org[r.c] \subseteq DOMAIN copy[r.c] \cup DOMAIN r.source

(* A save has its content in the copy, then in the org unless it was       *)
(* refused; a rename has the old component in its copy, but for what is    *)
(* not copied in the new one, then so in the org.                          *)
Saving(r) ==
  r.kind = "save" =>
    /\ r.pc = "ship" => Holds(copy[r.c], r.file, r.content)
    /\ r.pc = "done" => /\ Holds(copy[r.c], r.file, r.content)
                        /\ r.refused \/ Holds(org[r.c], r.file, r.content)
Renaming(r) ==
  r.kind = "rename" =>
    /\ r.pc = "ready" => copy[r.c] # None /\ Carries(copy[r.c], org[r.c])
    /\ r.pc = "ship" => copy[r.d] # None /\ CarriesFiles(copy[r.d], org[r.c])
    /\ r.pc = "destroy" => r.refused \/ CarriesFiles(org[r.d], org[r.c])
(* What it has checked to be free was not made here.                       *)
Creating(r) ==
  r.kind \in {"create", "rename"} /\ r.pc \notin {"check", "done", "destroy", "remove"} =>
    r.d \notin own

SourceOk(r) ==
  /\ r.source \in Contents(clock) /\ Package \notin DOMAIN r.source /\ r.content <= clock
  /\ Shaped(r.source)
RequestOk(r) ==
  /\ StageOk(r) /\ SourceOk(r)
  /\ r.alone => Fetching(r) /\ Saving(r) /\ Renaming(r) /\ Creating(r)

RequestInv == \A s \in Busy : RequestOk(requests[s])

(* A component that exists has a main file.                                *)
ShapeInv ==
  \A c \in Names :
    /\ Exists(c) => "main" \in DOMAIN org[c]
    /\ Shaped(org[c])
    /\ copy[c] # None => Shaped(copy[c])

(* What was made here exists, in the cached list and in one being loaded.  *)
OwnInv ==
  \A c \in own : /\ Exists(c)
                 /\ listed[OrgOf(c)] = None \/ c \in listed[OrgOf(c)]
                 /\ listing[OrgOf(c)] = None \/ c \in listing[OrgOf(c)]

(* A copy that has what the org has, or differs by the file of the request *)
(* that is about to deploy it.                                             *)
Shipping(c) == {s \in Busy : requests[s].pc = "ship" /\ requests[s].d = c}
Synced(c) ==
  /\ copy[c] # None
  /\ \A s \in Busy : requests[s].c = c => requests[s].pc # "files"
  /\ Shipping(c) = {} => Agree(copy[c], org[c], Package)
  /\ \A s \in Shipping(c) :
       LET r == requests[s]
       IN  r.alone /\ r.kind \in {"save", "add"} => Agree(copy[c], org[c], r.file)
SyncInv == \A c \in synced : Synced(c)

EditorInv ==
  TypeOK /\ AloneInv /\ RequestInv /\ ShapeInv /\ OwnInv /\ SyncInv

-----------------------------------------------------------------------------
(* Lemmas about the operators.                                             *)

(* Files and settings are parts, and the package is none of either.        *)
LEMMA PartsAre ==
  /\ Files \subseteq Parts /\ KeptParts \subseteq Parts /\ Files \subseteq KeptParts
  /\ Package \in Parts /\ Package \notin KeptParts /\ Package \notin Files
  /\ "main" \in Files /\ "side" \in Files /\ "pins" \in Parts
BY DEF Parts, Files, KeptParts, Package

(* Contents are functions from parts to versions.                          *)
LEMMA ContentsAreFunctions ==
  ASSUME NEW n, NEW f
  PROVE  f \in Contents(n) <=> DOMAIN f \subseteq Parts /\ f \in [DOMAIN f -> 0 .. n]
<1>1. ASSUME f \in Contents(n) PROVE DOMAIN f \subseteq Parts /\ f \in [DOMAIN f -> 0 .. n]
  BY <1>1 DEF Contents
<1>2. ASSUME DOMAIN f \subseteq Parts, f \in [DOMAIN f -> 0 .. n] PROVE f \in Contents(n)
  BY <1>2 DEF Contents
<1> QED BY <1>1, <1>2

(* They stay contents as versions go on, and none of them is None.         *)
LEMMA ContentsGrow ==
  ASSUME NEW n \in Int, NEW m \in Int, n <= m, NEW f \in Contents(n)
  PROVE  f \in Contents(m)
BY ContentsAreFunctions

\* None is not the contents of a component.
LEMMA NoneIsApart ==
  ASSUME clock \in 1 .. MaxClock
  PROVE  /\ Contents(clock) \subseteq Contents(MaxClock)
         /\ None \notin Contents(clock)
<1>1. clock \in Int /\ MaxClock \in Int /\ clock <= MaxClock
  BY BoundsAssumption
<1> QED BY <1>1, ContentsGrow, NoneAssumption

(* Nothing, one part, a restriction and a merge of contents are contents.  *)
LEMMA NothingIsContents ==
  ASSUME NEW n
  PROVE  Nothing \in Contents(n) /\ DOMAIN Nothing = {}
BY ContentsAreFunctions DEF Nothing

\* A single part with a version is contents.
LEMMA OnlyIsContents ==
  ASSUME NEW n, NEW p \in Parts, NEW v \in 0 .. n
  PROVE  Only(p, v) \in Contents(n)
BY ContentsAreFunctions DEF Only

\* What `Only` holds.
LEMMA OnlyHas ==
  ASSUME NEW p, NEW v
  PROVE  DOMAIN Only(p, v) = {p} /\ Only(p, v)[p] = v
BY DEF Only

\* A part of contents is contents.
LEMMA RestrictIsContents ==
  ASSUME NEW n, NEW f \in Contents(n), NEW S, S \subseteq DOMAIN f
  PROVE  Restrict(f, S) \in Contents(n)
BY ContentsAreFunctions DEF Restrict

\* What `Restrict` holds.
LEMMA RestrictHas ==
  ASSUME NEW f, NEW S
  PROVE  DOMAIN Restrict(f, S) = S /\ \A p \in S : Restrict(f, S)[p] = f[p]
BY DEF Restrict

\* Contents written over contents are contents.
LEMMA OverIsContents ==
  ASSUME NEW n, NEW f \in Contents(n), NEW g \in Contents(n)
  PROVE  Over(f, g) \in Contents(n)
BY ContentsAreFunctions DEF Over

\* What `Over` holds: all of the new, and of the old what the new has not.
LEMMA OverHas ==
  ASSUME NEW f, NEW g
  PROVE  /\ DOMAIN Over(f, g) = DOMAIN f \cup DOMAIN g
         /\ \A p \in DOMAIN f : Over(f, g)[p] = f[p]
         /\ \A p \in DOMAIN g \ DOMAIN f : Over(f, g)[p] = g[p]
BY DEF Over

\* Adding a package changes no other part.
LEMMA WithPackageHas ==
  ASSUME NEW n \in Nat, NEW f \in Contents(n)
  PROVE  /\ WithPackage(f) \in Contents(n)
         /\ DOMAIN WithPackage(f) = DOMAIN f \cup {Package}
         /\ \A p \in DOMAIN f \ {Package} : WithPackage(f)[p] = f[p]
<1> DEFINE package == Only(Package, 0)
<1>1. package \in Contents(n) /\ DOMAIN package = {Package}
  <2>1. 0 \in 0 .. n
    OBVIOUS
  <2> QED BY <2>1, PartsAre, OnlyIsContents, OnlyHas
<1>2. WithPackage(f) = Over(package, f)
  BY DEF WithPackage
<1> HIDE DEF package
<1>3. Over(package, f) \in Contents(n)
  BY <1>1, OverIsContents
<1>4. /\ DOMAIN Over(package, f) = DOMAIN package \cup DOMAIN f
      /\ \A p \in DOMAIN f \ DOMAIN package : Over(package, f)[p] = f[p]
  BY OverHas
<1> QED BY <1>1, <1>2, <1>3, <1>4

\* The org and the name of a component.
LEMMA NamesAre ==
  ASSUME NEW c \in Names
  PROVE  OrgOf(c) \in Orgs /\ Label(c) \in Labels
BY DEF Names, OrgOf, Label

(* What is fetched is what the org has, of the parts that can be brought   *)
(* back.                                                                   *)
LEMMA FetchedIsKept ==
  ASSUME NEW n, NEW c, type \in Types, org[c] \in Contents(n), Package \notin DOMAIN org[c],
         "main" \in DOMAIN org[c], Shaped(org[c])
  PROVE  /\ FetchSource(c) \in Contents(n)
         /\ DOMAIN FetchSource(c) = KeptParts \cap DOMAIN org[c]
         /\ \A p \in DOMAIN FetchSource(c) : FetchSource(c)[p] = org[c][p]
<1> DEFINE f == org[c]
<1>1. /\ f \in Contents(n) /\ DOMAIN f \subseteq Parts /\ Package \notin DOMAIN f
      /\ "main" \in DOMAIN f /\ Shaped(f)
  BY ContentsAreFunctions
<1>2. type \in {"apex", "lwc", "aura"}
  BY ScopeAssumption DEF Types
<1> HIDE DEF f
<1>3. CASE type = "apex"
  <2> DEFINE main == Restrict(f, {"main"})
             pins == Restrict(f, DOMAIN f \cap {"pins"})
  <2>1. FetchSource(c) = Over(main, pins)
    BY <1>3 DEF FetchSource, ApexSource, RenderMetadataXml, f
  <2>2. main \in Contents(n) /\ pins \in Contents(n)
    BY <1>1, RestrictIsContents
  <2>3. /\ DOMAIN main = {"main"} /\ main["main"] = f["main"]
        /\ DOMAIN pins = DOMAIN f \cap {"pins"}
        /\ \A p \in DOMAIN pins : pins[p] = f[p]
    BY RestrictHas
  <2> HIDE DEF main, pins
  <2>4. KeptParts \cap DOMAIN f = {"main"} \cup (DOMAIN f \cap {"pins"})
    BY <1>1, <1>3 DEF KeptParts, Files
  <2>5. /\ DOMAIN Over(main, pins) = DOMAIN main \cup DOMAIN pins
        /\ \A p \in DOMAIN main : Over(main, pins)[p] = main[p]
        /\ \A p \in DOMAIN pins \ DOMAIN main : Over(main, pins)[p] = pins[p]
    BY OverHas
  <2>6. \A p \in DOMAIN Over(main, pins) : Over(main, pins)[p] = f[p]
    BY <2>3, <2>5
  <2> QED BY <2>1, <2>2, <2>3, <2>4, <2>5, <2>6, OverIsContents DEF f
<1>4. CASE type = "lwc"
  <2>1. FetchSource(c) = f
    BY <1>4 DEF FetchSource, LwcBundle, f
  <2> QED BY <1>1, <1>4, <2>1 DEF KeptParts, Parts, f
<1>5. CASE type = "aura"
  <2> DEFINE bundle == Restrict(f, DOMAIN f \cap Files)
  <2>1. FetchSource(c) = Over(bundle, Nothing)
    BY <1>5 DEF FetchSource, AuraBundle, SimpleMetaXml, f
  <2>2. bundle \in Contents(n)
    BY <1>1, RestrictIsContents
  <2>3. DOMAIN bundle = DOMAIN f \cap Files /\ \A p \in DOMAIN bundle : bundle[p] = f[p]
    BY RestrictHas
  <2> HIDE DEF bundle
  <2>4. Over(bundle, Nothing) \in Contents(n)
    BY <2>2, NothingIsContents, OverIsContents
  <2>5. /\ DOMAIN Over(bundle, Nothing) = DOMAIN bundle
        /\ \A p \in DOMAIN bundle : Over(bundle, Nothing)[p] = bundle[p]
    <3>1. DOMAIN Over(bundle, Nothing) = DOMAIN bundle \cup DOMAIN Nothing
      BY OverHas
    <3>2. \A p \in DOMAIN bundle : Over(bundle, Nothing)[p] = bundle[p]
      BY OverHas
    <3> QED BY <3>1, <3>2, NothingIsContents
  <2> QED BY <1>5, <2>1, <2>3, <2>4, <2>5 DEF KeptParts, f
<1> QED BY <1>2, <1>3, <1>4, <1>5

-----------------------------------------------------------------------------
(* Lemmas about steps that leave much alone.                               *)

\* Slots that are busy hold requests, the others None.
LEMMA BusyAre ==
  ASSUME TypeOK, NEW s \in Slots
  PROVE  /\ s \in Busy <=> requests[s] # None
         /\ s \in Busy => requests[s] \in Requests
BY NoneAssumption DEF TypeOK, Busy, Idle

(* A request that does the same work as before, if not alone any more.     *)
SameWork(q, r) ==
  /\ q.kind = r.kind /\ q.c = r.c /\ q.d = r.d /\ q.file = r.file /\ q.content = r.content
  /\ q.alone => r.alone
SameStage(q, r) == q.pc = r.pc /\ q.source = r.source /\ q.refused = r.refused

\* A request that is no longer alone is otherwise the same.
LEMMA NotAloneIsSame ==
  ASSUME NEW r \in Requests
  PROVE  LET q == [r EXCEPT !.alone = FALSE]
         IN  q \in Requests /\ q.alone = FALSE /\ SameWork(q, r) /\ SameStage(q, r)
BY DEF Requests, SameWork, SameStage

(* What is known of a request stays so, if what it touches does.           *)
LEMMA RequestStays ==
  ASSUME EditorInv, NEW t \in Busy, clock' \in Int, clock <= clock', type' = type,
         SameWork(requests'[t], requests[t]), SameStage(requests'[t], requests[t]),
         requests'[t].alone =>
           \A c \in Touches(requests[t]) :
             org'[c] = org[c] /\ copy'[c] = copy[c] /\ (c \in own' => c \in own)
  PROVE  RequestOk(requests[t])'
<1> DEFINE r == requests[t]
<1>1. TypeOK /\ RequestOk(r) /\ clock \in Int
  BY DEF EditorInv, RequestInv, TypeOK
<1>2. StageOk(r)'
  BY <1>1 DEF RequestOk, StageOk, SameWork, SameStage
<1>3. SourceOk(r)'
  <2>1. SourceOk(r) /\ r.content \in Int
    BY <1>1, BusyAre DEF RequestOk, Requests, Busy
  <2>2. r.source \in Contents(clock')
    BY <1>1, <2>1, ContentsGrow DEF SourceOk
  <2> QED BY <1>1, <2>1, <2>2 DEF SourceOk, SameWork, SameStage
<1>4. ASSUME requests'[t].alone PROVE (Fetching(r) /\ Saving(r) /\ Renaming(r) /\ Creating(r))'
  <2>1. /\ org'[r.c] = org[r.c] /\ copy'[r.c] = copy[r.c] /\ org'[r.d] = org[r.d]
        /\ copy'[r.d] = copy[r.d] /\ (r.d \in own' => r.d \in own)
    BY <1>4 DEF Touches
  <2>2. Fetching(r) /\ Saving(r) /\ Renaming(r) /\ Creating(r)
    BY <1>1, <1>4 DEF RequestOk, SameWork
  <2>3. KeptParts' = KeptParts
    BY DEF KeptParts
  <2>4. Fetching(r)'
    BY <2>1, <2>2, <2>3 DEF Fetching, IsFrom, Carries, SameWork, SameStage
  <2>5. Saving(r)'
    BY <2>1, <2>2 DEF Saving, SameWork, SameStage
  <2>6. Renaming(r)'
    BY <2>1, <2>2, <2>3 DEF Renaming, Carries, CarriesFiles, Holds, SameWork, SameStage
  <2>7. Creating(r)'
    BY <2>1, <2>2 DEF Creating, SameWork, SameStage
  <2> QED BY <2>4, <2>5, <2>6, <2>7
<1> QED BY <1>2, <1>3, <1>4 DEF RequestOk

(* A step of the request `s`: it goes on or ends, what it does not touch   *)
(* and the other requests stay.                                            *)
Handled(s) ==
  /\ type' = type /\ clock' = clock /\ selected' = selected
  /\ requests' \in [Slots -> Requests \cup {None}]
  /\ \A t \in Slots \ {s} : requests'[t] = requests[t]
  /\ requests'[s] # None =>
       SameWork(requests'[s], requests[s]) /\ requests'[s].alone = requests[s].alone
  /\ \A c \in Names \ Touches(requests[s]) :
       org'[c] = org[c] /\ copy'[c] = copy[c] /\ (c \in own' => c \in own)

\* A request that is alone touches nothing that another touches.
LEMMA Aside ==
  ASSUME EditorInv, NEW s \in Busy, NEW t \in Busy, s # t, requests[t].alone
  PROVE  Touches(requests[t]) \subseteq Names \ Touches(requests[s])
<1>1. requests[t] \in Requests
  BY BusyAre DEF EditorInv, Busy
<1> QED BY <1>1 DEF EditorInv, AloneInv, Touches, Requests

\* A handler empties at most its own slot.
LEMMA HandledBusy ==
  ASSUME EditorInv, NEW s \in Busy, Handled(s)
  PROVE  /\ Busy' \subseteq Busy /\ Busy \ {s} \subseteq Busy'
         /\ s \in Busy' <=> requests'[s] # None
<1> USE DEF Busy, Idle, Handled
<1> QED OBVIOUS

\* What is known of the requests stays known in a step of one that keeps its
\* own part.
LEMMA OthersStay ==
  ASSUME EditorInv, NEW s \in Busy, Handled(s), s \in Busy' => RequestOk(requests[s])'
  PROVE  AloneInv' /\ RequestInv'
<1>1. clock \in Int /\ clock' = clock /\ type' = type /\ Busy' \subseteq Busy /\ s \in Slots
  BY HandledBusy DEF EditorInv, TypeOK, Handled, Busy
<1>2. \A t \in Busy' : t # s => requests'[t] = requests[t]
  BY DEF Handled, Busy
<1>3. AloneInv'
  <2>1. \A t \in Busy' : /\ Touches(requests[t])' = Touches(requests[t])
                         /\ requests'[t].alone => requests[t].alone
    BY <1>1, <1>2, HandledBusy DEF Handled, Touches, SameWork
  <2> QED BY <1>1, <2>1 DEF EditorInv, AloneInv
<1>4. ASSUME NEW t \in Busy', t # s PROVE RequestOk(requests[t])'
  <2>1. t \in Busy /\ requests'[t] = requests[t]
    BY <1>1, <1>2, <1>4
  <2>2. requests[t].alone =>
          \A c \in Touches(requests[t]) :
            org'[c] = org[c] /\ copy'[c] = copy[c] /\ (c \in own' => c \in own)
    BY <1>4, <2>1, Aside DEF Handled
  <2>3. SameWork(requests'[t], requests[t]) /\ SameStage(requests'[t], requests[t])
    BY <2>1 DEF SameWork, SameStage
  <2> QED BY <1>1, <2>1, <2>2, <2>3, RequestStays
<1>5. RequestInv'
  BY <1>4 DEF RequestInv
<1> QED BY <1>3, <1>5

(* A copy stays as good as it was, unless the step is about it.            *)
LEMMA SyncedStays ==
  ASSUME EditorInv, NEW s \in Busy, Handled(s), NEW c \in synced,
         org'[c] = org[c], copy'[c] = copy[c],
         requests[s].pc = "ship" => requests[s].d # c,
         requests'[s] # None /\ requests'[s].pc = "ship" => requests[s].d # c,
         requests'[s] # None /\ requests'[s].pc = "files" => requests[s].c # c
  PROVE  Synced(c)'
<1>1. Synced(c) /\ s \in Slots
  BY DEF EditorInv, SyncInv, Busy
<1>2. \A t \in Busy' : t \in Busy /\ (t # s => requests'[t] = requests[t])
  BY HandledBusy DEF Handled, Busy
<1>3. Shipping(c)' = Shipping(c)
  <2>1. s \notin Shipping(c)
    BY DEF Shipping
  <2>2. s \notin Shipping(c)'
    BY HandledBusy DEF Shipping, Handled, SameWork
  <2>3. \A t \in Slots \ {s} : t \in Shipping(c) <=> t \in Shipping(c)'
    BY HandledBusy DEF Shipping, Handled, Busy
  <2>4. Shipping(c) \subseteq Slots /\ Shipping(c)' \subseteq Slots
    BY DEF Shipping, Busy
  <2> QED BY <2>1, <2>2, <2>3, <2>4
<1>4. \A t \in Shipping(c) : t # s /\ requests'[t] = requests[t]
  BY DEF Shipping, Handled, Busy
<1>5. \A t \in Busy' : requests'[t].c = c => requests'[t].pc # "files"
  BY <1>1, <1>2, HandledBusy DEF Synced, Handled, SameWork
<1>6. \A p : Agree(copy[c], org[c], p) => Agree(copy[c], org[c], p)'
  BY DEF Agree, KeptParts, Handled
<1> QED BY <1>1, <1>3, <1>4, <1>5, <1>6 DEF Synced

(* What was made here stays listed, also when a list is dropped.           *)
Dropped == \E o \in Orgs : Invalidate(o)
LEMMA ListsStay ==
  ASSUME TypeOK, listed' = listed \/ Dropped
  PROVE  listed' \in [Orgs -> {None} \cup SUBSET Names]
BY DEF TypeOK, Dropped, Invalidate

LEMMA OwnStays ==
  ASSUME EditorInv, own' \subseteq own, listing' = listing,
         listed' = listed \/ Dropped, \A c \in own' : Exists(c)'
  PROVE  OwnInv'
<1>1. \A c \in own' : OrgOf(c) \in Orgs /\ OrgOf(c) \in DOMAIN listed
  BY NamesAre DEF EditorInv, TypeOK
<1>2. \A c \in own' : listed'[OrgOf(c)] = listed[OrgOf(c)] \/ listed'[OrgOf(c)] = None
  BY <1>1 DEF Dropped, Invalidate
<1> QED BY <1>2 DEF EditorInv, OwnInv

-----------------------------------------------------------------------------
(* The initial states.                                                     *)

\* At first nothing is in flight, and a copy is of what the org has.
LEMMA InitEditorInv == Init => EditorInv
<1> SUFFICES ASSUME Init PROVE EditorInv
  OBVIOUS
<1> DEFINE whole == [p \in FirstParts |-> 1]
<1>1. /\ clock = 1 /\ 1 \in 1 .. MaxClock /\ asks \in 0 .. MaxAsks
      /\ type \in Types /\ Present \subseteq Names /\ selected \in Orgs
  BY BoundsAssumption DEF Init, Present, InScope, Names, OrgOf
<1>2. Busy = {} /\ requests \in [Slots -> Requests \cup {None}]
  BY DEF Init, Busy, Idle
<1>3. org = [c \in Names |-> IF c \in Present THEN whole ELSE Nothing]
  BY DEF Init
<1>4. /\ whole \in Contents(1) /\ Package \notin DOMAIN whole /\ "main" \in DOMAIN whole
      /\ Shaped(whole)
  <2>1. CASE type = "apex"
    BY <2>1, ContentsAreFunctions DEF Parts, Files, Package, FirstParts
  <2>2. CASE type # "apex"
    BY <2>2, ContentsAreFunctions DEF Parts, Files, Package, FirstParts
  <2> QED BY <2>1, <2>2
<1> HIDE DEF whole
<1>5. \A c \in Names : /\ org[c] \in Contents(1) /\ Package \notin DOMAIN org[c]
                       /\ Exists(c) => "main" \in DOMAIN org[c]
                       /\ Shaped(org[c])
  BY <1>3, <1>4, NothingIsContents DEF Exists
<1>6. org \in [Names -> Contents(1)] /\ \A c \in Present : "main" \in DOMAIN org[c]
  BY <1>1, <1>3, <1>4, <1>5
<1>7. ASSUME NEW c \in Present
      PROVE  LET fetched == WithPackage(FetchSource(c))
             IN  /\ fetched \in Contents(1) /\ fetched # None /\ Shaped(fetched)
                 /\ Agree(fetched, org[c], Package)
  <2> DEFINE source == FetchSource(c)
             fetched == WithPackage(source)
  <2>1. /\ source \in Contents(1)
        /\ DOMAIN source = KeptParts \cap DOMAIN org[c]
        /\ \A p \in DOMAIN source : source[p] = org[c][p]
    BY <1>1, <1>5, <1>6, FetchedIsKept
  <2> HIDE DEF source
  <2>2. /\ fetched \in Contents(1) /\ DOMAIN fetched = DOMAIN source \cup {Package}
        /\ \A p \in DOMAIN source \ {Package} : fetched[p] = source[p]
    BY <2>1, WithPackageHas
  <2>3. fetched \in Contents(1) /\ fetched # None
    BY <1>1, <2>2, NoneIsApart
  <2>4. Shaped(fetched)
    BY <1>1, <1>5, <2>1, <2>2 DEF Package
  <2> HIDE DEF fetched
  <2>5. Agree(fetched, org[c], Package)
    BY <2>1, <2>2 DEF Agree
  <2> QED BY <2>3, <2>4, <2>5 DEF source, fetched
<1>8. \/ copy = [c \in Names |-> None] /\ synced = {}
      \/ /\ copy = [c \in Names |-> IF c \in Present THEN WithPackage(FetchSource(c)) ELSE None]
         /\ synced = Present
  BY DEF Init
<1>9. \A c \in Names : /\ copy[c] \in Contents(1) \cup {None}
                       /\ copy[c] # None => Shaped(copy[c])
                       /\ c \in synced => copy[c] # None /\ Agree(copy[c], org[c], Package)
  <2>1. CASE copy = [c \in Names |-> None] /\ synced = {}
    BY <2>1
  <2>2. CASE copy # [c \in Names |-> None] \/ synced # {}
    <3>1. \A c \in Names : copy[c] = IF c \in Present THEN WithPackage(FetchSource(c)) ELSE None
      BY <1>8, <2>2
    <3>2. \A c \in synced : c \in Present
      BY <1>8
    <3> QED BY <1>7, <3>1, <3>2
  <2> QED BY <2>1, <2>2
<1>10. copy \in [Names -> Contents(1) \cup {None}] /\ synced \subseteq Names
  BY <1>1, <1>8, <1>9
<1>11. files \in [Labels -> SUBSET Files]
  BY DEF Init, ListComponentFiles
<1>12. /\ listed \in [Orgs -> {None} \cup SUBSET Names]
       /\ listing \in [Orgs -> {None} \cup SUBSET Names]
  BY DEF Init
<1>13. TypeOK
  <2>1. /\ DOMAIN tabs = {}
        /\ tabs \in [{} -> [content : 0 .. clock, original : 0 .. clock, from : Orgs,
                            loading : BOOLEAN, saving : BOOLEAN]]
    BY DEF Init, Nothing
  <2> QED BY <1>1, <1>2, <1>5, <1>6, <1>10, <1>11, <1>12, <2>1 DEF TypeOK, Init
<1>14. ShapeInv
  BY <1>5, <1>9 DEF ShapeInv
<1>15. SyncInv
  BY <1>2, <1>9, <1>10 DEF SyncInv, Synced, Shipping
<1>16. AloneInv /\ RequestInv /\ OwnInv
  BY <1>2 DEF AloneInv, RequestInv, OwnInv, Init
<1> QED BY <1>13, <1>14, <1>15, <1>16 DEF EditorInv

-----------------------------------------------------------------------------
(* Tabs, the list of components and the org.                               *)

\* The tabs and the versions are no part of what is known of requests and
\* copies.
LEMMA WindowKeeps ==
  ASSUME EditorInv, UNCHANGED <<type, serverVars, requests, files, asks>>,
         selected' = selected \/ selected' \in Orgs,
         clock' \in clock .. MaxClock,
         DOMAIN tabs' \subseteq Labels \X Files,
         tabs' \in [DOMAIN tabs' -> [content : 0 .. clock', original : 0 .. clock', from : Orgs,
                                     loading : BOOLEAN, saving : BOOLEAN]]
  PROVE  EditorInv'
<1> USE DEF serverVars
<1>1. /\ TypeOK /\ clock \in Int /\ clock' \in Int /\ clock <= clock'
      /\ clock' \in 1 .. MaxClock /\ Busy' = Busy
  BY BoundsAssumption DEF EditorInv, TypeOK, Busy, Idle
<1>2. Contents(clock) \subseteq Contents(clock')
  BY <1>1, ContentsGrow
<1>3. TypeOK'
  <2>1. org' \in [Names -> Contents(clock')] /\ copy' \in [Names -> Contents(clock') \cup {None}]
    BY <1>1, <1>2 DEF TypeOK
  <2> QED BY <1>1, <2>1 DEF TypeOK
<1>4. RequestInv'
  <2>1. ASSUME NEW t \in Busy PROVE RequestOk(requests[t])'
    BY <1>1, <2>1, RequestStays DEF SameWork, SameStage
  <2> QED BY <1>1, <2>1 DEF RequestInv
<1>5. AloneInv' /\ ShapeInv' /\ OwnInv'
  BY <1>1 DEF EditorInv, AloneInv, Touches, ShapeInv, OwnInv, Exists
<1>6. SyncInv'
  <2>1. \A c \in synced : Shipping(c)' = Shipping(c)
    BY <1>1 DEF Shipping
  <2> QED BY <1>1, <2>1 DEF EditorInv, SyncInv, Synced, Agree, KeptParts
<1> QED BY <1>3, <1>4, <1>5, <1>6 DEF EditorInv

\* A new tab holds nothing yet.
LEMMA OpenFileInv ==
  ASSUME EditorInv, NEW l \in Labels, NEW f \in Files, OpenFile(l, f)
  PROVE  EditorInv'
<1> DEFINE new == Only(<<l, f>>, [content |-> 0, original |-> 0, from |-> selected,
                                  loading |-> TRUE, saving |-> FALSE])
<1>1. TypeOK /\ tabs' = Over(new, tabs) /\ clock \in 1 .. MaxClock /\ clock' = clock
      /\ selected \in Orgs
  BY DEF EditorInv, TypeOK, OpenFile
<1>2. DOMAIN new = {<<l, f>>} /\ new[<<l, f>>] = [content |-> 0, original |-> 0, from |-> selected,
                                                 loading |-> TRUE, saving |-> FALSE]
  BY OnlyHas
<1> HIDE DEF new
<1> DEFINE Tabs == [content : 0 .. clock, original : 0 .. clock, from : Orgs,
                    loading : BOOLEAN, saving : BOOLEAN]
<1>3. DOMAIN tabs' = DOMAIN new \cup DOMAIN tabs
  BY <1>1, OverHas
<1>4. \A t \in DOMAIN tabs' : tabs'[t] \in Tabs
  <2>1. new[<<l, f>>] \in Tabs
    BY <1>1, <1>2
  <2>2. \A t \in DOMAIN tabs : tabs[t] \in Tabs
    BY <1>1 DEF TypeOK
  <2> HIDE DEF Tabs
  <2>3. \A t \in DOMAIN new : tabs'[t] = new[t]
    BY <1>1, OverHas
  <2>4. \A t \in DOMAIN tabs \ DOMAIN new : tabs'[t] = tabs[t]
    <3>1. \A t \in DOMAIN tabs \ DOMAIN new : Over(new, tabs)[t] = tabs[t]
      BY OverHas, Zenon
    <3> QED BY <1>1, <3>1
  <2> QED BY <1>2, <1>3, <2>1, <2>2, <2>3, <2>4
<1>5. DOMAIN tabs' \subseteq Labels \X Files
  BY <1>1, <1>2, <1>3 DEF TypeOK
<1>6. tabs' \in [DOMAIN tabs' -> Tabs]
  <2>1. tabs' = [t \in DOMAIN tabs' |-> tabs'[t]]
    BY <1>1 DEF Over
  <2> HIDE DEF Tabs
  <2> QED BY <1>4, <2>1
<1>7. clock' \in clock .. MaxClock
  BY <1>1
<1> QED BY <1>1, <1>5, <1>6, <1>7, WindowKeeps DEF OpenFile

\* A tab gets a version that the copy has.
LEMMA FileAnswersInv ==
  ASSUME EditorInv, NEW t \in DOMAIN tabs, FileAnswers(t)
  PROVE  EditorInv'
<1> DEFINE c == <<tabs[t].from, t[1]>>
<1>1. TypeOK /\ clock \in 1 .. MaxClock /\ clock' = clock /\ c \in Names
  BY DEF EditorInv, TypeOK, FileAnswers, Names
<1>2. CASE copy[c] # None /\ t[2] \in DOMAIN copy[c]
  <2>1. copy[c][t[2]] \in 0 .. clock
    BY <1>1, <1>2, ContentsAreFunctions DEF TypeOK
  <2>2. /\ DOMAIN tabs' \subseteq Labels \X Files
        /\ tabs' \in [DOMAIN tabs' -> [content : 0 .. clock', original : 0 .. clock', from : Orgs,
                                       loading : BOOLEAN, saving : BOOLEAN]]
    BY <1>1, <1>2, <2>1 DEF FileAnswers, TypeOK
  <2>3. clock' \in clock .. MaxClock
    BY <1>1
  <2> QED BY <2>2, <2>3, WindowKeeps DEF FileAnswers
<1>3. CASE ~(copy[c] # None /\ t[2] \in DOMAIN copy[c])
  <2>1. /\ DOMAIN tabs' \subseteq Labels \X Files
        /\ tabs' \in [DOMAIN tabs' -> [content : 0 .. clock', original : 0 .. clock', from : Orgs,
                                       loading : BOOLEAN, saving : BOOLEAN]]
    BY <1>1, <1>3 DEF FileAnswers, TypeOK, Restrict
  <2>2. clock' \in clock .. MaxClock
    BY <1>1
  <2> QED BY <2>1, <2>2, WindowKeeps DEF FileAnswers
<1> QED BY <1>2, <1>3

\* A tab goes away.
LEMMA CloseTabInv ==
  ASSUME EditorInv, NEW t \in DOMAIN tabs, CloseTab(t)
  PROVE  EditorInv'
<1>1. TypeOK /\ clock \in 1 .. MaxClock /\ clock' = clock
  BY DEF EditorInv, TypeOK, CloseTab
<1>2. /\ DOMAIN tabs' \subseteq Labels \X Files
      /\ tabs' \in [DOMAIN tabs' -> [content : 0 .. clock', original : 0 .. clock', from : Orgs,
                                     loading : BOOLEAN, saving : BOOLEAN]]
  BY <1>1 DEF CloseTab, TypeOK, Restrict
<1>3. clock' \in clock .. MaxClock
  BY <1>1
<1> QED BY <1>2, <1>3, WindowKeeps DEF CloseTab

\* What is typed is a new version.
LEMMA UpdateTabContentInv ==
  ASSUME EditorInv, NEW t \in DOMAIN tabs, UpdateTabContent(t)
  PROVE  EditorInv'
<1>1. TypeOK /\ clock \in 1 .. MaxClock /\ clock' = clock + 1 /\ clock < MaxClock
      /\ MaxClock \in Nat
  BY BoundsAssumption DEF EditorInv, TypeOK, UpdateTabContent
<1>2. /\ DOMAIN tabs' \subseteq Labels \X Files
      /\ tabs' \in [DOMAIN tabs' -> [content : 0 .. clock', original : 0 .. clock', from : Orgs,
                                     loading : BOOLEAN, saving : BOOLEAN]]
  <2>1. 0 .. clock \subseteq 0 .. clock' /\ clock + 1 \in 0 .. clock'
    BY <1>1
  <2> QED BY <1>1, <2>1 DEF UpdateTabContent, TypeOK
<1>3. clock' \in clock .. MaxClock
  BY <1>1
<1> QED BY <1>2, <1>3, WindowKeeps DEF UpdateTabContent

\* Another org is selected.
LEMMA SelectOrgInv == ASSUME EditorInv, NEW o \in Orgs, SelectOrg(o) PROVE EditorInv'
<1>1. /\ clock' \in clock .. MaxClock /\ DOMAIN tabs' \subseteq Labels \X Files
      /\ tabs' \in [DOMAIN tabs' -> [content : 0 .. clock', original : 0 .. clock', from : Orgs,
                                     loading : BOOLEAN, saving : BOOLEAN]]
  BY BoundsAssumption DEF SelectOrg, clientVars, EditorInv, TypeOK
<1> QED BY <1>1, WindowKeeps DEF SelectOrg, clientVars

(* The lists alone.                                                        *)
LEMMA ListKeeps ==
  ASSUME EditorInv, UNCHANGED <<type, selected, org, copy, synced, own, requests, clientVars, clock, asks>>,
         listed' \in [Orgs -> {None} \cup SUBSET Names],
         listing' \in [Orgs -> {None} \cup SUBSET Names],
         \A c \in own : /\ listed'[OrgOf(c)] = None \/ c \in listed'[OrgOf(c)]
                        /\ listing'[OrgOf(c)] = None \/ c \in listing'[OrgOf(c)]
  PROVE  EditorInv'
<1>1. TypeOK' /\ Busy' = Busy /\ clock \in Int
  BY DEF EditorInv, TypeOK, Busy, Idle, clientVars
<1>2. RequestInv'
  <2>1. ASSUME NEW t \in Busy PROVE RequestOk(requests[t])'
    BY <1>1, <2>1, RequestStays DEF SameWork, SameStage
  <2> QED BY <1>1, <2>1 DEF RequestInv
<1>3. AloneInv' /\ ShapeInv' /\ OwnInv'
  BY <1>1 DEF EditorInv, AloneInv, Touches, ShapeInv, OwnInv, Exists
<1>4. SyncInv'
  <2>1. \A c \in synced : Shipping(c)' = Shipping(c)
    BY <1>1 DEF Shipping
  <2> QED BY <1>1, <2>1 DEF EditorInv, SyncInv, Synced, Agree, KeptParts
<1> QED BY <1>1, <1>2, <1>3, <1>4 DEF EditorInv

\* A load of the list reads every component that exists, what was made here
\* included.
LEMMA ListReadsInv == ASSUME EditorInv, NEW o \in Orgs, ListReads(o) PROVE EditorInv'
<1>1. /\ TypeOK /\ listed' = listed /\ listing' = [listing EXCEPT ![o] = ListedNames(o)]
      /\ ListedNames(o) \subseteq Names
  BY DEF EditorInv, ListReads, ListedNames
<1>2. /\ listed' \in [Orgs -> {None} \cup SUBSET Names]
      /\ listing' \in [Orgs -> {None} \cup SUBSET Names]
  BY <1>1 DEF TypeOK
<1>3. ASSUME NEW c \in own
      PROVE  /\ listed'[OrgOf(c)] = None \/ c \in listed'[OrgOf(c)]
             /\ listing'[OrgOf(c)] = None \/ c \in listing'[OrgOf(c)]
  <2>1. /\ Exists(c) /\ c \in Names
        /\ listed[OrgOf(c)] = None \/ c \in listed[OrgOf(c)]
        /\ listing[OrgOf(c)] = None \/ c \in listing[OrgOf(c)]
    BY <1>1 DEF EditorInv, OwnInv, TypeOK
  <2>2. OrgOf(c) = o => c \in ListedNames(o)
    BY <2>1 DEF ListedNames
  <2>3. OrgOf(c) \in Orgs /\ DOMAIN listing = Orgs
    BY <1>1, <2>1, NamesAre DEF TypeOK
  <2> QED BY <1>1, <2>1, <2>2, <2>3
<1> QED BY <1>2, <1>3, ListKeeps DEF ListReads

\* What a load read becomes the list: it has what was made here.
LEMMA ListAnswersInv == ASSUME EditorInv, NEW o \in Orgs, ListAnswers(o) PROVE EditorInv'
<1>1. /\ TypeOK /\ listed' = [listed EXCEPT ![o] = listing[o]]
      /\ listing' = [listing EXCEPT ![o] = None]
  BY DEF EditorInv, ListAnswers
<1>2. /\ listed' \in [Orgs -> {None} \cup SUBSET Names]
      /\ listing' \in [Orgs -> {None} \cup SUBSET Names]
  BY <1>1 DEF TypeOK
<1>3. ASSUME NEW c \in own
      PROVE  /\ listed'[OrgOf(c)] = None \/ c \in listed'[OrgOf(c)]
             /\ listing'[OrgOf(c)] = None \/ c \in listing'[OrgOf(c)]
  <2>1. /\ listed[OrgOf(c)] = None \/ c \in listed[OrgOf(c)]
        /\ listing[OrgOf(c)] = None \/ c \in listing[OrgOf(c)]
    BY DEF EditorInv, OwnInv
  <2>2. OrgOf(c) \in Orgs /\ DOMAIN listing = Orgs /\ DOMAIN listed = Orgs
    BY <1>1, NamesAre DEF TypeOK
  <2> QED BY <1>1, <2>1, <2>2
<1> QED BY <1>2, <1>3, ListKeeps DEF ListAnswers

(* Requests that are disturbed do the same work, no more alone on `names`. *)
LEMMA DisturbedStay ==
  ASSUME TypeOK, NEW names, NEW t \in Slots
  PROVE  /\ Disturb(names) \in [Slots -> Requests \cup {None}]
         /\ Disturb(names)[t] = None <=> requests[t] = None
         /\ t \in Busy =>
              /\ SameWork(Disturb(names)[t], requests[t])
              /\ SameStage(Disturb(names)[t], requests[t])
              /\ Disturb(names)[t].alone => Touches(requests[t]) \cap names = {}
<1> DEFINE D(u) == IF u \in Busy /\ Touches(requests[u]) \cap names # {}
                   THEN [requests[u] EXCEPT !.alone = FALSE] ELSE requests[u]
<1>1. Disturb(names) = [u \in Slots |-> D(u)]
  BY DEF Disturb
<1>2. \A u \in Busy : LET q == [requests[u] EXCEPT !.alone = FALSE]
                      IN  q \in Requests /\ q.alone = FALSE
                          /\ SameWork(q, requests[u]) /\ SameStage(q, requests[u])
  BY BusyAre, NotAloneIsSame DEF Busy
<1>3. \A u \in Slots : /\ D(u) \in Requests \cup {None}
                       /\ D(u) = None <=> requests[u] = None
  BY <1>2, BusyAre, NoneAssumption DEF TypeOK
<1>4. t \in Busy => /\ SameWork(D(t), requests[t]) /\ SameStage(D(t), requests[t])
                    /\ D(t).alone => Touches(requests[t]) \cap names = {}
  BY <1>2 DEF SameWork, SameStage
<1> QED BY <1>1, <1>3, <1>4

\* A change by others ends the aloneness, the synced copy and the own name of
\* its component.
LEMMA OrgChangeInv == ASSUME EditorInv, NEW c \in Names, OrgChange(c) PROVE EditorInv'
<1>1. /\ TypeOK /\ clock \in Nat /\ clock' = clock + 1 /\ clock' \in 1 .. MaxClock /\ clock \in Int
      /\ clock' \in Int /\ clock <= clock' /\ type' = type /\ copy' = copy
      /\ own' = own \ {c} /\ synced' = synced \ {c} /\ listed' = listed /\ listing' = listing
  BY BoundsAssumption DEF EditorInv, TypeOK, OrgChange
<1>2. /\ requests' = Disturb({c}) /\ requests' \in [Slots -> Requests \cup {None}] /\ Busy' = Busy
      /\ \A t \in Busy : /\ SameWork(requests'[t], requests[t])
                         /\ SameStage(requests'[t], requests[t])
                         /\ requests'[t].alone => c \notin Touches(requests[t])
  <2>1. requests' = Disturb({c}) /\ requests \in [Slots -> Requests \cup {None}]
    BY <1>1 DEF OrgChange, TypeOK
  <2>2. requests' \in [Slots -> Requests \cup {None}]
    BY <1>1, <2>1, DisturbedStay DEF Disturb
  <2>3. \A t \in Slots : requests'[t] = None <=> requests[t] = None
    BY <1>1, <2>1, DisturbedStay
  <2>4. Busy' = Busy /\ Busy \subseteq Slots
    BY <2>3 DEF Busy, Idle
  <2>5. \A t \in Busy : /\ SameWork(requests'[t], requests[t])
                        /\ SameStage(requests'[t], requests[t])
                        /\ requests'[t].alone => Touches(requests[t]) \cap {c} = {}
    BY <1>1, <2>1, <2>4, DisturbedStay
  <2> QED BY <2>1, <2>2, <2>4, <2>5
<1> DEFINE f == org[c]
<1>3. /\ f \in Contents(clock) /\ f \in Contents(clock') /\ DOMAIN f \subseteq Parts
      /\ Package \notin DOMAIN f /\ "main" \in DOMAIN f
      /\ Shaped(f)
  BY <1>1, ContentsAreFunctions, ContentsGrow DEF EditorInv, TypeOK, ShapeInv, OrgChange
<1>4. /\ \A d \in Names \ {c} : org'[d] = org[d]
      /\ org' \in [Names -> Contents(clock')]
      /\ Package \notin DOMAIN org'[c]
      /\ DOMAIN org'[c] # {} => "main" \in DOMAIN org'[c]
      /\ Shaped(org'[c])
  <2> DEFINE new == Only("main", clock + 1)
             less == Restrict(f, DOMAIN f \ {"side"})
  <2>1. /\ new \in Contents(clock') /\ DOMAIN new = {"main"}
    BY <1>1, OnlyIsContents, OnlyHas, PartsAre
  <2>2. less \in Contents(clock') /\ DOMAIN less = DOMAIN f \ {"side"}
    BY <1>3, RestrictIsContents, RestrictHas
  <2>3. Over(new, f) \in Contents(clock') /\ DOMAIN Over(new, f) = {"main"} \cup DOMAIN f
    <3>1. DOMAIN Over(new, f) = DOMAIN new \cup DOMAIN f
      BY OverHas
    <3> QED BY <1>3, <2>1, <3>1, OverIsContents
  <2>4. \E g \in {Over(new, f), less, Nothing} : org' = [org EXCEPT ![c] = g]
    BY DEF OrgChange
  <2>5. PICK g \in {Over(new, f), less, Nothing} : org' = [org EXCEPT ![c] = g]
    BY <2>4
  <2> HIDE DEF new, less
  <2>6. /\ g \in Contents(clock') /\ Package \notin DOMAIN g
        /\ DOMAIN g # {} => "main" \in DOMAIN g
        /\ Shaped(g)
    BY <1>3, <2>2, <2>3, NothingIsContents DEF Package
  <2>7. \A d \in Names : org[d] \in Contents(clock')
    BY <1>1, ContentsGrow DEF TypeOK
  <2> HIDE DEF f
  <2>8. org'[c] = g /\ (\A d \in Names \ {c} : org'[d] = org[d]) /\ org' \in [Names -> Contents(clock')]
    BY <1>1, <2>5, <2>6, <2>7 DEF TypeOK
  <2> QED BY <2>6, <2>8
<1>5. TypeOK'
  <2>1. copy' \in [Names -> Contents(clock') \cup {None}]
    BY <1>1, ContentsGrow DEF TypeOK
  <2>2. \A n \in Names : Package \notin DOMAIN org'[n]
    BY <1>1, <1>4 DEF TypeOK
  <2>3. tabs' \in [DOMAIN tabs' -> [content : 0 .. clock', original : 0 .. clock', from : Orgs,
                                    loading : BOOLEAN, saving : BOOLEAN]]
    <3>1. tabs' = tabs /\ 0 .. clock \subseteq 0 .. clock'
      BY <1>1 DEF OrgChange, clientVars
    <3> QED BY <1>1, <3>1 DEF TypeOK
  <2> QED BY <1>1, <1>2, <1>4, <2>1, <2>2, <2>3 DEF TypeOK, OrgChange, clientVars
<1>6. RequestInv'
  <2>1. ASSUME NEW t \in Busy PROVE RequestOk(requests[t])'
    <3>1. Touches(requests[t]) \subseteq Names
      BY <1>1, BusyAre DEF Touches, Requests, Busy
    <3> QED BY <1>1, <1>2, <1>4, <3>1, RequestStays
  <2> QED BY <1>2, <2>1 DEF RequestInv
<1>7. AloneInv'
  <2>1. \A t \in Busy : /\ Touches(requests[t])' = Touches(requests[t])
                        /\ requests'[t].alone => requests[t].alone
    BY <1>2 DEF Touches, SameWork
  <2> QED BY <1>2, <2>1 DEF EditorInv, AloneInv
<1>8. ShapeInv'
  BY <1>1, <1>4 DEF EditorInv, ShapeInv, Exists
<1>9. OwnInv'
  BY <1>1, <1>4 DEF EditorInv, TypeOK, OwnInv, Exists
<1>10. SyncInv'
  <2>1. ASSUME NEW d \in synced, d # c PROVE Synced(d)'
    <3>1. Synced(d) /\ d \in Names
      BY <1>1, <2>1 DEF EditorInv, SyncInv, TypeOK
    <3>2. Shipping(d)' = Shipping(d)
      BY <1>2 DEF Shipping, SameWork, SameStage
    <3>3. \A p : Agree(copy[d], org[d], p) => Agree(copy[d], org[d], p)'
      BY <1>1, <1>4, <2>1, <3>1 DEF Agree, KeptParts
    <3>4. \A t \in Shipping(d) : t \in Busy
      BY DEF Shipping
    <3> QED BY <1>1, <1>2, <3>1, <3>2, <3>3, <3>4 DEF Synced, SameWork, SameStage
  <2> QED BY <1>1, <2>1 DEF SyncInv
<1> QED BY <1>5, <1>6, <1>7, <1>8, <1>9, <1>10 DEF EditorInv

-----------------------------------------------------------------------------
(* The requests of the window.                                             *)

FirstStage(kind, pc) ==
  \/ kind \in {"open", "add"} /\ pc \in {"fetch", "ready"}
  \/ kind = "save" /\ pc = "write"
  \/ kind \in {"create", "rename"} /\ pc = "check"
  \/ kind = "delete" /\ pc = "destroy"

\* A new request shares names only with those that are no longer alone, nor is
\* it then.
LEMMA SendInv ==
  ASSUME EditorInv, NEW s \in Slots, NEW kind, NEW c \in Names, NEW d \in Names,
         NEW f \in Files, NEW content \in 0 .. clock, NEW pc,
         Send(s, kind, c, d, f, content, pc), FirstStage(kind, pc),
         kind = "rename" \/ c = d, OrgOf(c) = OrgOf(d),
         kind = "add" => type # "apex" /\ f = "side",
         DOMAIN tabs' = DOMAIN tabs,
         tabs' \in [DOMAIN tabs' -> [content : 0 .. clock', original : 0 .. clock', from : Orgs,
                                     loading : BOOLEAN, saving : BOOLEAN]]
  PROVE  EditorInv'
<1> DEFINE touched == {t \in Busy : Touches(requests[t]) \cap {c, d} # {}}
           new == [kind |-> kind, c |-> c, d |-> d, file |-> f, content |-> content, pc |-> pc,
                   source |-> Nothing, refused |-> FALSE, alone |-> touched = {}, before |-> own]
<1>1. /\ TypeOK /\ clock \in Int /\ clock' = clock /\ s \in Idle /\ UNCHANGED <<type, selected, org, copy>>
      /\ UNCHANGED <<listed, listing, synced, own, files>> /\ asks' \in 0 .. MaxAsks
      /\ clock \in 1 .. MaxClock /\ MaxClock \in Nat
  BY BoundsAssumption DEF EditorInv, TypeOK, Send, serverVars
<1>2. requests' = [Disturb({c, d}) EXCEPT ![s] = new]
  BY DEF Send
<1>3. new \in Requests /\ SourceOk(new)
  <2>1. Nothing \in Contents(clock) /\ Nothing \in Contents(MaxClock) /\ DOMAIN Nothing = {}
    BY NothingIsContents
  <2>2. content \in 0 .. MaxClock /\ content <= clock
    BY <1>1
  <2>3. own \subseteq Names
    BY <1>1 DEF TypeOK
  <2> QED BY <2>1, <2>2, <2>3 DEF Requests, SourceOk, FirstStage
<1>4. /\ requests'[s] = new /\ requests' \in [Slots -> Requests \cup {None}]
      /\ \A t \in Slots \ {s} : requests'[t] = Disturb({c, d})[t]
  <2>1. Disturb({c, d}) \in [Slots -> Requests \cup {None}]
    BY <1>1, DisturbedStay
  <2> HIDE DEF new
  <2> QED BY <1>2, <1>3, <2>1
<1>5. new.kind = kind /\ new.c = c /\ new.d = d /\ new.file = f /\ new.content = content
      /\ new.pc = pc /\ new.source = Nothing /\ (new.alone <=> touched = {})
  OBVIOUS
<1> HIDE DEF new
<1>6. /\ Busy' = Busy \cup {s} /\ s \notin Busy /\ Busy \subseteq Slots
      /\ \A t \in Busy : /\ SameWork(requests'[t], requests[t])
                         /\ SameStage(requests'[t], requests[t])
                         /\ requests'[t].alone => Touches(requests[t]) \cap {c, d} = {}
  <2>1. \A t \in Slots \ {s} : requests'[t] = None <=> requests[t] = None
    BY <1>1, <1>4, DisturbedStay
  <2>2. Busy' = Busy \cup {s} /\ s \notin Busy /\ Busy \subseteq Slots
    BY <1>1, <1>3, <1>4, <2>1, NoneAssumption DEF Busy, Idle
  <2>3. \A t \in Busy : /\ SameWork(Disturb({c, d})[t], requests[t])
                        /\ SameStage(Disturb({c, d})[t], requests[t])
                        /\ Disturb({c, d})[t].alone => Touches(requests[t]) \cap {c, d} = {}
    BY <1>1, <2>2, DisturbedStay
  <2> QED BY <1>4, <2>2, <2>3
<1>7. TypeOK'
  BY <1>1, <1>4 DEF TypeOK
<1>8. RequestInv'
  <2>1. ASSUME NEW t \in Busy PROVE RequestOk(requests[t])'
    BY <1>1, <1>6, <2>1, RequestStays
  <2>2. RequestOk(requests[s])'
    <3>1. StageOk(requests[s])'
      BY <1>1, <1>4, <1>5 DEF StageOk, FirstStage
    <3>2. SourceOk(requests[s])'
      BY <1>1, <1>3, <1>4 DEF SourceOk
    <3>3. (Fetching(requests[s]) /\ Saving(requests[s]) /\ Renaming(requests[s])
             /\ Creating(requests[s]))'
      BY <1>4, <1>5 DEF Fetching, Saving, Renaming, Creating, FirstStage
    <3> QED BY <3>1, <3>2, <3>3 DEF RequestOk
  <2> QED BY <1>6, <2>1, <2>2 DEF RequestInv
<1>9. AloneInv'
  <2>1. \A t \in Busy : /\ Touches(requests[t])' = Touches(requests[t])
                        /\ requests'[t].alone => requests[t].alone
    BY <1>6 DEF Touches, SameWork
  <2>2. Touches(requests[s])' = {c, d}
    BY <1>4, <1>5 DEF Touches
  <2>3. \A t \in Busy : requests'[s].alone => Touches(requests[t]) \cap {c, d} = {}
    BY <1>4, <1>5
  <2> QED BY <1>6, <2>1, <2>2, <2>3 DEF EditorInv, AloneInv
<1>10. ShapeInv' /\ OwnInv'
  BY <1>1 DEF EditorInv, ShapeInv, OwnInv, Exists
<1>11. SyncInv'
  <2>1. ASSUME NEW n \in synced PROVE Synced(n)'
    <3>1. Synced(n)
      BY <2>1 DEF EditorInv, SyncInv
    <3>2. Shipping(n)' = Shipping(n)
      BY <1>4, <1>5, <1>6 DEF Shipping, SameWork, SameStage, FirstStage
    <3>3. \A p : Agree(copy[n], org[n], p) => Agree(copy[n], org[n], p)'
      BY <1>1 DEF Agree, KeptParts
    <3>4. \A t \in Busy' : requests'[t].c = n => requests'[t].pc # "files"
      BY <1>4, <1>5, <1>6, <3>1 DEF Synced, SameWork, SameStage, FirstStage
    <3>5. \A t \in Shipping(n) : t \in Busy
      BY DEF Shipping
    <3> QED BY <1>1, <1>6, <3>1, <3>2, <3>3, <3>4, <3>5 DEF Synced, SameWork
  <2> QED BY <1>1, <2>1 DEF SyncInv
<1> QED BY <1>7, <1>8, <1>9, <1>10, <1>11 DEF EditorInv

\* Each button and each key of the page sends a request at its first stage.
LEMMA AskInv == ASSUME EditorInv, NEW s \in Slots, Ask(s) PROVE EditorInv'
<1>1. /\ TypeOK /\ clock \in 1 .. MaxClock /\ 0 \in 0 .. clock /\ "main" \in Files /\ "side" \in Files
  BY BoundsAssumption, PartsAre DEF EditorInv, TypeOK
<1> DEFINE Tabs == [content : 0 .. clock, original : 0 .. clock, from : Orgs,
                    loading : BOOLEAN, saving : BOOLEAN]
<1>2. DOMAIN tabs \subseteq Labels \X Files /\ tabs \in [DOMAIN tabs -> Tabs]
      /\ selected \in Orgs
  BY <1>1 DEF TypeOK
<1>3. ASSUME NEW t \in DOMAIN tabs, SaveTab(s, t) PROVE EditorInv'
  <2> DEFINE c == <<selected, t[1]>>
  <2>1. clock' = clock /\ tabs' = [tabs EXCEPT ![t].saving = TRUE]
    BY <1>3 DEF SaveTab, Send
  <2>2. c \in Names /\ t[2] \in Files /\ tabs[t].content \in 0 .. clock
    BY <1>2 DEF Names
  <2>3. DOMAIN tabs' = DOMAIN tabs /\ tabs' \in [DOMAIN tabs' -> Tabs]
    BY <1>2, <2>1
  <2>4. Send(s, "save", c, c, t[2], tabs[t].content, "write")
    BY <1>3 DEF SaveTab
  <2>5. FirstStage("save", "write")
    BY DEF FirstStage
  <2> QED BY <2>1, <2>2, <2>3, <2>4, <2>5, SendInv
<1>4. ASSUME NEW kind, NEW c \in Names, NEW d \in Names, NEW f \in Files, NEW pc,
             Send(s, kind, c, d, f, 0, pc), FirstStage(kind, pc), UNCHANGED tabs,
             kind = "rename" \/ c = d, OrgOf(c) = OrgOf(d),
             kind = "add" => type # "apex" /\ f = "side"
      PROVE  EditorInv'
  <2>1. clock' = clock
    BY <1>4 DEF Send
  <2>2. DOMAIN tabs' = DOMAIN tabs /\ tabs' \in [DOMAIN tabs' -> Tabs]
    BY <1>2, <1>4
  <2> QED BY <1>1, <1>4, <2>1, <2>2, SendInv
<1>5. ASSUME NEW c \in Names, NEW force \in BOOLEAN, Open(s, c, force) PROVE EditorInv'
  <2>1. PICK pc \in {"fetch", "ready"} : Send(s, "open", c, c, "main", 0, pc)
    BY <1>5 DEF Open
  <2> QED BY <1>1, <1>4, <1>5, <2>1 DEF Open, FirstStage
<1>6. ASSUME NEW c \in Names, CreateComponent(s, c) PROVE EditorInv'
  BY <1>1, <1>4, <1>6 DEF CreateComponent, FirstStage
<1>7. ASSUME NEW c \in Names, AddBundleFile(s, c) PROVE EditorInv'
  <2>1. PICK pc \in {"fetch", "ready"} : Send(s, "add", c, c, "side", 0, pc)
    BY <1>7 DEF AddBundleFile
  <2> QED BY <1>1, <1>4, <1>7, <2>1 DEF AddBundleFile, FirstStage
<1>8. ASSUME NEW c \in Names, DeleteComponent(s, c) PROVE EditorInv'
  BY <1>1, <1>4, <1>8 DEF DeleteComponent, FirstStage
<1>9. ASSUME NEW c \in Here, NEW d \in Here, Rename(s, c, d) PROVE EditorInv'
  BY <1>1, <1>4, <1>9 DEF Rename, FirstStage, Here, InScope
<1> QED BY <1>3, <1>5, <1>6, <1>7, <1>8, <1>9 DEF Ask, Here, InScope

-----------------------------------------------------------------------------
(* The handlers.                                                           *)

TabsOk ==
  /\ DOMAIN tabs \subseteq Labels \X Files
  /\ tabs \in [DOMAIN tabs -> [content : 0 .. clock, original : 0 .. clock, from : Orgs,
                              loading : BOOLEAN, saving : BOOLEAN]]
FilesOk == files \in [Labels -> SUBSET Files]

Stages ==
  {"check", "skeleton", "fetch", "wipe", "files", "retrieve", "ready",
   "write", "ship", "done", "destroy", "remove"}

(* A request that goes on, or ends.                                        *)
LEMMA GoesIs ==
  ASSUME TypeOK, NEW s \in Busy, NEW pc \in Stages, Goes(s, pc)
  PROVE  LET q == requests'[s]
         IN  /\ requests' \in [Slots -> Requests \cup {None}]
             /\ \A t \in Slots \ {s} : requests'[t] = requests[t]
             /\ q # None /\ q.pc = pc /\ SameWork(q, requests[s])
             /\ q.source = requests[s].source /\ q.alone = requests[s].alone
             /\ q.refused = requests[s].refused
<1>1. s \in Slots /\ requests[s] \in Requests /\ requests \in [Slots -> Requests \cup {None}]
  BY BusyAre DEF Busy, TypeOK
<1> DEFINE q == [requests[s] EXCEPT !.pc = pc]
<1>2. /\ q \in Requests /\ q.pc = pc /\ SameWork(q, requests[s])
      /\ q.source = requests[s].source /\ q.alone = requests[s].alone
      /\ q.refused = requests[s].refused
  BY <1>1 DEF Requests, Stages, SameWork
<1>3. requests' = [requests EXCEPT ![s] = q]
  BY DEF Goes
<1> HIDE DEF q
<1> QED BY <1>1, <1>2, <1>3, NoneAssumption

\* A request that ends frees its slot and no other.
LEMMA EndsIs ==
  ASSUME TypeOK, NEW s \in Busy, Ends(s)
  PROVE  /\ requests' \in [Slots -> Requests \cup {None}] /\ requests'[s] = None
         /\ \A t \in Slots \ {s} : requests'[t] = requests[t]
BY DEF Ends, TypeOK, Busy

\* The end of a save keeps the tabs well formed.
LEMMA AfterSaveIs ==
  ASSUME TypeOK, clock' = clock, NEW r \in Requests, NEW ok \in BOOLEAN, tabs' = AfterSave(r, ok)
  PROVE  TabsOk'
<1> DEFINE t == <<Label(r.c), r.file>>
           Tabs == [content : 0 .. clock, original : 0 .. clock, from : Orgs,
                    loading : BOOLEAN, saving : BOOLEAN]
<1>1. DOMAIN tabs \subseteq Labels \X Files /\ tabs \in [DOMAIN tabs -> Tabs]
  BY DEF TypeOK
<1>2. CASE t \notin DOMAIN tabs
  BY <1>1, <1>2 DEF AfterSave, TabsOk
<1>3. CASE t \in DOMAIN tabs
  <2>1. tabs' = [tabs EXCEPT ![t].saving = FALSE,
                             ![t].original = IF ok THEN tabs[t].content ELSE @]
    BY <1>3 DEF AfterSave
  <2> HIDE DEF t
  <2> DEFINE v == IF ok THEN tabs[t].content ELSE tabs[t].original
  <2>2. tabs[t] \in Tabs /\ v \in 0 .. clock
    BY <1>1, <1>3
  <2>3. tabs' = [tabs EXCEPT ![t] = [tabs[t] EXCEPT !.saving = FALSE, !.original = v]]
    BY <1>1, <1>3, <2>1
  <2> HIDE DEF v
  <2>4. [tabs[t] EXCEPT !.saving = FALSE, !.original = v] \in Tabs
    BY <2>2
  <2> HIDE DEF Tabs
  <2>5. DOMAIN tabs' \subseteq Labels \X Files /\ tabs' \in [DOMAIN tabs' -> Tabs]
    BY <1>1, <1>3, <2>3, <2>4
  <2> QED BY <2>5 DEF TabsOk, Tabs
<1> QED BY <1>2, <1>3

\* A request that fails frees its slot and keeps the tabs well formed.
LEMMA FailsIs ==
  ASSUME TypeOK, clock' = clock, NEW s \in Busy, Fails(s)
  PROVE  /\ requests' \in [Slots -> Requests \cup {None}] /\ requests'[s] = None
         /\ \A t \in Slots \ {s} : requests'[t] = requests[t]
         /\ TabsOk' /\ FilesOk'
<1>1. Ends(s) /\ files' = files /\ requests[s] \in Requests
  BY BusyAre DEF Fails, Busy
<1>2. TabsOk'
  <2>1. CASE requests[s].kind = "save"
    BY <1>1, <2>1, AfterSaveIs DEF Fails
  <2>2. CASE requests[s].kind # "save"
    BY <2>2 DEF Fails, TypeOK, TabsOk
  <2> QED BY <2>1, <2>2
<1> QED BY <1>1, <1>2, EndsIs DEF FilesOk, TypeOK

(* A step of a request keeps the invariant if it keeps its own part.       *)
LEMMA HandledInv ==
  ASSUME EditorInv, NEW s \in Busy, Handled(s), TypeOK', ShapeInv', OwnInv', SyncInv',
         requests'[s] # None => RequestOk(requests[s])'
  PROVE  EditorInv'
<1>1. AloneInv' /\ RequestInv'
  BY HandledBusy, OthersStay
<1> QED BY <1>1 DEF EditorInv

(* A step that leaves the org and the copies alone.                        *)
LEMMA QuietInv ==
  ASSUME EditorInv, NEW s \in Busy, Handled(s), UNCHANGED <<org, copy, listing, asks>>,
         OwnInv', own' \subseteq Names, listed' = listed \/ Dropped,
         synced' \subseteq synced, TabsOk', FilesOk', requests[s].pc # "ship",
         requests'[s] # None =>
           requests'[s].pc \notin {"ship", "files"} /\ RequestOk(requests[s])'
  PROVE  EditorInv'
<1>1. TypeOK'
  BY ListsStay DEF EditorInv, TypeOK, Handled, TabsOk, FilesOk
<1>2. ShapeInv'
  BY DEF EditorInv, ShapeInv, Exists, Handled
<1>3. SyncInv'
  <2>1. ASSUME NEW c \in synced PROVE Synced(c)'
    BY SyncedStays
  <2> QED BY <2>1 DEF SyncInv
<1> QED BY <1>1, <1>2, <1>3, HandledInv

(* A step that changes one copy.                                           *)
LEMMA CopyInv ==
  ASSUME EditorInv, NEW s \in Busy, Handled(s), UNCHANGED <<org, listing, asks>>,
         OwnInv', own' \subseteq Names, listed' = listed \/ Dropped,
         NEW c \in Names, NEW new \in Contents(clock) \cup {None}, copy' = [copy EXCEPT ![c] = new],
         new # None => Shaped(new),
         synced' \subseteq Names, SyncInv', TabsOk', FilesOk',
         requests'[s] # None => RequestOk(requests[s])'
  PROVE  EditorInv'
<1>1. TypeOK'
  <2>1. copy' \in [Names -> Contents(clock') \cup {None}]
    BY DEF EditorInv, TypeOK, Handled
  <2> QED BY <2>1, ListsStay DEF EditorInv, TypeOK, Handled, TabsOk, FilesOk
<1>2. ShapeInv'
  <2>1. copy'[c] = new /\ \A d \in Names \ {c} : copy'[d] = copy[d]
    BY DEF EditorInv, TypeOK
  <2> QED BY <2>1 DEF EditorInv, ShapeInv, Exists, Handled
<1> QED BY <1>1, <1>2, HandledInv

(* A step that changes one component of the org.                           *)
LEMMA OrgInv ==
  ASSUME EditorInv, NEW s \in Busy, Handled(s), UNCHANGED <<copy, listed, listing, asks>>,
         OwnInv', own' \subseteq Names,
         NEW c \in Names, NEW new \in Contents(clock), org' = [org EXCEPT ![c] = new],
         Package \notin DOMAIN new, new # Nothing => "main" \in DOMAIN new,
         Shaped(new),
         synced' \subseteq Names, SyncInv', TabsOk', FilesOk',
         requests'[s] # None => RequestOk(requests[s])'
  PROVE  EditorInv'
<1>1. org'[c] = new /\ \A d \in Names \ {c} : org'[d] = org[d]
  BY DEF EditorInv, TypeOK
<1>2. TypeOK'
  <2>1. org' \in [Names -> Contents(clock')] /\ \A n \in Names : Package \notin DOMAIN org'[n]
    BY <1>1 DEF EditorInv, TypeOK, Handled
  <2> QED BY <2>1 DEF EditorInv, TypeOK, Handled, TabsOk, FilesOk
<1>3. ShapeInv'
  BY <1>1, NothingIsContents DEF EditorInv, ShapeInv, Exists, Handled
<1> QED BY <1>2, <1>3, HandledInv

(* What every handler starts from.                                         *)
LEMMA Handling ==
  ASSUME EditorInv, NEW s \in Slots, NEW pc, At(s, pc)
  PROVE  /\ s \in Busy /\ TypeOK /\ clock \in 1 .. MaxClock /\ clock \in Nat /\ own \subseteq Names
         /\ requests[s] \in Requests /\ requests[s].pc = pc /\ RequestOk(requests[s])
         /\ requests[s].c \in Names /\ requests[s].d \in Names /\ requests[s].file \in Files
         /\ Touches(requests[s]) = {requests[s].c, requests[s].d}
         /\ copy[requests[s].c] \in Contents(clock) \cup {None}
         /\ copy[requests[s].d] \in Contents(clock) \cup {None}
         /\ OnDisk(requests[s].c) \in Contents(clock) /\ OnDisk(requests[s].d) \in Contents(clock)
<1>1. /\ s \in Busy /\ TypeOK /\ clock \in 1 .. MaxClock /\ own \subseteq Names
      /\ requests[s].pc = pc /\ RequestOk(requests[s])
  BY DEF At, EditorInv, TypeOK, RequestInv
<1>2. requests[s] \in Requests
  BY <1>1, BusyAre
<1>3. requests[s].c \in Names /\ requests[s].d \in Names /\ requests[s].file \in Files
  BY <1>2 DEF Requests
<1>4. \A c \in Names : copy[c] \in Contents(clock) \cup {None} /\ OnDisk(c) \in Contents(clock)
  BY <1>1, NothingIsContents DEF TypeOK, OnDisk
<1> QED BY <1>1, <1>2, <1>3, <1>4 DEF Touches

\* What was made here stays listed while the org and the load in flight do not
\* change.
LEMMA OwnQuiet ==
  ASSUME EditorInv, own' \subseteq own, UNCHANGED <<org, listing>>,
         listed' = listed \/ Dropped
  PROVE  OwnInv'
<1>1. \A c \in own' : Exists(c)'
  BY DEF EditorInv, OwnInv, Exists
<1> QED BY <1>1, OwnStays

\* A name that is not in the list was not made here, so a request that goes on
\* spares it.
LEMMA CheckExistsInv == ASSUME EditorInv, NEW s \in Slots, CheckExists(s) PROVE EditorInv'
<1> DEFINE r == requests[s]
<1>1. /\ At(s, "check") /\ UNCHANGED <<type, selected, org, copy, listed, listing, synced, own, clock, asks>>
  BY DEF CheckExists, serverVars
<1>2. /\ s \in Busy /\ TypeOK /\ own \subseteq Names /\ r.pc = "check" /\ RequestOk(r)
      /\ OwnInv' /\ FilesOk /\ TabsOk
  BY <1>1, Handling, OwnQuiet DEF TabsOk, FilesOk, TypeOK
<1>3. CASE Fails(s)
  BY <1>1, <1>2, <1>3, FailsIs, QuietInv DEF Handled
<1>4. CASE r.d \notin listed[OrgOf(r.d)] /\ Goes(s, IF r.kind = "create" THEN "skeleton" ELSE "fetch")
           /\ UNCHANGED clientVars
  <2> DEFINE pc == IF r.kind = "create" THEN "skeleton" ELSE "fetch"
             q == requests'[s]
  <2>1. /\ requests' \in [Slots -> Requests \cup {None}]
        /\ \A t \in Slots \ {s} : requests'[t] = requests[t]
        /\ q.pc = pc /\ SameWork(q, r) /\ q.source = r.source /\ q.alone = r.alone
    BY <1>2, <1>4, GoesIs DEF Stages
  <2>2. r.d \notin own
    BY <1>1, <1>4 DEF EditorInv, OwnInv, CheckExists
  <2>3. StageOk(r)'
    BY <1>1, <1>2, <2>1 DEF RequestOk, StageOk, SameWork
  <2>4. SourceOk(r)'
    BY <1>1, <1>2, <2>1 DEF RequestOk, SourceOk, SameWork
  <2>5. (Fetching(r) /\ Saving(r) /\ Renaming(r) /\ Creating(r))'
    BY <1>1, <1>2, <2>1, <2>2, <2>3
       DEF Fetching, Saving, Renaming, Creating, SameWork, StageOk
  <2>6. RequestOk(r)'
    BY <2>3, <2>4, <2>5 DEF RequestOk
  <2>7. TabsOk' /\ FilesOk'
    BY <1>1, <1>2, <1>4 DEF TabsOk, FilesOk, clientVars
  <2> QED BY <1>1, <1>2, <2>1, <2>6, <2>7, QuietInv DEF Handled
<1> QED BY <1>3, <1>4 DEF CheckExists

\* What is fetched is what the org has of the parts that are kept.
LEMMA FetchAnswersInv == ASSUME EditorInv, NEW s \in Slots, FetchAnswers(s) PROVE EditorInv'
<1> DEFINE r == requests[s]
           q == requests'[s]
<1>1. /\ At(s, "fetch") /\ UNCHANGED <<type, selected, org, copy, listed, listing, synced, own, clock, asks>>
  BY DEF FetchAnswers, serverVars
<1>2. /\ s \in Busy /\ TypeOK /\ own \subseteq Names /\ r.pc = "fetch" /\ RequestOk(r)
      /\ OwnInv' /\ FilesOk /\ TabsOk /\ r \in Requests /\ r.c \in Names /\ clock \in 1 .. MaxClock
      /\ requests \in [Slots -> Requests \cup {None}]
  BY <1>1, Handling, OwnQuiet DEF TabsOk, FilesOk, TypeOK
<1>3. CASE Fails(s)
  BY <1>1, <1>2, <1>3, FailsIs, QuietInv DEF Handled
<1>4. CASE Goes(s, "retrieve") /\ UNCHANGED clientVars
  <2>1. /\ requests' \in [Slots -> Requests \cup {None}]
        /\ \A t \in Slots \ {s} : requests'[t] = requests[t]
        /\ q.pc = "retrieve" /\ SameWork(q, r) /\ q.source = r.source /\ q.alone = r.alone
    BY <1>2, <1>4, GoesIs DEF Stages
  <2>2. StageOk(r)' /\ SourceOk(r)'
    BY <1>1, <1>2, <2>1 DEF RequestOk, StageOk, SourceOk, SameWork
  <2>3. r.alone => (Fetching(r) /\ Saving(r) /\ Renaming(r) /\ Creating(r))'
    BY <1>1, <1>2, <2>1
       DEF RequestOk, Fetching, Saving, Renaming, Creating, SameWork
  <2>4. RequestOk(r)'
    BY <2>1, <2>2, <2>3 DEF RequestOk
  <2>5. TabsOk' /\ FilesOk'
    BY <1>1, <1>2, <1>4 DEF TabsOk, FilesOk, clientVars
  <2> QED BY <1>1, <1>2, <2>1, <2>4, <2>5, QuietInv DEF Handled
<1>5. CASE /\ Exists(r.c) /\ UNCHANGED clientVars
           /\ requests' = [requests EXCEPT ![s] = [r EXCEPT !.pc = "wipe",
                                                            !.source = FetchSource(r.c)]]
  <2> DEFINE source == FetchSource(r.c)
             new == [r EXCEPT !.pc = "wipe", !.source = source]
  <2>1. /\ source \in Contents(clock)
        /\ DOMAIN source = KeptParts \cap DOMAIN org[r.c]
        /\ \A p \in DOMAIN source : source[p] = org[r.c][p]
        /\ Package \notin DOMAIN source /\ Shaped(source)
    <3>1. /\ type \in Types /\ org[r.c] \in Contents(clock) /\ Package \notin DOMAIN org[r.c]
          /\ "main" \in DOMAIN org[r.c] /\ Shaped(org[r.c])
      BY <1>2, <1>5 DEF EditorInv, ShapeInv, TypeOK
    <3>2. /\ source \in Contents(clock)
          /\ DOMAIN source = KeptParts \cap DOMAIN org[r.c]
          /\ \A p \in DOMAIN source : source[p] = org[r.c][p]
      BY <3>1, FetchedIsKept
    <3> HIDE DEF source
    <3> QED BY <3>1, <3>2
  <2>2. source \in Contents(MaxClock)
    BY <1>2, <2>1, NoneIsApart
  <2> HIDE DEF source
  <2>3. /\ new \in Requests /\ new.pc = "wipe" /\ new.source = source
        /\ SameWork(new, r) /\ new.alone = r.alone
    BY <1>2, <2>2 DEF Requests, SameWork
  <2>4. requests' = [requests EXCEPT ![s] = new]
    BY <1>5 DEF source
  <2> HIDE DEF new
  <2>5. /\ requests' \in [Slots -> Requests \cup {None}] /\ q = new
        /\ \A t \in Slots \ {s} : requests'[t] = requests[t]
    BY <1>2, <2>3, <2>4
  <2>6. StageOk(r)' /\ SourceOk(r)'
    BY <1>1, <1>2, <2>1, <2>3, <2>5 DEF RequestOk, StageOk, SourceOk, SameWork
  <2>7. Fetching(r)'
    BY <1>1, <2>1, <2>3, <2>5 DEF Fetching, IsFrom, Carries, KeptParts, SameWork
  <2>8. r.alone => (Saving(r) /\ Renaming(r) /\ Creating(r))'
    BY <1>1, <1>2, <2>3, <2>5 DEF RequestOk, Saving, Renaming, Creating, SameWork
  <2>9. RequestOk(r)'
    BY <2>3, <2>5, <2>6, <2>7, <2>8 DEF RequestOk
  <2>10. TabsOk' /\ FilesOk'
    BY <1>1, <1>2, <1>5 DEF TabsOk, FilesOk, clientVars
  <2> QED BY <1>1, <1>2, <2>3, <2>5, <2>9, <2>10, QuietInv DEF Handled
<1> QED BY <1>3, <1>4, <1>5 DEF FetchAnswers

\* An open only shows the files of the copy.
LEMMA OpenAnswersInv == ASSUME EditorInv, NEW s \in Slots, OpenAnswers(s) PROVE EditorInv'
<1> DEFINE r == requests[s]
<1>1. /\ At(s, "ready") /\ UNCHANGED <<type, selected, org, copy, listed, listing, synced, own, clock, asks>>
  BY DEF OpenAnswers, serverVars
<1>2. /\ s \in Busy /\ TypeOK /\ own \subseteq Names /\ r.pc = "ready"
      /\ OwnInv' /\ FilesOk /\ TabsOk
  BY <1>1, Handling, OwnQuiet DEF TabsOk, FilesOk, TypeOK
<1>3. CASE Fails(s)
  BY <1>1, <1>2, <1>3, FailsIs, QuietInv DEF Handled
<1>4. CASE /\ Ends(s) /\ UNCHANGED tabs
           /\ files' = [files EXCEPT ![Label(r.c)] = ListComponentFiles(copy[r.c])]
  <2>1. TabsOk' /\ FilesOk'
    BY <1>1, <1>2, <1>4 DEF TabsOk, FilesOk, ListComponentFiles
  <2> QED BY <1>1, <1>2, <1>4, <2>1, EndsIs, QuietInv DEF Handled
<1> QED BY <1>3, <1>4 DEF OpenAnswers

(* Only the empty contents are Nothing.                                    *)
LEMMA EmptyIsNothing ==
  ASSUME NEW n, NEW f \in Contents(n), f # Nothing
  PROVE  DOMAIN f # {}
<1>1. f = [p \in DOMAIN f |-> f[p]]
  BY ContentsAreFunctions
<1> QED BY <1>1 DEF Nothing

\* An empty copy and what was fetched make up what the org has.
LEMMA WipeInv == ASSUME EditorInv, NEW s \in Slots, Wipe(s) PROVE EditorInv'
<1> DEFINE r == requests[s]
           q == requests'[s]
<1>1. /\ At(s, "wipe") /\ Goes(s, "files") /\ copy' = [copy EXCEPT ![r.c] = Nothing]
      /\ synced' = synced \ {r.c} /\ UNCHANGED <<type, selected, org, listed, listing, own, clock, asks>>
      /\ UNCHANGED <<files, tabs>>
  BY DEF Wipe, clientVars
<1>2. /\ s \in Busy /\ TypeOK /\ own \subseteq Names /\ synced \subseteq Names /\ r.pc = "wipe"
      /\ RequestOk(r) /\ OwnInv' /\ FilesOk' /\ TabsOk' /\ r.c \in Names
      /\ Touches(r) = {r.c, r.d} /\ clock \in 1 .. MaxClock
      /\ requests' \in [Slots -> Requests \cup {None}]
      /\ \A t \in Slots \ {s} : requests'[t] = requests[t]
      /\ q # None /\ q.pc = "files" /\ SameWork(q, r) /\ q.source = r.source /\ q.alone = r.alone
  BY <1>1, Handling, OwnQuiet, GoesIs DEF TabsOk, FilesOk, TypeOK, Stages
<1>3. Nothing \in Contents(clock) /\ DOMAIN Nothing = {} /\ Nothing # None
  BY <1>2, NothingIsContents, NoneIsApart
<1>4. copy'[r.c] = Nothing /\ \A c \in Names \ {r.c} : copy'[c] = copy[c]
  BY <1>1, <1>2 DEF TypeOK
<1>5. Handled(s)
  BY <1>1, <1>2, <1>4 DEF Handled
<1>6. SyncInv'
  <2>1. ASSUME NEW n \in synced, n # r.c PROVE Synced(n)'
    BY <1>1, <1>2, <1>4, <1>5, <2>1, SyncedStays
  <2> QED BY <1>1, <2>1 DEF SyncInv
<1>7. StageOk(r)' /\ SourceOk(r)'
  BY <1>1, <1>2 DEF RequestOk, StageOk, SourceOk, SameWork
<1>8. r.alone => Fetching(r)'
  BY <1>1, <1>2, <1>3, <1>4 DEF RequestOk, Fetching, IsFrom, Carries, KeptParts, SameWork
<1>9. r.alone => (Saving(r) /\ Renaming(r) /\ Creating(r))'
  BY <1>1, <1>2 DEF RequestOk, Saving, Renaming, Creating, SameWork
<1>10. RequestOk(r)'
  BY <1>2, <1>7, <1>8, <1>9 DEF RequestOk
<1> HIDE DEF q
<1> QED BY <1>1, <1>2, <1>3, <1>5, <1>6, <1>10, CopyInv

\* A file moves from what is to be written into the copy.
LEMMA WriteFileInv == ASSUME EditorInv, NEW s \in Slots, WriteFile(s) PROVE EditorInv'
<1> DEFINE r == requests[s]
           q == requests'[s]
           p == CHOOSE x \in DOMAIN r.source : TRUE
           new == Over(Only(p, r.source[p]), OnDisk(r.c))
           rest == Restrict(r.source, DOMAIN r.source \ {p})
<1>1. /\ At(s, "files") /\ r.source # Nothing
      /\ copy' = [copy EXCEPT ![r.c] = new]
      /\ requests' = [requests EXCEPT ![s].source = rest]
      /\ UNCHANGED <<type, selected, org, listed, listing, synced, own, clock, asks, files, tabs>>
  BY DEF WriteFile, clientVars
<1>2. /\ s \in Busy /\ TypeOK /\ own \subseteq Names /\ synced \subseteq Names /\ r.pc = "files"
      /\ RequestOk(r) /\ OwnInv' /\ FilesOk' /\ TabsOk' /\ r.c \in Names /\ r \in Requests
      /\ Touches(r) = {r.c, r.d} /\ clock \in 1 .. MaxClock
      /\ OnDisk(r.c) \in Contents(clock) /\ copy[r.c] \in Contents(clock) \cup {None}
      /\ requests \in [Slots -> Requests \cup {None}]
  BY <1>1, Handling, OwnQuiet DEF TabsOk, FilesOk, TypeOK
<1>3. /\ r.source \in Contents(clock) /\ Package \notin DOMAIN r.source
      /\ Shaped(r.source)
  BY <1>2 DEF RequestOk, SourceOk
<1>4. p \in DOMAIN r.source /\ p \in Parts /\ r.source[p] \in 0 .. clock
  <2>1. DOMAIN r.source # {}
    BY <1>1, <1>3, EmptyIsNothing
  <2> QED BY <1>3, <2>1, ContentsAreFunctions
<1> HIDE DEF p
<1>5. /\ new \in Contents(clock) /\ DOMAIN new = {p} \cup DOMAIN OnDisk(r.c)
      /\ new[p] = r.source[p]
      /\ \A x \in DOMAIN OnDisk(r.c) \ {p} : new[x] = OnDisk(r.c)[x]
  <2> DEFINE one == Only(p, r.source[p])
  <2>1. one \in Contents(clock) /\ DOMAIN one = {p} /\ one[p] = r.source[p]
    BY <1>4, OnlyIsContents, OnlyHas
  <2> HIDE DEF one
  <2>2. Over(one, OnDisk(r.c)) \in Contents(clock)
    BY <1>2, <2>1, OverIsContents
  <2>3. /\ DOMAIN Over(one, OnDisk(r.c)) = DOMAIN one \cup DOMAIN OnDisk(r.c)
        /\ \A x \in DOMAIN one : Over(one, OnDisk(r.c))[x] = one[x]
        /\ \A x \in DOMAIN OnDisk(r.c) \ DOMAIN one : Over(one, OnDisk(r.c))[x] = OnDisk(r.c)[x]
    BY OverHas
  <2> QED BY <2>1, <2>2, <2>3 DEF one
<1>6. /\ rest \in Contents(clock) /\ rest \in Contents(MaxClock)
      /\ DOMAIN rest = DOMAIN r.source \ {p} /\ \A x \in DOMAIN rest : rest[x] = r.source[x]
  <2>1. rest \in Contents(clock)
    BY <1>3, RestrictIsContents
  <2> QED BY <1>2, <2>1, NoneIsApart, RestrictHas
<1> HIDE DEF new, rest
<1>7. /\ requests' \in [Slots -> Requests \cup {None}]
      /\ \A t \in Slots \ {s} : requests'[t] = requests[t]
      /\ q # None /\ q.pc = "files" /\ SameWork(q, r) /\ q.source = rest /\ q.alone = r.alone
  <2> DEFINE next == [r EXCEPT !.source = rest]
  <2>1. /\ next \in Requests /\ next.pc = "files" /\ SameWork(next, r) /\ next.source = rest
        /\ next.alone = r.alone
    BY <1>2, <1>6 DEF Requests, SameWork
  <2>2. requests' = [requests EXCEPT ![s] = next]
    BY <1>1
  <2> HIDE DEF next
  <2> QED BY <1>2, <2>1, <2>2, NoneAssumption
<1>8. copy'[r.c] = new /\ \A c \in Names \ {r.c} : copy'[c] = copy[c]
  BY <1>1, <1>2 DEF TypeOK
<1>9. Handled(s)
  BY <1>1, <1>2, <1>7, <1>8 DEF Handled
<1>10. SyncInv'
  <2>1. r.c \notin synced
    BY <1>2 DEF EditorInv, SyncInv, Synced
  <2>2. ASSUME NEW n \in synced PROVE Synced(n)'
    BY <1>1, <1>2, <1>7, <1>8, <1>9, <2>1, <2>2, SyncedStays
  <2> QED BY <1>1, <2>2 DEF SyncInv
<1>11. StageOk(r)' /\ SourceOk(r)'
  BY <1>1, <1>2, <1>3, <1>6, <1>7 DEF RequestOk, StageOk, SourceOk, SameWork
<1>12. r.alone => Fetching(r)'
  <2> SUFFICES ASSUME r.alone PROVE Fetching(r)'
    OBVIOUS
  <2>1. /\ copy[r.c] # None /\ OnDisk(r.c) = copy[r.c]
        /\ IsFrom(r.source, org[r.c]) /\ IsFrom(copy[r.c], org[r.c])
        /\ KeptParts \cap DOMAIN org[r.c] \subseteq DOMAIN copy[r.c] \cup DOMAIN r.source
    BY <1>2 DEF RequestOk, Fetching, OnDisk
  <2>2. IsFrom(rest, org[r.c]) /\ IsFrom(new, org[r.c])
    BY <1>4, <1>5, <1>6, <2>1 DEF IsFrom
  <2>3. KeptParts \cap DOMAIN org[r.c] \subseteq DOMAIN new \cup DOMAIN rest
    BY <1>5, <1>6, <2>1
  <2>4. new # None
    BY <1>2, <1>5, NoneIsApart
  <2> QED BY <1>1, <1>7, <1>8, <2>2, <2>3, <2>4 DEF Fetching, IsFrom, KeptParts, SameWork
<1>13. r.alone => (Saving(r) /\ Renaming(r) /\ Creating(r))'
  BY <1>1, <1>2, <1>7 DEF RequestOk, Saving, Renaming, Creating, SameWork
<1>14. RequestOk(r)'
  BY <1>7, <1>11, <1>12, <1>13 DEF RequestOk
<1>15. new # None => Shaped(new)
  BY <1>2, <1>3, <1>4, <1>5 DEF EditorInv, ShapeInv, OnDisk, Nothing
<1> HIDE DEF q
<1> QED BY <1>1, <1>2, <1>5, <1>9, <1>10, <1>14, <1>15, CopyInv

\* With every file written the copy has what the org has, so it is synced if
\* it was alone.
LEMMA WritePackageInv == ASSUME EditorInv, NEW s \in Slots, WritePackage(s) PROVE EditorInv'
<1> DEFINE r == requests[s]
           q == requests'[s]
           new == WithPackage(OnDisk(r.c))
<1>1. /\ At(s, "files") /\ r.source = Nothing /\ Goes(s, "ready")
      /\ copy' = [copy EXCEPT ![r.c] = new]
      /\ synced' = IF r.alone THEN synced \cup {r.c} ELSE synced
      /\ UNCHANGED <<type, selected, org, listed, listing, own, clock, asks, files, tabs>>
  BY DEF WritePackage, clientVars
<1>2. /\ s \in Busy /\ TypeOK /\ own \subseteq Names /\ synced \subseteq Names /\ r.pc = "files"
      /\ RequestOk(r) /\ OwnInv' /\ FilesOk' /\ TabsOk' /\ r.c \in Names
      /\ Touches(r) = {r.c, r.d} /\ clock \in 1 .. MaxClock /\ clock \in Nat
      /\ OnDisk(r.c) \in Contents(clock) /\ copy[r.c] \in Contents(clock) \cup {None}
      /\ requests' \in [Slots -> Requests \cup {None}]
      /\ \A t \in Slots \ {s} : requests'[t] = requests[t]
      /\ q # None /\ q.pc = "ready" /\ SameWork(q, r) /\ q.source = r.source /\ q.alone = r.alone
  BY <1>1, Handling, OwnQuiet, GoesIs DEF TabsOk, FilesOk, TypeOK, Stages
<1>3. /\ new \in Contents(clock) /\ DOMAIN new = DOMAIN OnDisk(r.c) \cup {Package}
      /\ \A x \in DOMAIN OnDisk(r.c) \ {Package} : new[x] = OnDisk(r.c)[x]
  BY <1>2, WithPackageHas
<1> HIDE DEF new
<1>4. new # None
  BY <1>2, <1>3, NoneIsApart
<1>5. copy'[r.c] = new /\ \A c \in Names \ {r.c} : copy'[c] = copy[c]
  BY <1>1, <1>2 DEF TypeOK
<1>6. Handled(s)
  BY <1>1, <1>2, <1>5 DEF Handled
<1>7. r.alone => /\ OnDisk(r.c) = copy[r.c] /\ IsFrom(copy[r.c], org[r.c])
                 /\ KeptParts \cap DOMAIN org[r.c] \subseteq DOMAIN copy[r.c]
  <2>1. DOMAIN r.source = {}
    BY <1>1, NothingIsContents
  <2> QED BY <1>2, <2>1 DEF RequestOk, Fetching, OnDisk
<1>8. r.alone => Agree(new, org[r.c], Package) /\ Carries(new, org[r.c])
  BY <1>3, <1>7, PartsAre DEF IsFrom, Agree, Carries
<1>9. SyncInv'
  <2>1. r.c \notin synced
    BY <1>2 DEF EditorInv, SyncInv, Synced
  <2>2. ASSUME NEW n \in synced PROVE Synced(n)'
    BY <1>1, <1>2, <1>5, <1>6, <2>1, <2>2, SyncedStays
  <2>3. ASSUME r.alone, NEW c \in Names, c = r.c PROVE Synced(c)'
    <3>1. \A t \in Busy' : t # s => t \in Busy /\ requests'[t] = requests[t]
                                    /\ requests[t].c # c /\ requests[t].d # c
      <4> SUFFICES ASSUME NEW t \in Busy', t # s
                   PROVE  t \in Busy /\ requests'[t] = requests[t]
                          /\ requests[t].c # c /\ requests[t].d # c
        OBVIOUS
      <4>1. t \in Busy /\ requests'[t] = requests[t]
        BY <1>2, <1>6, HandledBusy DEF Busy
      <4>2. Touches(r) \cap Touches(requests[t]) = {}
        BY <1>2, <2>3, <4>1 DEF EditorInv, AloneInv
      <4> QED BY <2>3, <4>1, <4>2 DEF Touches
    <3>2. Shipping(c)' = {} /\ \A t \in Busy' : requests'[t].c = c => requests'[t].pc # "files"
      BY <1>2, <3>1 DEF Shipping
    <3>3. Agree(copy[c], org[c], Package)'
      BY <1>1, <1>5, <1>8, <2>3 DEF Agree, KeptParts
    <3> QED BY <1>4, <1>5, <2>3, <3>2, <3>3 DEF Synced
  <2> QED BY <1>1, <1>2, <2>2, <2>3 DEF SyncInv
<1>10. StageOk(r)' /\ SourceOk(r)'
  BY <1>1, <1>2 DEF RequestOk, StageOk, SourceOk, SameWork
<1>11. r.alone => (Fetching(r) /\ Saving(r) /\ Creating(r))'
  BY <1>1, <1>2 DEF RequestOk, Fetching, Saving, Creating, SameWork
<1>12. r.alone => Renaming(r)'
  BY <1>1, <1>2, <1>4, <1>5, <1>8 DEF Renaming, Carries, KeptParts, SameWork
<1>13. RequestOk(r)'
  BY <1>2, <1>10, <1>11, <1>12 DEF RequestOk
<1>14. Shaped(new)
  BY <1>2, <1>3 DEF EditorInv, ShapeInv, OnDisk, Nothing, Package
<1>15. synced' \subseteq Names
  BY <1>1, <1>2
<1> HIDE DEF q
<1> QED BY <1>1, <1>2, <1>3, <1>6, <1>9, <1>13, <1>14, <1>15, CopyInv

\* A copy that was retrieved over an older one has at least what the org has;
\* it is not synced.
LEMMA RetrieveAnswersInv == ASSUME EditorInv, NEW s \in Slots, RetrieveAnswers(s) PROVE EditorInv'
<1> DEFINE r == requests[s]
           q == requests'[s]
           package == WithPackage(org[r.c])
           new == Over(package, OnDisk(r.c))
<1>1. /\ At(s, "retrieve") /\ UNCHANGED <<type, selected, org, listed, listing, own, clock, asks>>
  BY DEF RetrieveAnswers
<1>2. /\ s \in Busy /\ TypeOK /\ own \subseteq Names /\ synced \subseteq Names /\ r.pc = "retrieve"
      /\ RequestOk(r) /\ OwnInv' /\ FilesOk /\ TabsOk /\ r.c \in Names
      /\ Touches(r) = {r.c, r.d} /\ clock \in 1 .. MaxClock /\ clock \in Nat
      /\ OnDisk(r.c) \in Contents(clock) /\ copy[r.c] \in Contents(clock) \cup {None}
  BY <1>1, Handling DEF TabsOk, FilesOk, TypeOK, EditorInv, OwnInv, Exists
<1>3. CASE Fails(s) /\ UNCHANGED <<copy, synced>>
  BY <1>1, <1>2, <1>3, FailsIs, QuietInv DEF Handled
<1>4. CASE /\ Exists(r.c) /\ copy' = [copy EXCEPT ![r.c] = new] /\ synced' = synced \ {r.c}
           /\ Goes(s, "ready") /\ UNCHANGED clientVars
  <2>1. /\ requests' \in [Slots -> Requests \cup {None}]
        /\ \A t \in Slots \ {s} : requests'[t] = requests[t]
        /\ q # None /\ q.pc = "ready" /\ SameWork(q, r) /\ q.source = r.source /\ q.alone = r.alone
    BY <1>2, <1>4, GoesIs DEF Stages
  <2>2. org[r.c] \in Contents(clock) /\ Package \notin DOMAIN org[r.c]
        /\ Shaped(org[r.c])
    BY <1>2 DEF TypeOK, EditorInv, ShapeInv
  <2>3. /\ package \in Contents(clock) /\ DOMAIN package = DOMAIN org[r.c] \cup {Package}
        /\ \A p \in DOMAIN org[r.c] \ {Package} : package[p] = org[r.c][p]
    BY <1>2, <2>2, WithPackageHas
  <2> HIDE DEF package
  <2>4. /\ new \in Contents(clock) /\ DOMAIN new = DOMAIN package \cup DOMAIN OnDisk(r.c)
        /\ \A p \in DOMAIN package : new[p] = package[p]
    BY <1>2, <2>3, OverHas, OverIsContents
  <2> HIDE DEF new
  <2>5. new # None /\ Carries(new, org[r.c])
    BY <1>2, <2>2, <2>3, <2>4, NoneIsApart DEF Carries
  <2>6. Shaped(new)
    BY <1>2, <2>2, <2>3, <2>4 DEF EditorInv, ShapeInv, OnDisk, Nothing, Package
  <2>7. copy'[r.c] = new /\ \A c \in Names \ {r.c} : copy'[c] = copy[c]
    BY <1>2, <1>4 DEF TypeOK
  <2>8. Handled(s)
    BY <1>1, <1>2, <2>1, <2>7 DEF Handled
  <2>9. SyncInv'
    <3>1. ASSUME NEW n \in synced, n # r.c PROVE Synced(n)'
      BY <1>1, <1>2, <2>1, <2>7, <2>8, <3>1, SyncedStays
    <3> QED BY <1>4, <3>1 DEF SyncInv
  <2>10. StageOk(r)' /\ SourceOk(r)'
    BY <1>1, <1>2, <2>1 DEF RequestOk, StageOk, SourceOk, SameWork
  <2>11. r.alone => (Fetching(r) /\ Saving(r) /\ Creating(r))'
    BY <1>1, <1>2, <2>1 DEF RequestOk, Fetching, Saving, Creating, SameWork
  <2>12. Renaming(r)'
    BY <1>1, <2>1, <2>5, <2>7 DEF Renaming, Carries, KeptParts, SameWork
  <2>13. RequestOk(r)'
    BY <2>1, <2>10, <2>11, <2>12 DEF RequestOk
  <2>14. synced' \subseteq Names /\ TabsOk' /\ FilesOk'
    BY <1>1, <1>2, <1>4 DEF TabsOk, FilesOk, clientVars
  <2> HIDE DEF q
  <2> QED BY <1>1, <1>2, <1>4, <2>4, <2>6, <2>8, <2>9, <2>13, <2>14, CopyInv
<1> QED BY <1>3, <1>4 DEF RetrieveAnswers

(* A route that writes what it is to deploy. What it writes of a copy that *)
(* has what the org has is its own file.                                   *)
LEMMA WritesInv ==
  ASSUME EditorInv, NEW s \in Slots, NEW pc \in {"write", "skeleton", "ready"}, At(s, pc),
         NEW new \in Contents(clock), Writes(s, requests[s].d, new),
         requests[s].kind # "open",
         requests[s].kind \in {"save", "add"} => DOMAIN new = {requests[s].file},
         requests[s].kind = "save" => new[requests[s].file] = requests[s].content,
         requests[s].kind = "rename" /\ requests[s].alone => CarriesFiles(new, org[requests[s].c]),
         Shaped(new)
  PROVE  EditorInv'
<1> DEFINE r == requests[s]
           q == requests'[s]
           over == Over(new, OnDisk(r.d))
<1>1. /\ copy' = [copy EXCEPT ![r.d] = over] /\ Goes(s, "ship")
      /\ UNCHANGED <<type, selected, org, listed, listing, synced, own, clock, asks, files, tabs>>
  BY DEF Writes, clientVars
<1>2. /\ s \in Busy /\ TypeOK /\ own \subseteq Names /\ synced \subseteq Names /\ r.pc = pc
      /\ RequestOk(r) /\ OwnInv' /\ FilesOk' /\ TabsOk' /\ r.c \in Names /\ r.d \in Names
      /\ Touches(r) = {r.c, r.d} /\ clock \in 1 .. MaxClock /\ r.file \in Files
      /\ OnDisk(r.d) \in Contents(clock) /\ copy[r.d] \in Contents(clock) \cup {None}
      /\ requests' \in [Slots -> Requests \cup {None}]
      /\ \A t \in Slots \ {s} : requests'[t] = requests[t]
      /\ q # None /\ q.pc = "ship" /\ SameWork(q, r) /\ q.source = r.source /\ q.alone = r.alone
  BY <1>1, Handling, OwnQuiet, GoesIs DEF TabsOk, FilesOk, TypeOK, Stages
<1>3. /\ over \in Contents(clock) /\ DOMAIN over = DOMAIN new \cup DOMAIN OnDisk(r.d)
      /\ \A p \in DOMAIN new : over[p] = new[p]
      /\ \A p \in DOMAIN OnDisk(r.d) \ DOMAIN new : over[p] = OnDisk(r.d)[p]
  <2>1. over \in Contents(clock)
    BY <1>2, OverIsContents
  <2>2. /\ DOMAIN over = DOMAIN new \cup DOMAIN OnDisk(r.d)
        /\ \A p \in DOMAIN new : over[p] = new[p]
        /\ \A p \in DOMAIN OnDisk(r.d) \ DOMAIN new : over[p] = OnDisk(r.d)[p]
    BY OverHas
  <2> QED BY <2>1, <2>2
<1> HIDE DEF over
<1>4. over # None /\ Shaped(over)
  BY <1>2, <1>3, NoneIsApart DEF EditorInv, ShapeInv, OnDisk, Nothing
<1>5. copy'[r.d] = over /\ \A c \in Names \ {r.d} : copy'[c] = copy[c]
  BY <1>1, <1>2 DEF TypeOK
<1>6. Handled(s)
  BY <1>1, <1>2, <1>5 DEF Handled
<1>7. SyncInv'
  <2>1. ASSUME NEW n \in synced, n # r.d PROVE Synced(n)'
    BY <1>1, <1>2, <1>5, <1>6, <2>1, SyncedStays
  <2>2. ASSUME NEW d \in synced, d = r.d PROVE Synced(d)'
    <3>1. Synced(d) /\ copy[d] # None /\ OnDisk(d) = copy[d]
      BY <2>2 DEF EditorInv, SyncInv, Synced, OnDisk
    <3>2. \A t \in Busy' : t # s => t \in Busy /\ requests'[t] = requests[t]
      BY <1>2, <1>6, HandledBusy DEF Busy
    <3>3. \A t \in Busy' : requests'[t].c = d => requests'[t].pc # "files"
      BY <1>2, <3>1, <3>2 DEF Synced
    <3>4. s \in Shipping(d)'
      BY <1>2, <1>6, <2>2, HandledBusy DEF Shipping, SameWork
    <3>5. ASSUME NEW t \in Shipping(d)', requests'[t].alone, requests'[t].kind \in {"save", "add"}
          PROVE  Agree(copy[d], org[d], requests[t].file)'
      <4>1. t = s
        <5> SUFFICES ASSUME t # s PROVE FALSE
          OBVIOUS
        <5>1. t \in Busy /\ requests[t].alone /\ requests[t].d = d
          BY <3>2, <3>5 DEF Shipping
        <5>2. Touches(requests[t]) \cap Touches(r) = {}
          BY <1>2, <5>1 DEF EditorInv, AloneInv
        <5> QED BY <2>2, <5>1, <5>2 DEF Touches
      <4>2. r.alone /\ r.kind \in {"save", "add"} /\ q.file = r.file
        BY <1>2, <3>5, <4>1 DEF SameWork
      <4>3. Shipping(d) = {}
        <5> SUFFICES ASSUME NEW u \in Shipping(d) PROVE FALSE
          OBVIOUS
        <5>1. u \in Busy /\ requests[u].d = d /\ requests[u].pc = "ship"
          BY DEF Shipping
        <5>2. u # s
          BY <1>2, <5>1
        <5>3. Touches(r) \cap Touches(requests[u]) = {}
          BY <1>2, <4>2, <5>1, <5>2 DEF EditorInv, AloneInv
        <5> QED BY <2>2, <5>1, <5>3 DEF Touches
      <4>4. Agree(copy[d], org[d], Package)
        BY <3>1, <4>3 DEF Synced
      <4>5. Agree(over, org[d], r.file)
        BY <1>3, <2>2, <3>1, <4>2, <4>4, PartsAre DEF Agree
      <4> QED BY <1>1, <1>5, <2>2, <4>1, <4>2, <4>5 DEF Agree, KeptParts
    <3> QED BY <1>4, <1>5, <2>2, <3>3, <3>4, <3>5 DEF Synced
  <2> QED BY <1>1, <2>1, <2>2 DEF SyncInv
<1>8. StageOk(r)' /\ SourceOk(r)'
  BY <1>1, <1>2 DEF RequestOk, StageOk, SourceOk, SameWork
<1>9. r.alone => (Fetching(r) /\ Creating(r))'
  BY <1>1, <1>2 DEF RequestOk, Fetching, Creating, SameWork
<1>10. Saving(r)'
  <2> SUFFICES ASSUME r.kind = "save" PROVE Saving(r)'
    BY <1>2 DEF Saving, SameWork
  <2>1. r.c = r.d
    BY <1>2 DEF RequestOk, StageOk
  <2> QED BY <1>2, <1>3, <1>4, <1>5, <2>1 DEF Saving, Holds, SameWork
<1>11. r.alone => Renaming(r)'
  <2> SUFFICES ASSUME r.kind = "rename", r.alone PROVE Renaming(r)'
    BY <1>2 DEF Renaming, SameWork
  <2>1. CarriesFiles(over, org[r.c])
    BY <1>3 DEF CarriesFiles
  <2> QED BY <1>1, <1>2, <1>4, <1>5, <2>1 DEF Renaming, CarriesFiles, KeptParts, SameWork
<1>12. RequestOk(r)'
  BY <1>2, <1>8, <1>9, <1>10, <1>11 DEF RequestOk
<1>13. synced' \subseteq Names
  BY <1>1, <1>2
<1> HIDE DEF q
<1> QED BY <1>1, <1>2, <1>3, <1>4, <1>6, <1>7, <1>12, <1>13, CopyInv

(* A route that finds that it has nothing to write.                        *)
LEMMA FailingInv ==
  ASSUME EditorInv, NEW s \in Slots, NEW pc, pc # "ship", At(s, pc), Fails(s),
         UNCHANGED <<type, selected, serverVars, clock, asks>>
  PROVE  EditorInv'
<1>1. /\ s \in Busy /\ TypeOK /\ own \subseteq Names /\ requests[s].pc = pc /\ OwnInv'
      /\ UNCHANGED <<type, selected, org, copy, listed, listing, synced, own, clock, asks>>
  BY Handling, OwnQuiet DEF serverVars
<1> QED BY <1>1, FailsIs, QuietInv DEF Handled

\* A save puts its content into the copy, which differs from the org by that
\* file then.
LEMMA WriteContentInv == ASSUME EditorInv, NEW s \in Slots, WriteContent(s) PROVE EditorInv'
<1> DEFINE r == requests[s]
           new == Only(r.file, r.content)
<1>1. At(s, "write")
  BY DEF WriteContent
<1>2. /\ r.kind = "save" /\ r.c = r.d /\ r.file \in Files /\ r.content \in 0 .. clock
      /\ r.c \in Names /\ r.pc = "write"
  <2>1. RequestOk(r) /\ r.pc = "write" /\ r \in Requests /\ clock \in Nat /\ r.c \in Names
    BY <1>1, Handling
  <2>2. r.content \in 0 .. clock
    BY <2>1 DEF RequestOk, SourceOk, Requests
  <2> QED BY <2>1, <2>2 DEF RequestOk, StageOk, Requests
<1>3. CASE Fails(s) /\ UNCHANGED <<type, selected, serverVars, clock, asks>>
  BY <1>1, <1>3, FailingInv
<1>4. CASE copy[r.c] # None /\ r.file \in DOMAIN copy[r.c] /\ Writes(s, r.c, new)
  <2>1. new \in Contents(clock) /\ DOMAIN new = {r.file} /\ new[r.file] = r.content
    BY <1>2, OnlyIsContents, OnlyHas, PartsAre
  <2>2. Shaped(new)
    BY <1>2, <1>4, <2>1 DEF EditorInv, ShapeInv
  <2> HIDE DEF new
  <2> QED BY <1>1, <1>2, <1>4, <2>1, <2>2, WritesInv
<1> QED BY <1>3, <1>4 DEF WriteContent

\* A creation writes the files of a new component.
LEMMA WriteSkeletonInv == ASSUME EditorInv, NEW s \in Slots, WriteSkeleton(s) PROVE EditorInv'
<1> DEFINE r == requests[s]
           new == WithPackage(Only("main", 0))
<1>1. At(s, "skeleton") /\ Writes(s, r.c, new)
  BY DEF WriteSkeleton
<1>2. r.kind = "create" /\ r.c = r.d /\ clock \in Nat
  BY <1>1, Handling DEF RequestOk, StageOk
<1>3. new \in Contents(clock) /\ "side" \notin DOMAIN new /\ "extra" \notin DOMAIN new
  <2>1. 0 \in 0 .. clock
    BY <1>2
  <2> DEFINE main == Only("main", 0)
  <2>2. main \in Contents(clock) /\ DOMAIN main = {"main"}
    BY <2>1, OnlyIsContents, OnlyHas, PartsAre
  <2> HIDE DEF main
  <2>3. WithPackage(main) \in Contents(clock)
        /\ DOMAIN WithPackage(main) = DOMAIN main \cup {Package}
    BY <1>2, <2>2, WithPackageHas
  <2> QED BY <2>2, <2>3 DEF Package, main
<1> HIDE DEF new
<1> QED BY <1>1, <1>2, <1>3, WritesInv

\* An added file is the one by which the copy then differs from the org.
LEMMA AddFileInv == ASSUME EditorInv, NEW s \in Slots, AddFile(s) PROVE EditorInv'
<1> DEFINE r == requests[s]
           new == Only("side", 0)
<1>1. At(s, "ready") /\ r.kind = "add"
  BY DEF AddFile
<1>2. r.c = r.d /\ clock \in Nat /\ r.file = "side" /\ type # "apex"
  BY <1>1, Handling DEF RequestOk, StageOk
<1>3. CASE Fails(s) /\ UNCHANGED <<type, selected, serverVars, clock, asks>>
  BY <1>1, <1>3, FailingInv
<1>4. CASE Writes(s, r.c, new)
  <2>1. 0 \in 0 .. clock
    BY <1>2
  <2>2. new \in Contents(clock) /\ DOMAIN new = {"side"}
    BY <2>1, OnlyIsContents, OnlyHas, PartsAre
  <2> HIDE DEF new
  <2> QED BY <1>1, <1>2, <1>4, <2>2, WritesInv
<1> QED BY <1>3, <1>4 DEF AddFile

\* The new copy has the plain files and the settings of the old one, which are
\* what the org has.
LEMMA CopyRenamedInv == ASSUME EditorInv, NEW s \in Slots, CopyRenamed(s) PROVE EditorInv'
<1> DEFINE r == requests[s]
           plain == PlainFiles(copy[r.c])
           new == WithPackage(plain)
<1>1. At(s, "ready") /\ r.kind = "rename"
  BY DEF CopyRenamed
<1>2. /\ RequestOk(r) /\ clock \in Nat /\ r.c \in Names /\ r.pc = "ready"
      /\ copy[r.c] \in Contents(clock) \cup {None}
  BY <1>1, Handling
<1>3. CASE Fails(s) /\ UNCHANGED <<type, selected, serverVars, clock, asks>>
  BY <1>1, <1>3, FailingInv
<1>4. CASE copy[r.c] # None /\ Writes(s, r.d, new)
  <2>1. /\ plain \in Contents(clock) /\ DOMAIN plain \subseteq DOMAIN copy[r.c]
        /\ DOMAIN copy[r.c] \ {"extra"} \subseteq DOMAIN plain
        /\ \A p \in DOMAIN plain : plain[p] = copy[r.c][p]
    BY <1>2, <1>4, RestrictIsContents, RestrictHas DEF PlainFiles
  <2> HIDE DEF plain
  <2>2. /\ new \in Contents(clock) /\ DOMAIN new = DOMAIN plain \cup {Package}
        /\ \A p \in DOMAIN plain \ {Package} : new[p] = plain[p]
    BY <1>2, <2>1, WithPackageHas
  <2>3. Shaped(new)
    BY <1>2, <1>4, <2>1, <2>2 DEF EditorInv, ShapeInv, Package
  <2> HIDE DEF new
  <2>4. r.alone => CarriesFiles(new, org[r.c])
    BY <1>1, <1>2, <2>1, <2>2, PartsAre DEF RequestOk, Renaming, Carries, CarriesFiles
  <2> QED BY <1>1, <1>4, <2>2, <2>3, <2>4, WritesInv
<1> QED BY <1>3, <1>4 DEF CopyRenamed

\* A deployment that was refused leaves the org as it was, and the copy is not
\* synced.
LEMMA RefusedInv ==
  ASSUME EditorInv, NEW s \in Slots, At(s, "ship"), Handled(s),
         UNCHANGED <<org, own, copy, listed, listing, asks>>, TabsOk', FilesOk',
         requests'[s] # None => requests'[s].pc \notin {"ship", "files"} /\ RequestOk(requests[s])',
         synced' \subseteq synced \ {requests[s].d}
  PROVE  EditorInv'
<1>1. /\ s \in Busy /\ TypeOK /\ own \subseteq Names /\ synced \subseteq Names
      /\ requests[s].pc = "ship"
  BY Handling DEF TypeOK
<1>2. OwnInv'
  BY OwnQuiet
<1>3. SyncInv'
  BY <1>1, SyncedStays DEF SyncInv
<1>4. TypeOK' /\ ShapeInv'
  BY <1>1 DEF TypeOK, EditorInv, ShapeInv, Exists, Handled, TabsOk, FilesOk
<1> QED BY <1>1, <1>2, <1>3, <1>4, HandledInv

\* A deployment that was taken makes the org have what the copy has.
LEMMA ShipInv ==
  ASSUME EditorInv, NEW s \in Slots, At(s, "ship"), Handled(s),
         UNCHANGED <<copy, listed, listing, asks>>, TabsOk', FilesOk',
         requests'[s] # None => requests'[s].pc \notin {"ship", "files"},
         requests'[s] # None => RequestOk(requests[s])',
         Deployable(copy[requests[s].d]),
         org' = [org EXCEPT ![requests[s].d] = Deployed(copy[requests[s].d])],
         own' = own \ {requests[s].d},
         \A n \in synced' : n # requests[s].d => n \in synced,
         requests[s].d \in synced' => requests[s].alone
  PROVE  EditorInv'
<1> DEFINE r == requests[s]
           new == Deployed(copy[r.d])
<1>1. /\ s \in Busy /\ TypeOK /\ own \subseteq Names /\ synced \subseteq Names /\ r.pc = "ship"
      /\ r.c \in Names /\ r.d \in Names /\ Touches(r) = {r.c, r.d}
      /\ copy[r.d] \in Contents(clock) \cup {None} /\ type' = type
  BY Handling DEF TypeOK, Handled
<1>2. \A n \in synced \ {r.d} : org'[n] = org[n] => Synced(n)'
  BY <1>1, SyncedStays
<1>3. /\ copy[r.d] # None /\ copy[r.d] \in Contents(clock)
      /\ new \in Contents(clock) /\ DOMAIN new = DOMAIN copy[r.d] \ {Package}
      /\ "main" \in DOMAIN new /\ \A p \in DOMAIN new : new[p] = copy[r.d][p]
  BY <1>1, RestrictIsContents, RestrictHas DEF Deployable, Deployed, Package
<1>4. Shaped(new)
  BY <1>1, <1>3 DEF EditorInv, ShapeInv
<1>5. org' = [org EXCEPT ![r.d] = new]
  OBVIOUS
<1> HIDE DEF new
<1>6. org'[r.d] = new /\ \A n \in Names \ {r.d} : org'[n] = org[n]
  BY <1>1, <1>5 DEF TypeOK
<1>7. OwnInv'
  <2>1. \A n \in own' : Exists(n)'
    BY <1>1, <1>6 DEF EditorInv, OwnInv, Exists
  <2> QED BY <2>1, OwnStays
<1>8. ASSUME NEW d \in synced', d = r.d PROVE Synced(d)'
  <2>1. r.alone
    BY <1>8
  <2>2. \A t \in Busy' : t # s => t \in Busy /\ requests'[t] = requests[t]
                                  /\ requests[t].c # d /\ requests[t].d # d
    <3> SUFFICES ASSUME NEW t \in Busy', t # s
                 PROVE  t \in Busy /\ requests'[t] = requests[t]
                        /\ requests[t].c # d /\ requests[t].d # d
      OBVIOUS
    <3>1. t \in Busy /\ requests'[t] = requests[t]
      BY <1>1, HandledBusy DEF Handled, Busy
    <3>2. Touches(r) \cap Touches(requests[t]) = {}
      BY <1>1, <2>1, <3>1 DEF EditorInv, AloneInv
    <3> QED BY <1>8, <3>1, <3>2 DEF Touches
  <2>3. Shipping(d)' = {} /\ \A t \in Busy' : requests'[t].c = d => requests'[t].pc # "files"
    BY <1>1, <2>2, HandledBusy DEF Shipping
  <2>4. Agree(copy[d], org[d], Package)'
    BY <1>3, <1>6, <1>8, PartsAre DEF Agree, KeptParts
  <2> QED BY <1>3, <1>8, <2>3, <2>4 DEF Synced
<1>9. SyncInv'
  BY <1>1, <1>2, <1>6, <1>8 DEF SyncInv
<1>10. synced' \subseteq Names /\ own' \subseteq Names
  BY <1>1
<1> QED BY <1>1, <1>3, <1>4, <1>7, <1>9, <1>10, <1>5, OrgInv

\* A deployment ends a request, or moves it on once the org has taken the
\* copy.
LEMMA DeployKeeps == ASSUME EditorInv, NEW s \in Slots, Deploy(s) PROVE EditorInv'
<1> DEFINE r == requests[s]
           q == requests'[s]
           taken == /\ Deployable(copy[r.d])
                    /\ org' = [org EXCEPT ![r.d] = Deployed(copy[r.d])]
                    /\ own' = own \ {r.d}
<1>1. At(s, "ship") /\ UNCHANGED <<type, selected, copy, listed, listing, clock, asks>>
  BY DEF Deploy
<1>2. /\ s \in Busy /\ TypeOK /\ own \subseteq Names /\ synced \subseteq Names /\ r.pc = "ship"
      /\ RequestOk(r) /\ FilesOk /\ TabsOk /\ r.c \in Names /\ r.d \in Names /\ r.file \in Files
      /\ Touches(r) = {r.c, r.d} /\ copy[r.d] \in Contents(clock) \cup {None}
  BY <1>1, Handling DEF TabsOk, FilesOk, TypeOK
<1>3. taken \/ UNCHANGED <<org, own>> =>
        \A c \in Names \ Touches(r) : org'[c] = org[c] /\ copy'[c] = copy[c] /\ (c \in own' => c \in own)
  BY <1>1, <1>2 DEF TypeOK
<1>4. CASE Fails(s) /\ synced' = synced \ {r.d} /\ (taken \/ UNCHANGED <<org, own>>)
  <2>1. /\ requests' \in [Slots -> Requests \cup {None}] /\ q = None
        /\ \A t \in Slots \ {s} : requests'[t] = requests[t]
        /\ TabsOk' /\ FilesOk'
    BY <1>1, <1>2, <1>4, FailsIs
  <2>2. Handled(s)
    BY <1>1, <1>2, <1>3, <1>4, <2>1 DEF Handled
  <2>3. CASE taken
    <3>1. \A n \in synced' : n # r.d /\ n \in synced
      BY <1>4
    <3> HIDE DEF r
    <3> QED BY <1>1, <2>1, <2>2, <2>3, <3>1, ShipInv DEF r
  <2>4. CASE UNCHANGED <<org, own>>
    BY <1>1, <1>4, <2>1, <2>2, <2>4, RefusedInv
  <2> QED BY <1>4, <2>3, <2>4
<1>5. CASE /\ taken /\ Goes(s, IF r.kind = "rename" THEN "destroy" ELSE "done")
           /\ synced' = IF r.alone THEN synced \cup {r.d} ELSE synced \ {r.d}
           /\ UNCHANGED clientVars
  <2> DEFINE pc == IF r.kind = "rename" THEN "destroy" ELSE "done"
             new == Deployed(copy[r.d])
  <2>1. /\ requests' \in [Slots -> Requests \cup {None}]
        /\ \A t \in Slots \ {s} : requests'[t] = requests[t]
        /\ q # None /\ q.pc = pc /\ SameWork(q, r) /\ q.source = r.source /\ q.alone = r.alone
    BY <1>2, <1>5, GoesIs DEF Stages
  <2>2. Handled(s)
    BY <1>1, <1>2, <1>3, <1>5, <2>1 DEF Handled
  <2>3. /\ new # None /\ DOMAIN new = DOMAIN copy[r.d] \ {Package}
        /\ \A p \in DOMAIN new : new[p] = copy[r.d][p]
    <3>1. new \in Contents(clock) /\ clock \in 1 .. MaxClock
      BY <1>1, <1>2, <1>5, Handling, RestrictIsContents DEF Deployable, Deployed
    <3>2. new # None
      BY <3>1, NoneIsApart
    <3> QED BY <3>2, RestrictHas DEF Deployed
  <2>4. org'[r.d] = new /\ (r.c # r.d => org'[r.c] = org[r.c])
    BY <1>2, <1>5 DEF TypeOK
  <2> HIDE DEF new
  <2>5. StageOk(r)' /\ SourceOk(r)'
    BY <1>1, <1>2, <2>1 DEF RequestOk, StageOk, SourceOk, SameWork
  <2>6. (Fetching(r) /\ Creating(r))'
    BY <2>1 DEF Fetching, Creating
  <2>7. r.alone => Saving(r)'
    <3> SUFFICES ASSUME r.alone, r.kind = "save" PROVE Saving(r)'
      BY <2>1 DEF Saving, SameWork
    <3>1. r.c = r.d /\ Holds(copy[r.c], r.file, r.content)
      BY <1>2 DEF RequestOk, StageOk, Saving
    <3> QED BY <1>1, <1>2, <2>1, <2>3, <2>4, <3>1, PartsAre DEF Saving, Holds, SameWork
  <2>8. r.alone => Renaming(r)'
    <3> SUFFICES ASSUME r.alone, r.kind = "rename" PROVE Renaming(r)'
      BY <2>1 DEF Renaming, SameWork
    <3>1. CarriesFiles(copy[r.d], org[r.c])
      BY <1>2 DEF RequestOk, Renaming
    <3>2. CarriesFiles(new, IF r.c = r.d THEN new ELSE org[r.c])
      BY <2>3, <3>1, PartsAre DEF CarriesFiles
    <3> QED BY <1>1, <2>1, <2>4, <3>2 DEF Renaming, CarriesFiles, KeptParts, SameWork
  <2>9. RequestOk(r)'
    BY <2>1, <2>5, <2>6, <2>7, <2>8 DEF RequestOk
  <2>10. TabsOk' /\ FilesOk'
    BY <1>1, <1>2, <1>5 DEF TabsOk, FilesOk, clientVars
  <2>11. /\ \A n \in synced' : n # r.d => n \in synced
         /\ r.d \in synced' => r.alone
    BY <1>5
  <2>12. q.pc \notin {"ship", "files"}
    BY <2>1
  <2> QED BY <1>1, <1>5, <2>2, <2>9, <2>10, <2>11, <2>12, ShipInv
<1>6. CASE /\ UNCHANGED <<org, own>> /\ synced' = synced \ {r.d} /\ UNCHANGED clientVars
           /\ requests' = [requests EXCEPT ![s] =
                [r EXCEPT !.pc = IF r.kind = "rename" THEN "destroy" ELSE "done",
                          !.refused = TRUE]]
  <2> DEFINE pc == IF r.kind = "rename" THEN "destroy" ELSE "done"
             new == [r EXCEPT !.pc = pc, !.refused = TRUE]
  <2>1. /\ new \in Requests /\ new.pc = pc /\ new.refused = TRUE /\ SameWork(new, r)
        /\ new.source = r.source /\ new.alone = r.alone
    <3>1. r \in Requests
      BY <1>1, Handling
    <3> QED BY <3>1 DEF Requests, SameWork
  <2>2. requests' = [requests EXCEPT ![s] = new]
    BY <1>6
  <2> HIDE DEF new
  <2>3. /\ requests' \in [Slots -> Requests \cup {None}] /\ q = new
        /\ \A t \in Slots \ {s} : requests'[t] = requests[t]
    BY <1>2, <2>1, <2>2 DEF TypeOK, Busy
  <2>4. Handled(s)
    BY <1>1, <1>2, <1>3, <1>6, <2>1, <2>3 DEF Handled
  <2>5. StageOk(r)' /\ SourceOk(r)'
    BY <1>1, <1>2, <2>1, <2>3 DEF RequestOk, StageOk, SourceOk, SameWork
  <2>6. (Fetching(r) /\ Creating(r) /\ Renaming(r))'
    BY <2>1, <2>3 DEF Fetching, Creating, Renaming
  <2>7. r.alone => Saving(r)'
    <3> SUFFICES ASSUME r.alone, r.kind = "save" PROVE Saving(r)'
      BY <2>1, <2>3 DEF Saving, SameWork
    <3>1. r.c = r.d /\ Holds(copy[r.c], r.file, r.content)
      BY <1>2 DEF RequestOk, StageOk, Saving
    <3> QED BY <1>1, <2>1, <2>3, <3>1 DEF Saving, Holds, SameWork
  <2>8. RequestOk(r)' /\ q.pc \notin {"ship", "files"}
    BY <2>1, <2>3, <2>5, <2>6, <2>7 DEF RequestOk
  <2>9. TabsOk' /\ FilesOk'
    BY <1>1, <1>2, <1>6 DEF TabsOk, FilesOk, clientVars
  <2> QED BY <1>1, <1>6, <2>4, <2>8, <2>9, RefusedInv
<1> QED BY <1>4, <1>5, <1>6 DEF Deploy

\* A component is made here if no load of the list is in flight, and then the
\* list is dropped.
LEMMA DeployAnswersInv == ASSUME EditorInv, NEW s \in Slots, DeployAnswers(s) PROVE EditorInv'
<1> DEFINE r == requests[s]
<1>1. /\ At(s, "done") /\ Ends(s) /\ UNCHANGED <<type, selected, org, copy, listing, synced, clock, asks>>
      /\ IF r.kind = "add" THEN listed' = listed
         ELSE listed' = [listed EXCEPT ![OrgOf(r.c)] = None]
      /\ own' = own \/ /\ r.kind = "create" /\ listing[OrgOf(r.c)] = None /\ Exists(r.c)
                       /\ own' = own \cup {r.c}
  BY DEF DeployAnswers, KeepList, Invalidate
<1>2. /\ s \in Busy /\ TypeOK /\ own \subseteq Names /\ r.pc = "done" /\ r.c \in Names
      /\ Touches(r) = {r.c, r.d} /\ FilesOk /\ TabsOk /\ r \in Requests
      /\ OrgOf(r.c) \in Orgs
  BY <1>1, Handling, NamesAre DEF TabsOk, FilesOk, TypeOK
<1>3. OwnInv' /\ (listed' = listed \/ Dropped)
  <2>1. listed' = listed \/ Dropped
    BY <1>1, <1>2 DEF Dropped, Invalidate
  <2>2. \A o \in Orgs : listed'[o] = listed[o] \/ listed'[o] = None
    BY <1>1, <1>2 DEF TypeOK
  <2>3. r.kind = "create" => listed'[OrgOf(r.c)] = None
    BY <1>1, <1>2 DEF TypeOK
  <2>4. \A c \in own' :
          \/ c = r.c /\ r.kind = "create" /\ listing[OrgOf(r.c)] = None /\ Exists(r.c)
          \/ c \in own /\ OrgOf(c) \in Orgs
    BY <1>1, <1>2, NamesAre
  <2> QED BY <1>1, <2>1, <2>2, <2>3, <2>4 DEF EditorInv, OwnInv, Exists
<1>4. TabsOk'
  <2>1. CASE r.kind = "save"
    BY <1>1, <1>2, <2>1, AfterSaveIs DEF DeployAnswers
  <2>2. CASE r.kind # "save"
    BY <1>1, <1>2, <2>2 DEF DeployAnswers, TabsOk
  <2> QED BY <2>1, <2>2
<1>5. FilesOk'
  BY <1>2 DEF DeployAnswers, FilesOk, ListComponentFiles
<1>6. own' \subseteq Names
  BY <1>1, <1>2
<1>7. Handled(s) /\ requests'[s] = None
  BY <1>1, <1>2, EndsIs DEF Handled
<1> QED BY <1>1, <1>2, <1>3, <1>4, <1>5, <1>6, <1>7, QuietInv

\* A deleted component is neither synced nor made here; a rename goes on
\* whatever the answer.
LEMMA DestroyInv == ASSUME EditorInv, NEW s \in Slots, Destroy(s) PROVE EditorInv'
<1> DEFINE r == requests[s]
           q == requests'[s]
           taken == org' = [org EXCEPT ![r.c] = Nothing] /\ own' = own \ {r.c}
<1>1. /\ At(s, "destroy") /\ UNCHANGED <<type, selected, copy, listed, listing, clock, asks>>
      /\ synced' = synced \ {r.c} /\ (taken \/ UNCHANGED <<org, own>>)
      /\ (Goes(s, "remove") /\ UNCHANGED clientVars) \/ Fails(s)
  BY DEF Destroy
<1>2. /\ s \in Busy /\ TypeOK /\ own \subseteq Names /\ synced \subseteq Names /\ r.pc = "destroy"
      /\ RequestOk(r) /\ FilesOk /\ TabsOk /\ r.c \in Names /\ r.d \in Names
      /\ Touches(r) = {r.c, r.d}
  BY <1>1, Handling DEF TabsOk, FilesOk, TypeOK
<1>3. /\ requests' \in [Slots -> Requests \cup {None}]
      /\ \A t \in Slots \ {s} : requests'[t] = requests[t]
      /\ TabsOk' /\ FilesOk'
      /\ q # None => /\ q.pc = "remove" /\ SameWork(q, r) /\ q.source = r.source
                     /\ q.alone = r.alone
  <2>1. CASE Fails(s)
    BY <1>1, <1>2, <2>1, FailsIs
  <2>2. CASE Goes(s, "remove") /\ UNCHANGED clientVars
    <3>1. TabsOk' /\ FilesOk'
      BY <1>1, <1>2, <2>2 DEF TabsOk, FilesOk, clientVars
    <3> QED BY <1>2, <2>2, <3>1, GoesIs DEF Stages
  <2> QED BY <1>1, <2>1, <2>2
<1>4. \A c \in Names \ {r.c} : org'[c] = org[c]
  BY <1>1, <1>2 DEF TypeOK
<1>5. Handled(s)
  BY <1>1, <1>2, <1>3, <1>4 DEF Handled
<1>6. q # None => RequestOk(r)'
  <2> SUFFICES ASSUME q # None PROVE RequestOk(r)'
    OBVIOUS
  <2>1. StageOk(r)' /\ SourceOk(r)'
    BY <1>1, <1>2, <1>3 DEF RequestOk, StageOk, SourceOk, SameWork
  <2>2. (Fetching(r) /\ Saving(r) /\ Renaming(r) /\ Creating(r))'
    BY <1>3 DEF Fetching, Saving, Renaming, Creating
  <2> QED BY <2>1, <2>2 DEF RequestOk
<1> HIDE DEF q
<1>7. CASE UNCHANGED <<org, own>>
  <2>1. OwnInv'
    BY <1>1, <1>7, OwnQuiet
  <2> QED BY <1>1, <1>2, <1>3, <1>5, <1>6, <1>7, <2>1, QuietInv DEF q
<1>8. CASE taken
  <2>1. Nothing \in Contents(clock) /\ Package \notin DOMAIN Nothing /\ Shaped(Nothing)
    BY NothingIsContents
  <2>2. OwnInv'
    <3>1. \A n \in own' : Exists(n)'
      BY <1>2, <1>4, <1>8 DEF EditorInv, OwnInv, Exists
    <3> QED BY <1>1, <1>8, <3>1, OwnStays
  <2>3. SyncInv'
    <3>1. ASSUME NEW n \in synced, n # r.c PROVE Synced(n)'
      BY <1>1, <1>2, <1>3, <1>4, <1>5, <3>1, SyncedStays DEF q
    <3> QED BY <1>1, <3>1 DEF SyncInv
  <2>4. synced' \subseteq Names /\ own' \subseteq Names
    BY <1>1, <1>2, <1>8
  <2> QED BY <1>1, <1>2, <1>3, <1>5, <1>6, <1>8, <2>1, <2>2, <2>3, <2>4, OrgInv DEF q
<1> QED BY <1>1, <1>7, <1>8

\* The copy of a deleted component goes, and the list is dropped.
LEMMA RemoveCopyInv == ASSUME EditorInv, NEW s \in Slots, RemoveCopy(s) PROVE EditorInv'
<1> DEFINE r == requests[s]
<1>1. /\ At(s, "remove") /\ Ends(s) /\ UNCHANGED <<type, selected, org, listing, clock, asks>>
      /\ copy' = [copy EXCEPT ![r.c] = None] /\ synced' = synced \ {r.c}
      /\ listed' = [listed EXCEPT ![OrgOf(r.c)] = None]
      /\ own' = own \/ /\ r.kind = "rename" /\ listing[OrgOf(r.d)] = None /\ Exists(r.d)
                       /\ own' = own \cup {r.d}
  BY DEF RemoveCopy, Invalidate
<1>2. /\ s \in Busy /\ TypeOK /\ own \subseteq Names /\ synced \subseteq Names /\ r.pc = "remove"
      /\ r.c \in Names /\ r.d \in Names /\ Touches(r) = {r.c, r.d} /\ FilesOk /\ TabsOk
      /\ OrgOf(r.c) \in Orgs /\ OrgOf(r.d) = OrgOf(r.c)
  BY <1>1, Handling, NamesAre DEF RequestOk, StageOk, TabsOk, FilesOk, TypeOK
<1>3. OwnInv' /\ (listed' = listed \/ Dropped)
  <2>1. listed' = listed \/ Dropped
    BY <1>1, <1>2 DEF Dropped, Invalidate
  <2>2. /\ \A o \in Orgs : listed'[o] = listed[o] \/ listed'[o] = None
        /\ listed'[OrgOf(r.c)] = None
    BY <1>1, <1>2 DEF TypeOK
  <2>3. \A c \in own' : \/ c = r.d /\ listing[OrgOf(r.d)] = None /\ Exists(r.d)
                        \/ c \in own /\ OrgOf(c) \in Orgs
    BY <1>1, <1>2, NamesAre
  <2> QED BY <1>1, <1>2, <2>1, <2>2, <2>3 DEF EditorInv, OwnInv, Exists
<1>4. TabsOk'
  BY <1>1, <1>2 DEF RemoveCopy, CloseAll, Restrict, TabsOk
<1>5. FilesOk'
  BY <1>2 DEF RemoveCopy, FilesOk, ListComponentFiles
<1>6. own' \subseteq Names /\ synced' \subseteq Names
  BY <1>1, <1>2
<1>7. \A c \in Names \ {r.c} : copy'[c] = copy[c]
  BY <1>1, <1>2 DEF TypeOK
<1>8. Handled(s) /\ requests'[s] = None
  BY <1>1, <1>2, <1>7, EndsIs DEF Handled
<1>9. SyncInv'
  <2>1. ASSUME NEW n \in synced, n # r.c PROVE Synced(n)'
    BY <1>1, <1>2, <1>7, <1>8, <2>1, SyncedStays
  <2> QED BY <1>1, <2>1 DEF SyncInv
<1> QED BY <1>1, <1>2, <1>3, <1>4, <1>5, <1>6, <1>8, <1>9, CopyInv


-----------------------------------------------------------------------------
(* Every step keeps the invariant, so every state of the editor has it.    *)
LEMMA HandleInv == ASSUME EditorInv, NEW s \in Slots, Handle(s) PROVE EditorInv'
BY CheckExistsInv, FetchAnswersInv, WipeInv, WriteFileInv, WritePackageInv, RetrieveAnswersInv,
   OpenAnswersInv, WriteContentInv, WriteSkeletonInv, AddFileInv, CopyRenamedInv, DeployKeeps,
   DeployAnswersInv, DestroyInv, RemoveCopyInv DEF Handle

\* Every step of the editor keeps the invariant.
LEMMA NextEditorInv == EditorInv /\ [Next]_vars => EditorInv'
<1> SUFFICES ASSUME EditorInv, [Next]_vars PROVE EditorInv'
  OBVIOUS
<1>1. ASSUME NEW s \in Slots, Ask(s) \/ Handle(s) PROVE EditorInv'
  BY <1>1, AskInv, HandleInv
<1>2. ASSUME (\E c \in Names : OrgChange(c)) \/ (\E l \in Labels, f \in Files : OpenFile(l, f))
      PROVE  EditorInv'
  BY <1>2, OrgChangeInv, OpenFileInv
<1>3. ASSUME NEW t \in DOMAIN tabs, FileAnswers(t) \/ UpdateTabContent(t) \/ CloseTab(t)
      PROVE  EditorInv'
  BY <1>3, FileAnswersInv, UpdateTabContentInv, CloseTabInv
<1>4. ASSUME NEW o \in Orgs, SelectOrg(o) \/ ListReads(o) \/ ListAnswers(o) PROVE EditorInv'
  BY <1>4, SelectOrgInv, ListReadsInv, ListAnswersInv
<1>5. CASE UNCHANGED vars
  <2>1. /\ clock' \in clock .. MaxClock /\ DOMAIN tabs' \subseteq Labels \X Files
        /\ tabs' \in [DOMAIN tabs' -> [content : 0 .. clock', original : 0 .. clock', from : Orgs,
                                       loading : BOOLEAN, saving : BOOLEAN]]
    BY <1>5, BoundsAssumption DEF vars, clientVars, EditorInv, TypeOK
  <2>2. UNCHANGED <<type, serverVars, selected, requests, files, asks>>
    BY <1>5 DEF vars, clientVars
  <2> QED BY <2>1, <2>2, WindowKeeps
<1> QED BY <1>1, <1>2, <1>3, <1>4, <1>5 DEF Next, InScope

(* What the theorems below rest on: a request that is alone knows what the *)
(* org and the copy have of its component, a copy counted as synced has    *)
(* what the org has, and the list that a creation consults has all that    *)
(* was made here.                                                          *)
THEOREM EditorInvariance == Spec => []EditorInv
<1>1. Init => EditorInv
  BY InitEditorInv
<1>2. EditorInv /\ [Next]_vars => EditorInv'
  BY NextEditorInv
<1> QED BY <1>1, <1>2, PTL DEF Spec

-----------------------------------------------------------------------------
(* A request changes its stage only in a handler of its own.               *)
LEMMA HandleMoves ==
  ASSUME TypeOK, NEW s \in Slots, Handle(s), NEW t \in Slots \ {s}
  PROVE  requests'[t] = requests[t]
<1>1. requests \in [Slots -> Requests \cup {None}]
  BY DEF TypeOK
<1>2. \A pc : Goes(s, pc) => requests'[t] = requests[t]
  BY <1>1 DEF Goes
<1>3. Ends(s) \/ Fails(s) => requests'[t] = requests[t]
  BY <1>1 DEF Ends, Fails
<1>4. CASE CheckExists(s) \/ FetchAnswers(s) \/ Wipe(s) \/ WriteFile(s) \/ WritePackage(s)
           \/ RetrieveAnswers(s) \/ OpenAnswers(s)
  BY <1>1, <1>2, <1>3, <1>4 DEF CheckExists, FetchAnswers, Wipe, WriteFile, WritePackage,
     RetrieveAnswers, OpenAnswers
<1>5. CASE WriteContent(s) \/ WriteSkeleton(s) \/ AddFile(s) \/ CopyRenamed(s)
  BY <1>2, <1>3, <1>5 DEF WriteContent, WriteSkeleton, AddFile, CopyRenamed, Writes
<1>6. CASE Deploy(s) \/ DeployAnswers(s) \/ Destroy(s) \/ RemoveCopy(s)
  BY <1>1, <1>2, <1>3, <1>6 DEF Deploy, DeployAnswers, Destroy, RemoveCopy
<1> QED BY <1>4, <1>5, <1>6 DEF Handle

\* Other requests, other people and the window leave a request at its stage.
LEMMA StageStays ==
  ASSUME TypeOK, [Next]_vars, NEW s \in Busy
  PROVE  Handle(s) \/ (requests'[s] # None /\ requests'[s].pc = requests[s].pc)
<1> SUFFICES ASSUME ~Handle(s) PROVE requests'[s] # None /\ requests'[s].pc = requests[s].pc
  OBVIOUS
<1>1. s \in Slots /\ requests[s] # None
  BY DEF Busy, Idle
<1>2. ASSUME NEW names, requests'[s] = Disturb(names)[s]
      PROVE  requests'[s] # None /\ requests'[s].pc = requests[s].pc
  BY <1>1, <1>2, DisturbedStay DEF SameStage
<1>3. ASSUME NEW t \in Slots, Ask(t) PROVE requests'[s] # None /\ requests'[s].pc = requests[s].pc
  <2>1. PICK kind, c, d, f, content, pc : Send(t, kind, c, d, f, content, pc)
    BY <1>3 DEF Ask, SaveTab, Open, CreateComponent, AddBundleFile, DeleteComponent, Rename
  <2>2. t # s
    BY <2>1 DEF Send, Busy
  <2>3. requests'[s] = Disturb({c, d})[s]
    BY <1>1, <2>1, <2>2 DEF Send
  <2> QED BY <1>2, <2>3
<1>4. ASSUME NEW t \in Slots, Handle(t)
      PROVE  requests'[s] # None /\ requests'[s].pc = requests[s].pc
  BY <1>1, <1>4, HandleMoves
<1>5. ASSUME NEW c \in Names, OrgChange(c)
      PROVE  requests'[s] # None /\ requests'[s].pc = requests[s].pc
  BY <1>2, <1>5 DEF OrgChange
<1>6. CASE UNCHANGED requests
  BY <1>1, <1>6
<1> QED BY <1>3, <1>4, <1>5, <1>6
        DEF Next, InScope, OpenFile, FileAnswers, UpdateTabContent, CloseTab, SelectOrg,
            ListReads, ListAnswers, vars

(* Deployments are the steps of `Deploy`, deletions those of `Destroy`.    *)
LEMMA DeploysIsDeploy ==
  ASSUME TypeOK, [Next]_vars, NEW s \in Slots, Deploys(s)
  PROVE  s \in Busy /\ Deploy(s)
<1>1. s \in Busy /\ requests[s].pc = "ship"
  BY DEF Deploys, At
<1>2. Handle(s)
  <2>1. ~(requests'[s] # None /\ requests'[s].pc = "ship")
    BY DEF Deploys, At, Busy, Idle
  <2> QED BY <1>1, <2>1, StageStays
<1> QED BY <1>1, <1>2
        DEF Handle, CheckExists, FetchAnswers, Wipe, WriteFile, WritePackage, RetrieveAnswers,
            OpenAnswers, WriteContent, WriteSkeleton, AddFile, CopyRenamed, DeployAnswers,
            Destroy, RemoveCopy, At

(* What comes back of a component: the parts that are kept, as they are.   *)
LEMMA KeptHas ==
  ASSUME type \in Types, NEW n, NEW f \in Contents(n), Package \notin DOMAIN f
  PROVE  /\ DOMAIN Kept(f) = KeptParts \cap DOMAIN f
         /\ \A p \in DOMAIN Kept(f) : Kept(f)[p] = f[p]
<1>1. DOMAIN f \subseteq KeptParts \/ type = "aura"
  BY ContentsAreFunctions DEF KeptParts, Parts
<1>2. CASE type = "aura"
  BY <1>2, RestrictHas DEF Kept, KeptParts
<1>3. CASE type # "aura"
  BY <1>1, <1>3 DEF Kept
<1> QED BY <1>2, <1>3

\* Contents that agree but for one part are equal without it, as far as parts
\* are kept.
LEMMA AgreeIsBut ==
  ASSUME type \in Types, NEW n, NEW f \in Contents(n), NEW g \in Contents(n), NEW p,
         Package \notin DOMAIN f, Package \notin DOMAIN g, Agree(f, g, p)
  PROVE  But(Kept(f), p) = But(Kept(g), p)
<1>1. /\ DOMAIN Kept(f) = KeptParts \cap DOMAIN f
      /\ \A q \in DOMAIN Kept(f) : Kept(f)[q] = f[q]
      /\ DOMAIN Kept(g) = KeptParts \cap DOMAIN g
      /\ \A q \in DOMAIN Kept(g) : Kept(g)[q] = g[q]
  BY KeptHas
<1>2. DOMAIN Kept(f) \ {p} = DOMAIN Kept(g) \ {p}
  BY <1>1 DEF Agree
<1>3. \A q \in DOMAIN Kept(f) \ {p} : Kept(f)[q] = Kept(g)[q]
  BY <1>1, <1>2 DEF Agree
<1> QED BY <1>2, <1>3 DEF But, Restrict

(* Saving or adding one file of a component whose copy has what the org    *)
(* has changes nothing else of it in the org (`SaveSparesTheRest`):        *)
(* whatever else is in flight, the copy then differs from the org by that  *)
(* file.                                                                   *)
THEOREM SavesSpareTheRest == Spec => SaveSparesTheRest
<1> DEFINE Spares(s) ==
      LET r == requests[s]
      IN  (Deploys(s) /\ r.kind \in {"save", "add"} /\ r.alone /\ r.c \in synced)
            => But(Kept(org'[r.c]), r.file) = But(Kept(org[r.c]), r.file)
<1>1. EditorInv => TypeOK
  BY DEF EditorInv
<1>2. EditorInv /\ EditorInv' /\ [Next]_vars => \A s \in Slots : Spares(s)
  <2> SUFFICES ASSUME EditorInv, EditorInv', [Next]_vars, NEW s \in Slots,
                      Deploys(s), requests[s].kind \in {"save", "add"},
                      requests[s].alone, requests[s].c \in synced
               PROVE  But(Kept(org'[requests[s].c]), requests[s].file)
                        = But(Kept(org[requests[s].c]), requests[s].file)
    OBVIOUS
  <2> DEFINE r == requests[s]
             c == requests[s].c
  <2>1. s \in Busy /\ Deploy(s) /\ TypeOK
    BY <1>1, DeploysIsDeploy
  <2>2. /\ At(s, "ship") /\ r.pc = "ship" /\ RequestOk(r) /\ c \in Names
        /\ type \in Types /\ org[c] \in Contents(clock) /\ Package \notin DOMAIN org[c]
        /\ copy[c] \in Contents(clock) \cup {None}
    BY <2>1, Handling DEF Deploy, TypeOK
  <2>3. r.d = c
    BY <2>2 DEF RequestOk, StageOk
  <2>4. Agree(copy[c], org[c], r.file)
    BY <2>1, <2>2, <2>3 DEF EditorInv, SyncInv, Synced, Shipping
  <2>5. CASE org' = org
    BY <2>5
  <2>6. CASE Deployable(copy[c]) /\ org' = [org EXCEPT ![c] = Deployed(copy[c])]
    <3> DEFINE new == Deployed(copy[c])
    <3>1. copy[c] \in Contents(clock)
      BY <2>2, <2>6 DEF Deployable
    <3>2. /\ new \in Contents(clock) /\ Package \notin DOMAIN new
          /\ DOMAIN new = DOMAIN copy[c] \ {Package} /\ \A p \in DOMAIN new : new[p] = copy[c][p]
      BY <3>1, RestrictIsContents, RestrictHas DEF Deployed
    <3>3. org'[c] = new
      BY <2>1, <2>2, <2>6 DEF TypeOK
    <3> HIDE DEF new
    <3>4. Agree(new, org[c], r.file)
      BY <2>4, <3>2, PartsAre DEF Agree
    <3> HIDE DEF r, c
    <3>5. But(Kept(new), r.file) = But(Kept(org[c]), r.file)
      BY <2>2, <3>2, <3>4, AgreeIsBut
    <3> QED BY <3>3, <3>5 DEF r, c
  <2> QED BY <2>1, <2>3, <2>5, <2>6 DEF Deploy
<1> QED BY EditorInvariance, <1>1, <1>2, PTL DEF Spec, SaveSparesTheRest

(* Creating or renaming never replaces what was made here before           *)
(* (`CreateSparesOwn`): the cached list and a load of it in flight have    *)
(* everything that was made here, so that the check refuses its name, and  *)
(* no other request can make it while this one is alone.                   *)
THEOREM CreationsSpareOwn == Spec => CreateSparesOwn
<1>1. EditorInv /\ [Next]_vars =>
        \A s \in Slots :
          LET r == requests[s]
          IN  (Deploys(s) /\ r.kind \in {"create", "rename"} /\ r.alone /\ r.d \in r.before \cap own)
                => org'[r.d] = org[r.d]
  <2> SUFFICES ASSUME EditorInv, [Next]_vars, NEW s \in Slots, Deploys(s),
                      requests[s].kind \in {"create", "rename"}, requests[s].alone
               PROVE  requests[s].d \notin own
    OBVIOUS
  <2>1. At(s, "ship")
    BY DEF Deploys
  <2>2. RequestOk(requests[s]) /\ requests[s].pc = "ship"
    BY <2>1, Handling
  <2> QED BY <2>2 DEF RequestOk, Creating
<1> QED BY EditorInvariance, <1>1, PTL DEF Spec, CreateSparesOwn

(* When the old component of a rename is deleted, the org has its files    *)
(* and settings under the new name, unless the org refused the new one     *)
(* (`RenameKeepsFiles`): the rename deletes only what it has fetched,      *)
(* copied and seen deployed, and what is in subfolders.                    *)
THEOREM RenamesKeepFiles == Spec => RenameKeepsFiles
<1>1. EditorInv /\ [Next]_vars =>
        \A s \in Slots :
          LET r == requests[s]
          IN  (At(s, "destroy") /\ r.kind = "rename" /\ r.alone /\ ~r.refused
                 /\ org'[r.c] # org[r.c])
                => \A p \in DOMAIN Kept(org[r.c]) \ {"extra"} : Holds(org[r.d], p, org[r.c][p])
  <2> SUFFICES ASSUME EditorInv, NEW s \in Slots, At(s, "destroy"),
                      requests[s].kind = "rename", requests[s].alone, ~requests[s].refused,
                      NEW p \in DOMAIN Kept(org[requests[s].c]) \ {"extra"}
               PROVE  Holds(org[requests[s].d], p, org[requests[s].c][p])
    OBVIOUS
  <2> DEFINE r == requests[s]
  <2>1. r.pc = "destroy" /\ RequestOk(r) /\ r.c \in Names /\ r.d \in Names /\ TypeOK
        /\ clock \in 1 .. MaxClock
    BY Handling
  <2>2. /\ type \in Types /\ org[r.c] \in Contents(clock) /\ Package \notin DOMAIN org[r.c]
        /\ org[r.d] # None
    BY <2>1, NoneIsApart DEF TypeOK
  <2>3. p \in (KeptParts \cap DOMAIN org[r.c]) \ {"extra"}
    BY <2>2, KeptHas
  <2> QED BY <2>1, <2>2, <2>3 DEF RequestOk, Renaming, CarriesFiles, Holds
<1> QED BY EditorInvariance, <1>1, PTL DEF Spec, RenameKeepsFiles

-----------------------------------------------------------------------------
(* What the steps of the window and the ends of requests make of a tab.    *)
SameMarks(t) == tabs'[t].content = tabs[t].content /\ tabs'[t].original = tabs[t].original

\* The end of a save leaves other tabs as they are, and its own if it failed.
LEMMA AfterSaveMarks ==
  ASSUME TypeOK, NEW r, NEW ok \in BOOLEAN, tabs' = AfterSave(r, ok), NEW t \in DOMAIN tabs,
         ~ok \/ t # <<Label(r.c), r.file>>
  PROVE  SameMarks(t)
<1> DEFINE u == <<Label(r.c), r.file>>
           Tabs == [content : 0 .. clock, original : 0 .. clock, from : Orgs,
                    loading : BOOLEAN, saving : BOOLEAN]
<1>1. tabs \in [DOMAIN tabs -> Tabs]
  BY DEF TypeOK
<1>2. CASE u \notin DOMAIN tabs
  BY <1>2 DEF AfterSave, SameMarks
<1>3. CASE u \in DOMAIN tabs
  <2>1. tabs' = [tabs EXCEPT ![u].saving = FALSE,
                             ![u].original = IF ok THEN tabs[u].content ELSE @]
    BY <1>3 DEF AfterSave
  <2> HIDE DEF u
  <2>2. CASE t # u
    BY <1>1, <2>1, <2>2 DEF SameMarks
  <2>3. CASE t = u /\ ~ok
    <3>1. tabs' = [tabs EXCEPT ![u] = [tabs[u] EXCEPT !.saving = FALSE, !.original = tabs[u].original]]
      BY <1>1, <1>3, <2>1, <2>3
    <3> QED BY <1>1, <1>3, <2>3, <3>1 DEF SameMarks
  <2> QED BY <2>2, <2>3 DEF u
<1> QED BY <1>2, <1>3

\* Tabs that stay open keep what they show.
LEMMA RestrictMarks ==
  ASSUME NEW S, tabs' = Restrict(tabs, S), NEW t \in S
  PROVE  SameMarks(t)
BY RestrictHas DEF SameMarks

\* Only the end of a save that was answered changes what a tab counts as saved.
LEMMA HandleMarks ==
  ASSUME TypeOK, NEW s \in Slots, Handle(s), NEW t \in DOMAIN tabs \cap DOMAIN tabs'
  PROVE  \/ SameMarks(t)
         \/ /\ DeployAnswers(s) /\ requests[s].kind = "save"
            /\ <<Label(requests[s].c), requests[s].file>> = t
<1> DEFINE r == requests[s]
<1>1. CASE tabs' = tabs
  BY <1>1 DEF SameMarks
<1>2. CASE Fails(s)
  <2>1. tabs' = tabs \/ tabs' = AfterSave(r, FALSE)
    BY <1>2 DEF Fails
  <2> QED BY <1>1, <2>1, AfterSaveMarks
<1>3. CASE CheckExists(s) \/ FetchAnswers(s) \/ Wipe(s) \/ WriteFile(s) \/ WritePackage(s)
           \/ RetrieveAnswers(s) \/ OpenAnswers(s)
  BY <1>1, <1>2, <1>3 DEF CheckExists, FetchAnswers, Wipe, WriteFile, WritePackage,
     RetrieveAnswers, OpenAnswers, clientVars
<1>4. CASE WriteContent(s) \/ WriteSkeleton(s) \/ AddFile(s) \/ CopyRenamed(s)
  BY <1>1, <1>2, <1>4 DEF WriteContent, WriteSkeleton, AddFile, CopyRenamed, Writes, clientVars
<1>5. CASE Deploy(s) \/ Destroy(s)
  BY <1>1, <1>2, <1>5 DEF Deploy, Destroy, clientVars
<1>6. CASE RemoveCopy(s)
  <2>1. tabs' = Restrict(tabs, {u \in DOMAIN tabs : u[1] # Label(r.c)})
    BY <1>6 DEF RemoveCopy, CloseAll
  <2>2. t \in {u \in DOMAIN tabs : u[1] # Label(r.c)}
    BY <2>1, RestrictHas
  <2> QED BY <2>1, <2>2, RestrictMarks
<1>7. CASE DeployAnswers(s)
  <2>1. CASE r.kind # "save"
    BY <1>1, <1>7, <2>1 DEF DeployAnswers
  <2>2. CASE r.kind = "save"
    <3>1. tabs' = AfterSave(r, TRUE)
      BY <1>7, <2>2 DEF DeployAnswers
    <3> QED BY <1>7, <2>2, <3>1, AfterSaveMarks
  <2> QED BY <2>1, <2>2
<1> QED BY <1>3, <1>4, <1>5, <1>6, <1>7 DEF Handle

\* Nothing else makes a changed tab clean: what is typed is newer than what
\* was loaded.
LEMMA WindowMarks ==
  ASSUME TypeOK, NEW t \in DOMAIN tabs \cap DOMAIN tabs', ~tabs[t].loading,
         tabs[t].content # tabs[t].original,
         \/ \E s \in Slots : Ask(s)
         \/ \E c \in Names : OrgChange(c)
         \/ \E l \in Labels, f \in Files : OpenFile(l, f)
         \/ \E u \in DOMAIN tabs : FileAnswers(u) \/ UpdateTabContent(u) \/ CloseTab(u)
         \/ \E o \in Orgs : SelectOrg(o) \/ ListReads(o) \/ ListAnswers(o)
         \/ UNCHANGED vars
  PROVE  tabs'[t].content # tabs'[t].original
<1> DEFINE Tabs == [content : 0 .. clock, original : 0 .. clock, from : Orgs,
                    loading : BOOLEAN, saving : BOOLEAN]
<1>1. tabs \in [DOMAIN tabs -> Tabs] /\ clock \in Nat
  BY BoundsAssumption DEF TypeOK
<1>2. CASE SameMarks(t)
  BY <1>2 DEF SameMarks
<1>3. CASE UNCHANGED tabs
  BY <1>2, <1>3 DEF SameMarks
<1>4. ASSUME NEW s \in Slots, NEW u \in DOMAIN tabs, SaveTab(s, u)
      PROVE  tabs'[t].content # tabs'[t].original
  <2>1. tabs' = [tabs EXCEPT ![u].saving = TRUE]
    BY <1>4 DEF SaveTab
  <2> QED BY <1>1, <1>2, <2>1 DEF SameMarks
<1>5. ASSUME NEW s \in Slots, Ask(s) PROVE tabs'[t].content # tabs'[t].original
  BY <1>3, <1>4, <1>5 DEF Ask, Open, CreateComponent, AddBundleFile, DeleteComponent, Rename
<1>6. ASSUME NEW l \in Labels, NEW f \in Files, OpenFile(l, f)
      PROVE  tabs'[t].content # tabs'[t].original
  <2>1. PICK v : tabs' = Over(Only(<<l, f>>, v), tabs)
    BY <1>6 DEF OpenFile
  <2>2. DOMAIN Only(<<l, f>>, v) = {<<l, f>>} /\ <<l, f>> # t
    BY <1>6, OnlyHas DEF OpenFile
  <2>3. t \in DOMAIN tabs \ DOMAIN Only(<<l, f>>, v)
    BY <2>2
  <2> DEFINE new == Only(<<l, f>>, v)
  <2> HIDE DEF new
  <2>4. \A p \in DOMAIN tabs \ DOMAIN new : Over(new, tabs)[p] = tabs[p]
    BY OverHas
  <2>5. tabs'[t] = tabs[t]
    BY <2>1, <2>3, <2>4 DEF new
  <2> QED BY <1>2, <2>5 DEF SameMarks
<1>7. ASSUME NEW u \in DOMAIN tabs, CloseTab(u) PROVE tabs'[t].content # tabs'[t].original
  <2>1. tabs' = Restrict(tabs, DOMAIN tabs \ {u})
    BY <1>7 DEF CloseTab
  <2> QED BY <1>2, <2>1, RestrictHas, RestrictMarks
<1>8. ASSUME NEW u \in DOMAIN tabs, FileAnswers(u) PROVE tabs'[t].content # tabs'[t].original
  <2>1. u # t
    BY <1>8 DEF FileAnswers
  <2>2. CASE tabs' = Restrict(tabs, DOMAIN tabs \ {u})
    BY <1>2, <2>2, RestrictHas, RestrictMarks
  <2>3. CASE tabs' # Restrict(tabs, DOMAIN tabs \ {u})
    <3>1. PICK v : tabs' = [tabs EXCEPT ![u] = v]
      BY <1>1, <1>8, <2>3 DEF FileAnswers
    <3>2. tabs'[t] = tabs[t]
      BY <2>1, <3>1
    <3> QED BY <1>2, <3>2 DEF SameMarks
  <2> QED BY <2>2, <2>3
<1>9. ASSUME NEW u \in DOMAIN tabs, UpdateTabContent(u)
      PROVE  tabs'[t].content # tabs'[t].original
  <2>1. tabs' = [tabs EXCEPT ![u].content = clock + 1]
    BY <1>9 DEF UpdateTabContent
  <2>2. CASE u # t
    BY <1>1, <1>2, <2>1, <2>2 DEF SameMarks
  <2>3. CASE u = t
    <3>1. tabs[t] \in Tabs
      BY <1>1
    <3>2. tabs'[t] = [tabs[t] EXCEPT !.content = clock + 1]
      BY <1>1, <2>1, <2>3
    <3>3. tabs'[t].content = clock + 1 /\ tabs'[t].original = tabs[t].original
      BY <3>1, <3>2
    <3> QED BY <1>1, <3>1, <3>3
  <2> QED BY <2>2, <2>3
<1> QED BY <1>3, <1>5, <1>6, <1>7, <1>8, <1>9
        DEF OrgChange, SelectOrg, ListReads, ListAnswers, vars, clientVars

(* A tab stops being marked as changed only by the answer of its own save, *)
(* and then the local copy has what was sent, and the org has it unless it *)
(* refused it (`CleanMeansSent`), unless the component was touched         *)
(* meanwhile.                                                              *)
THEOREM CleanIsSent == Spec => CleanMeansSent
<1> DEFINE Sent(t) == \E s \in Busy :
             LET r == requests[s]
             IN  /\ At(s, "done") /\ r.kind = "save" /\ <<Label(r.c), r.file>> = t
                 /\ r.alone => /\ Holds(copy[r.c], r.file, r.content)
                               /\ r.refused \/ Holds(org[r.c], r.file, r.content)
<1>1. EditorInv /\ [Next]_vars =>
        \A t \in DOMAIN tabs \cap DOMAIN tabs' :
          (~tabs[t].loading /\ tabs[t].content # tabs[t].original
             /\ tabs'[t].content = tabs'[t].original)
            => \E s \in Busy : LET r == requests[s] IN
                 /\ At(s, "done") /\ r.kind = "save" /\ <<Label(r.c), r.file>> = t
                 /\ r.alone => /\ Holds(copy[r.c], r.file, r.content)
                               /\ r.refused \/ Holds(org[r.c], r.file, r.content)
  <2> SUFFICES ASSUME EditorInv, [Next]_vars, NEW t \in DOMAIN tabs \cap DOMAIN tabs',
                      ~tabs[t].loading, tabs[t].content # tabs[t].original,
                      tabs'[t].content = tabs'[t].original
               PROVE  Sent(t)
    OBVIOUS
  <2>1. TypeOK /\ ~SameMarks(t)
    BY DEF EditorInv, SameMarks
  <2>2. PICK s \in Slots : Handle(s)
    BY <2>1, WindowMarks DEF Next, InScope
  <2>3. DeployAnswers(s) /\ requests[s].kind = "save" /\ <<Label(requests[s].c), requests[s].file>> = t
    BY <2>1, <2>2, HandleMarks
  <2>4. At(s, "done") /\ s \in Busy /\ requests[s].pc = "done" /\ RequestOk(requests[s])
    BY <2>3, Handling DEF DeployAnswers
  <2>5. LET r == requests[s]
        IN  r.alone => /\ Holds(copy[r.c], r.file, r.content)
                       /\ r.refused \/ Holds(org[r.c], r.file, r.content)
    BY <2>3, <2>4 DEF RequestOk, Saving
  <2> QED BY <2>3, <2>4, <2>5
<1> QED BY EditorInvariance, <1>1, PTL DEF Spec, CleanMeansSent
=============================================================================
