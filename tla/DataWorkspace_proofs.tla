------------------------- MODULE DataWorkspace_proofs -------------------------
(***************************************************************************)
(* Theorems about the query page, the inspector and their routes, for any  *)
(* records, any orgs, any number of requests in flight and any limits.     *)
(***************************************************************************)
EXTENDS DataWorkspace, FiniteSetTheorems, TLAPS

CallType == {Idle} \union QueryCalls \union DeleteCalls \union ReadCalls \union SaveCalls

\* The query page and the one request it waits for: both kinds of request are sent by a page
\* that is not busy and make it busy, so there is at most one that it still listens to.
PageCall(s) == calls[s].kind \in {"query", "delete"} /\ calls[s].listening

QueryPageInv ==
  /\ mounted # "query" => query.result = None /\ query.selected = {}
  /\ query.selected # {} => query.result # None
  /\ query.selected \subseteq Rows \/ query.ticked
  /\ query.result # None =>
       /\ query.result.done => query.result.read = query.result.of
       /\ query.result.tooling = query.tooling
       /\ query.result.org = org \/ query.lived
       /\ \/ query.lived
          \/ (query.result.read \ query.result.rows) \cap DOMAIN data[query.result.org] = {}

PageCallInv ==
  /\ \A s \in Slots : PageCall(s) =>
       /\ mounted = "query" /\ query.busy
       /\ calls[s].org = org \/ query.lived
       /\ calls[s].tooling = query.tooling
       /\ calls[s].kind = "query" => query.selected = {} \/ query.ticked
       /\ calls[s].kind = "delete" => query.result # None
  /\ \A s, t \in Slots : PageCall(s) /\ PageCall(t) => s = t

\* A query call: what it answers as done is everything.
AnswerIsWhole(c) == c.stage = "answer" => c.of \in SUBSET Ids /\ (c.done => c.got = c.of)

\* A delete call: what it was sent for, and where each of its ids is.
SentAsMeant(c) ==
  /\ c.confirmation = [n |-> Cardinality(c.ids), object |-> c.object]
  /\ c.tooling = c.from.tooling
  /\ c.org = c.from.org \/ c.from.lived
  /\ c.ids \subseteq c.from.rows \/ c.from.ticked
IdsAccounted(c) ==
  /\ c.todo = None => c.deleted = {} /\ c.failed = {}
  /\ c.todo # None => c.todo \union c.deleted \union c.failed = c.ids
  /\ c.todo # None => c.todo \cap (c.deleted \union c.failed) = {}
  /\ c.deleted \cap c.failed = {}
  /\ c.erased \subseteq c.deleted \union c.unclear
  /\ c.deleted \subseteq c.erased
DeletionOk(c) == SentAsMeant(c) /\ IdsAccounted(c) /\ c.erased \cap DOMAIN data[c.org] = {}

\* The inspector: an unmounted one holds nothing; a draft differs from its record only where
\* something was typed; while a record is edited the inputs are the ones editing began with.
InspectorInv ==
  /\ mounted # "inspector" => insp.record = None /\ ~insp.editing /\ ~insp.lived
  /\ insp.record # None =>
       /\ insp.loadedFor \in Loaded /\ insp.draft \in Records
       /\ insp.loadedFor.org = org \/ insp.lived
       /\ \A f \in Fields : insp.draft[f] # insp.record[f] => insp.editing /\ f \in insp.typed
  /\ insp.editing =>
       /\ insp.record # None
       /\ \/ <<insp.object, insp.id>> = <<insp.loadedFor.object, insp.loadedFor.id>>
          \/ insp.astray

\* A read or a save whose answer the inspector waits for was sent by the inspector on screen.
HeardByInspector(c) ==
  c.listening => mounted = "inspector" /\ (c.org = org \/ insp.lived)
SaveOk(c) ==
  /\ DOMAIN c.changes \subseteq c.from.typed
  /\ <<c.object, c.id>> = <<c.from.loaded.object, c.from.loaded.id>> \/ c.from.astray
  /\ c.org = c.from.loaded.org \/ c.from.lived

CallOk(c) ==
  /\ c.kind = "query" => AnswerIsWhole(c)
  /\ c.kind = "delete" => DeletionOk(c)
  /\ c.kind = "record" => HeardByInspector(c) /\ (c.stage = "answer" => c.value \in Records)
  /\ c.kind = "save" => HeardByInspector(c) /\ SaveOk(c)

CallInv == \A s \in Slots : CallOk(calls[s])

DataInv == TypeOK /\ QueryPageInv /\ PageCallInv /\ InspectorInv /\ CallInv

-----------------------------------------------------------------------------
(* Lemmas about the operators and about steps that leave much alone.       *)

\* The first elements of a set are elements of it.
LEMMA FirstIsPart == \A S, n : First(S, n) \subseteq S
BY DEF First

\* A set cut to so many elements keeps its size only when nothing was cut off.
LEMMA CutByCount ==
  ASSUME NEW S \in SUBSET Ids, NEW n, Cardinality(First(S, n)) = Cardinality(S)
  PROVE  First(S, n) = S
<1>1. IsFiniteSet(S)
  BY FS_Subset, DataAssumption
<1>2. First(S, n) \subseteq S
  BY FirstIsPart
<1>3. QED
  BY <1>1, <1>2, FS_Subset, Zenon

\* The kind of a call says which record it is.
LEMMA CallKinds ==
  ASSUME NEW c \in CallType
  PROVE  /\ c.kind = "query" => c \in QueryCalls
         /\ c.kind = "delete" => c \in DeleteCalls
         /\ c.kind = "record" => c \in ReadCalls
         /\ c.kind = "save" => c \in SaveCalls
         /\ c.kind = "idle" => c = Idle
         /\ c.kind \in {"query", "delete", "record", "save", "idle"}
BY DEF CallType, Idle, QueryCalls, DeleteCalls, ReadCalls, SaveCalls

\* An empty slot is no call.
LEMMA IdleIsNone == Idle \in CallType /\ Idle.kind = "idle" /\ CallOk(Idle) /\ CallOk(Idle)'
BY DEF Idle, CallType, CallOk

\* What the orgs hold may change, but nothing that was deleted comes back.
OrgsOnlyLose ==
  /\ DOMAIN data' = Orgs
  /\ \A o \in Orgs : /\ data'[o] \in [DOMAIN data'[o] -> Records]
                     /\ DOMAIN data'[o] \subseteq DOMAIN data[o]

\* Orgs that do not change lose nothing.
LEMMA NothingLost == ASSUME TypeOK, UNCHANGED data PROVE OrgsOnlyLose
BY DEF TypeOK, OrgsOnlyLose

\* A call that nobody touches stays right while the page it talks to stays as it was.
LEMMA CallStays ==
  ASSUME DataInv, OrgsOnlyLose, UNCHANGED <<org, mounted>>, insp'.lived = insp.lived,
         NEW s \in Slots, calls'[s] = calls[s]
  PROVE  CallOk(calls[s])'
<1>1. CallOk(calls[s]) /\ calls[s] \in CallType
  BY DEF DataInv, CallInv, TypeOK, CallType
<1>2. ASSUME calls[s].kind = "delete" PROVE DeletionOk(calls[s])'
  <2>1. calls[s].org \in Orgs
    BY <1>1, <1>2, CallKinds DEF DeleteCalls
  <2>2. DeletionOk(calls[s])
    BY <1>1, <1>2 DEF CallOk
  <2>3. QED
    BY <2>1, <2>2 DEF DeletionOk, OrgsOnlyLose, SentAsMeant, IdsAccounted
<1>3. QED
  BY <1>1, <1>2 DEF CallOk, HeardByInspector, AnswerIsWhole, SaveOk

\* What holds of the inspector depends on nothing else.
LEMMA InspectorStays ==
  ASSUME InspectorInv, UNCHANGED <<org, mounted, insp>> PROVE InspectorInv'
BY DEF InspectorInv

\* What holds of the query page stays while records only disappear.
LEMMA QueryPageStays ==
  ASSUME TypeOK, QueryPageInv, OrgsOnlyLose, UNCHANGED <<org, mounted, query>>
  PROVE  QueryPageInv'
<1>1. CASE query.result = None
  BY <1>1 DEF QueryPageInv, Rows
<1>2. CASE query.result # None
  <2>1. query.result.org \in Orgs
    BY <1>2 DEF TypeOK, QueryPages, Results
  <2>2. QED
    BY <1>2, <2>1 DEF QueryPageInv, OrgsOnlyLose, Rows
<1>3. QED
  BY <1>1, <1>2

\* A step of the query page that sends nothing: only its own part is left to show.
LEMMA PageStep ==
  ASSUME DataInv, OnQuery, UNCHANGED <<calls, spent>>, query' \in QueryPages, soql' \in Objects,
         QueryPageInv', PageCallInv'
  PROVE  DataInv'
<1>1. TypeOK'
  BY DEF DataInv, TypeOK, OnQuery
<1>2. InspectorInv'
  BY InspectorStays DEF DataInv, OnQuery
<1>3. OrgsOnlyLose
  BY NothingLost DEF DataInv, OnQuery
<1>4. CallInv'
  BY <1>3, CallStays DEF CallInv, OnQuery
<1>5. QED
  BY <1>1, <1>2, <1>4 DEF DataInv

\* Unless its result, its mode or its being busy changes, the query page is right when its
\* ticks are.
LEMMA TicksStep ==
  ASSUME DataInv, OnQuery, UNCHANGED <<calls, spent>>, query' \in QueryPages, soql' \in Objects,
         query'.result = query.result, query'.tooling = query.tooling,
         query'.busy = query.busy, query'.lived = query.lived,
         query'.selected # {} => query.result # None,
         query'.selected \subseteq Rows \/ query'.ticked,
         query.ticked => query'.ticked,
         query.busy => query'.selected = query.selected \/ query'.ticked
  PROVE  DataInv'
<1>1. QueryPageInv'
  BY DEF DataInv, QueryPageInv, Rows, OnQuery
<1>2. PageCallInv'
  BY DEF DataInv, PageCallInv, PageCall, OnQuery
<1>3. QED
  BY <1>1, <1>2, PageStep

-----------------------------------------------------------------------------
(* The initial states.                                                     *)

\* Every record has an object, so there is one.
LEMMA SomeObject == \E o \in Objects : \E r \in Ids : ObjectOf[r] = o
BY DataAssumption

\* The pages as they are when they are opened are pages.
LEMMA FreshPages ==
  /\ EmptyQuery \in QueryPages
  /\ \A o \in Objects : EmptyInspector(o) \in Inspectors
<1>1. (CHOOSE id \in Ids : TRUE) \in Ids
  BY DataAssumption
<1>2. QED
  BY <1>1 DEF EmptyQuery, QueryPages, EmptyInspector, Inspectors

\* At first nothing is shown and nothing is in flight.
LEMMA DataStarts == Init => DataInv
<1> SUFFICES ASSUME Init PROVE DataInv
  OBVIOUS
<1>1. soql \in Objects
  BY SomeObject DEF Init
<1>2. TypeOK
  <2>1. [f \in Fields |-> "old"] \in Records
    BY DEF Records
  <2>2. DOMAIN data = Orgs /\ \A o \in Orgs : DOMAIN data[o] = Ids /\ data[o] \in [Ids -> Records]
    BY <2>1 DEF Init
  <2>3. query \in QueryPages /\ insp \in Inspectors
    BY <1>1, FreshPages DEF Init
  <2>4. spent \in 0 .. MaxEvents
    BY DataAssumption DEF Init
  <2>5. QED
    BY <1>1, <2>2, <2>3, <2>4 DEF TypeOK, Init
<1>3. QueryPageInv /\ InspectorInv
  BY DEF Init, QueryPageInv, InspectorInv, EmptyQuery, EmptyInspector, Rows
<1>4. PageCallInv /\ CallInv
  BY IdleIsNone DEF Init, PageCallInv, PageCall, CallInv
<1>5. QED
  BY <1>2, <1>3, <1>4 DEF DataInv

-----------------------------------------------------------------------------
(* The steps of the query page.                                            *)

\* Visible rows are rows, and a page with rows shows a result.
LEMMA RowsAreIds ==
  ASSUME TypeOK
  PROVE  /\ Rows \subseteq Ids /\ Visible \subseteq Rows
         /\ Rows # {} => query.result # None
<1>1. query.result = None \/ query.result \in Results
  BY DEF TypeOK, QueryPages
<1>2. Visible \subseteq Rows
  BY FirstIsPart DEF Visible
<1>3. QED
  BY <1>1, <1>2 DEF Rows, Results

\* Ticking rows confirms nothing, and is marked while the page is busy.
LEMMA TickKeeps == ASSUME DataInv, NEW S, Tick(S) PROVE DataInv'
<1>1. S \subseteq Rows /\ S # {} /\ Rows \subseteq Ids /\ query.result # None /\ query \in QueryPages
  BY RowsAreIds DEF DataInv, Tick, TypeOK
<1>2. query' \in QueryPages
  BY <1>1 DEF Tick, QueryPages
<1>3. query'.selected \subseteq query.selected \union S
  BY <1>1 DEF Tick, QueryPages
<1>4. query'.ticked = (query.ticked \/ query.busy)
  BY <1>1 DEF Tick, QueryPages
<1>5. query.selected \subseteq Rows \/ query.ticked
  BY DEF DataInv, QueryPageInv
<1>6. /\ query'.result = query.result /\ query'.tooling = query.tooling
      /\ query'.busy = query.busy /\ query'.lived = query.lived
  BY <1>1 DEF Tick, QueryPages
<1>7. query'.selected \subseteq Rows \/ query'.ticked
  BY <1>1, <1>3, <1>4, <1>5
<1>8. QED
  BY <1>1, <1>2, <1>4, <1>6, <1>7, TicksStep DEF Tick, OnQuery, DataInv, TypeOK

\* Typing, turning pages and answering the confirmation send nothing.
LEMMA EditingKeeps ==
  ASSUME DataInv, EditQuery \/ TurnPage \/ OpenConfirmation \/ Confirmation PROVE DataInv'
<1>1. query \in QueryPages /\ soql \in Objects
  BY DEF DataInv, TypeOK
<1>2. /\ query.selected # {} => query.result # None
      /\ query.selected \subseteq Rows \/ query.ticked
  BY DEF DataInv, QueryPageInv
<1>3. CASE EditQuery
  BY <1>1, <1>2, <1>3, TicksStep DEF EditQuery
<1>4. CASE TurnPage
  <2>1. PICK p : p \in 1 .. Pages /\ query' = [query EXCEPT !.page = p]
    BY <1>4 DEF TurnPage
  <2>2. p \in Nat
    BY <2>1
  <2>3. QED
    BY <1>1, <1>2, <1>4, <2>1, <2>2, TicksStep DEF TurnPage, OnQuery, QueryPages
<1>5. CASE OpenConfirmation
  BY <1>1, <1>2, <1>5, TicksStep DEF OpenConfirmation, OnQuery, QueryPages
<1>6. CASE Confirmation
  <2>1. Phrase \in [n : Nat, object : Objects]
    BY <1>1, FS_Subset, FS_CardinalityType, DataAssumption DEF Phrase, QueryPages
  <2>2. query' \in {[query EXCEPT !.typed = Phrase], [query EXCEPT !.dialog = FALSE]}
    BY <1>6 DEF Confirmation
  <2>3. QED
    BY <1>1, <1>2, <1>6, <2>1, <2>2, TicksStep DEF Confirmation, OnQuery, QueryPages
<1>7. QED
  BY <1>3, <1>4, <1>5, <1>6

\* Another API empties the page.
LEMMA ToggleKeeps == ASSUME DataInv, ToggleTooling PROVE DataInv'
<1>1. query \in QueryPages /\ soql \in Objects
  BY DEF DataInv, TypeOK
<1>2. query' \in QueryPages /\ query'.result = None /\ query'.selected = {} /\ query'.lived = query.lived
  BY <1>1 DEF ToggleTooling, QueryPages
<1>3. QueryPageInv'
  BY <1>2 DEF ToggleTooling, OnQuery, QueryPageInv
<1>4. \A s \in Slots : ~PageCall(s) /\ ~PageCall(s)'
  BY DEF ToggleTooling, DataInv, PageCallInv, PageCall
<1>5. PageCallInv'
  BY <1>4 DEF PageCallInv
<1>6. QED
  BY <1>1, <1>2, <1>3, <1>5, PageStep DEF ToggleTooling, OnQuery

\* While the page is not busy it waits for nothing.
LEMMA NotBusy == ASSUME DataInv, ~query.busy PROVE \A s \in Slots : ~PageCall(s)
BY DEF DataInv, PageCallInv

\* A step that fills one slot: the slots it leaves alone.
LEMMA OneSlot ==
  ASSUME TypeOK, NEW s \in Slots, NEW c \in CallType, Put(s, c)
  PROVE  /\ calls' \in [Slots -> CallType]
         /\ calls'[s] = c
         /\ \A t \in Slots \ {s} : calls'[t] = calls[t]
BY DEF TypeOK, Put, CallType

\* The number of events stays within its bound.
LEMMA SpendType == ASSUME TypeOK, Spend PROVE spent' \in 0 .. MaxEvents
BY DataAssumption DEF TypeOK, Spend

\* The page sends a request: only the new call is left to show.
LEMMA PageSends ==
  ASSUME DataInv, OnQuery, UNCHANGED soql, ~query.busy, query' \in QueryPages, QueryPageInv',
         query'.busy, query'.lived = query.lived, query'.tooling = query.tooling,
         NEW s \in Slots, calls' \in [Slots -> CallType],
         \A t \in Slots \ {s} : calls'[t] = calls[t], spent' \in 0 .. MaxEvents,
         calls'[s].org = org, calls'[s].tooling = query.tooling,
         calls'[s].kind \in {"query", "delete"},
         calls'[s].kind = "query" => query'.selected = {},
         calls'[s].kind = "delete" => query'.result # None,
         CallOk(calls[s])'
  PROVE  DataInv'
<1>1. TypeOK'
  BY DEF DataInv, TypeOK, OnQuery, CallType
<1>2. InspectorInv'
  BY InspectorStays DEF DataInv, OnQuery
<1>3. OrgsOnlyLose
  BY NothingLost DEF DataInv, OnQuery
<1>4. CallInv'
  BY <1>3, CallStays DEF CallInv, OnQuery
<1>5. PageCallInv'
  <2>1. \A t \in Slots : PageCall(t)' => t = s
    BY NotBusy DEF PageCall
  <2>2. mounted' = "query" /\ query'.busy /\ org' = org
    BY DEF OnQuery
  <2>3. QED
    BY <2>1, <2>2 DEF PageCallInv, PageCall
<1>6. QED
  BY <1>1, <1>2, <1>4, <1>5 DEF DataInv

\* A query is sent by a page that was not waiting, with its own mode and org.
LEMMA RunKeeps == ASSUME DataInv, RunQuery PROVE DataInv'
<1>1. TypeOK /\ query \in QueryPages /\ soql \in Objects /\ org \in Orgs
  BY DEF DataInv, TypeOK
<1>2. PICK s \in Slots :
        Send(s, [kind |-> "query", stage |-> "direct", listening |-> TRUE, org |-> org,
                 tooling |-> query.tooling, object |-> soql,
                 of |-> None, got |-> {}, pages |-> 0, done |-> TRUE])
  BY DEF RunQuery
<1> DEFINE c == [kind |-> "query", stage |-> "direct", listening |-> TRUE, org |-> org,
                 tooling |-> query.tooling, object |-> soql,
                 of |-> None, got |-> {}, pages |-> 0, done |-> TRUE]
<1>3. c \in CallType /\ c.kind = "query" /\ c.stage = "direct"
      /\ c.org = org /\ c.tooling = query.tooling
  BY <1>1 DEF CallType, QueryCalls, QueryPages, Stages
<1>4. Put(s, c) /\ spent' \in 0 .. MaxEvents
  BY <1>1, <1>2, SpendType DEF Send
<1> HIDE DEF c
<1>5. calls' \in [Slots -> CallType] /\ calls'[s] = c /\ \A t \in Slots \ {s} : calls'[t] = calls[t]
  BY <1>1, <1>3, <1>4, OneSlot
<1>6. CallOk(calls[s])'
  BY <1>3, <1>5 DEF CallOk, AnswerIsWhole
<1>7. /\ query' \in QueryPages /\ query'.busy /\ query'.selected = {}
      /\ query'.result = query.result /\ query'.lived = query.lived
      /\ query'.tooling = query.tooling
  BY <1>1 DEF RunQuery, Cleared, QueryPages
<1>8. QueryPageInv'
  BY <1>7 DEF DataInv, QueryPageInv, Rows, RunQuery, OnQuery
<1>9. QED
  BY <1>3, <1>4, <1>5, <1>6, <1>7, <1>8, PageSends DEF RunQuery

\* A deletion is sent with the ids that were confirmed, each still to do.
LEMMA DeleteKeeps == ASSUME DataInv, DeleteRecords PROVE DataInv'
<1>1. TypeOK /\ query \in QueryPages /\ soql \in Objects /\ org \in Orgs
  BY DEF DataInv, TypeOK
<1> DEFINE from == [org |-> query.result.org, tooling |-> query.result.tooling,
                    rows |-> Rows, ticked |-> query.ticked, lived |-> query.lived]
           c == [kind |-> "delete", stage |-> "direct", listening |-> TRUE, org |-> org,
                 tooling |-> query.tooling, object |-> soql, ids |-> query.selected,
                 confirmation |-> query.typed, todo |-> None,
                 deleted |-> {}, failed |-> {}, unclear |-> {}, erased |-> {}, from |-> from]
<1>2. PICK s \in Slots : Send(s, c)
  BY DEF DeleteRecords
<1>3. query.result \in Results /\ query.result # None
  BY <1>1 DEF DeleteRecords, DataInv, QueryPageInv, QueryPages
<1>4. query.typed = [n |-> Cardinality(query.selected), object |-> soql]
      /\ query.typed \in [n : Nat, object : Objects]
  BY <1>1, FS_Subset, FS_CardinalityType, DataAssumption DEF DeleteRecords, Phrase, QueryPages
<1>5. from \in [org : Orgs, tooling : BOOLEAN, rows : SUBSET Ids, ticked : BOOLEAN, lived : BOOLEAN]
  BY <1>1, <1>3, RowsAreIds DEF QueryPages, Results
<1>6. c \in DeleteCalls
  BY <1>1, <1>4, <1>5 DEF DeleteCalls, QueryPages, Stages
<1>7. c.kind = "delete" /\ c.org = org /\ c.tooling = query.tooling
  OBVIOUS
<1>8. SentAsMeant(c)
  BY <1>3, <1>4 DEF SentAsMeant, DataInv, QueryPageInv
<1>9. IdsAccounted(c) /\ c.erased = {}
  BY DEF IdsAccounted
<1>10. Put(s, c) /\ spent' \in 0 .. MaxEvents
  BY <1>1, <1>2, SpendType DEF Send
<1> HIDE DEF c, from
<1>11. calls' \in [Slots -> CallType] /\ calls'[s] = c /\ \A t \in Slots \ {s} : calls'[t] = calls[t]
  BY <1>1, <1>6, <1>10, OneSlot DEF CallType
<1>12. CallOk(calls[s])'
  BY <1>7, <1>8, <1>9, <1>11 DEF CallOk, DeletionOk
<1>13. /\ query' \in QueryPages /\ query'.busy /\ query'.selected = query.selected
       /\ query'.result = query.result /\ query'.lived = query.lived
       /\ query'.tooling = query.tooling /\ query'.ticked = query.ticked
  BY <1>1 DEF DeleteRecords, QueryPages
<1>14. QueryPageInv'
  BY <1>13 DEF DataInv, QueryPageInv, Rows, DeleteRecords, OnQuery
<1>15. QED
  BY <1>3, <1>7, <1>10, <1>11, <1>12, <1>13, <1>14, PageSends DEF DeleteRecords

-----------------------------------------------------------------------------
(* The steps of the inspector.                                             *)

\* The query page is right, and waits for the same, when only other calls change.
LEMMA PageCallsStay ==
  ASSUME PageCallInv, UNCHANGED <<org, mounted, query>>,
         \A s \in Slots : PageCall(s)' =>
            /\ PageCall(s)
            /\ calls'[s].kind = calls[s].kind /\ calls'[s].org = calls[s].org
            /\ calls'[s].tooling = calls[s].tooling
  PROVE  PageCallInv'
BY DEF PageCallInv

\* A step of the inspector: its own part and the calls it fills are left to show.
LEMMA InspectorStep ==
  ASSUME DataInv, OnInspector, insp' \in Inspectors, insp'.lived = insp.lived, InspectorInv',
         calls' \in [Slots -> CallType], spent' \in 0 .. MaxEvents,
         \A s \in Slots : \/ calls'[s] = calls[s]
                          \/ calls'[s].kind \in {"record", "save"} /\ CallOk(calls[s])'
  PROVE  DataInv'
<1>1. TypeOK'
  BY DEF DataInv, TypeOK, OnInspector, CallType
<1>2. OrgsOnlyLose
  BY NothingLost DEF DataInv, OnInspector
<1>3. QueryPageInv'
  BY <1>2, QueryPageStays DEF DataInv, OnInspector
<1>4. PageCallInv'
  BY PageCallsStay DEF DataInv, OnInspector, PageCall
<1>5. CallInv'
  <2> SUFFICES ASSUME NEW s \in Slots PROVE CallOk(calls[s])'
    BY DEF CallInv
  <2>1. CASE calls'[s] = calls[s]
    BY <1>2, <2>1, CallStays DEF OnInspector
  <2>2. QED
    BY <2>1
<1>6. QED
  BY <1>1, <1>3, <1>4, <1>5 DEF DataInv

\* Typing in the inspector marks what differs from the record.
LEMMA InspectorReads ==
  ASSUME DataInv, RetypeInputs \/ DescribeLoads \/ EditRecord \/ CancelEdit \/ EditField
  PROVE  DataInv'
<1>1. /\ insp \in Inspectors /\ calls \in [Slots -> CallType] /\ spent \in 0 .. MaxEvents
      /\ InspectorInv
  BY DEF DataInv, TypeOK, CallType
<1>2. calls' = calls /\ spent' = spent /\ OnInspector
  BY DEF RetypeInputs, DescribeLoads, EditRecord, CancelEdit, EditField
<1>3. CASE RetypeInputs
  <2>1. PICK o \in Objects, r \in Ids : insp' = [insp EXCEPT !.object = o, !.id = r]
    BY <1>3 DEF RetypeInputs
  <2>2. insp' \in Inspectors /\ insp'.lived = insp.lived /\ InspectorInv'
    BY <1>1, <1>3, <2>1 DEF RetypeInputs, OnInspector, Inspectors, InspectorInv
  <2>3. QED
    BY <1>1, <1>2, <2>2, InspectorStep
<1>4. CASE DescribeLoads
  <2>1. insp' \in Inspectors /\ insp'.lived = insp.lived /\ InspectorInv'
    BY <1>1, <1>4 DEF DescribeLoads, OnInspector, Inspectors, InspectorInv
  <2>2. QED
    BY <1>1, <1>2, <2>1, InspectorStep
<1>5. CASE EditRecord
  <2>1. insp' \in Inspectors /\ insp'.lived = insp.lived /\ InspectorInv'
    BY <1>1, <1>5 DEF EditRecord, OnInspector, Inspectors, InspectorInv
  <2>2. QED
    BY <1>1, <1>2, <2>1, InspectorStep
<1>6. CASE CancelEdit
  <2>1. insp' \in Inspectors /\ insp'.lived = insp.lived /\ InspectorInv'
    BY <1>1, <1>6 DEF CancelEdit, Cancelled, OnInspector, Inspectors, InspectorInv
  <2>2. QED
    BY <1>1, <1>2, <2>1, InspectorStep
<1>7. CASE EditField
  <2>0. PICK f \in Fields : \E v \in {"mine", insp.record[f]} :
          insp' = [insp EXCEPT !.draft[f] = v, !.typed = @ \union {f}]
    BY <1>7 DEF EditField
  <2>1. PICK v \in {"mine", insp.record[f]} :
          insp' = [insp EXCEPT !.draft[f] = v, !.typed = @ \union {f}]
    BY <2>0
  <2>2. insp.editing /\ insp.record \in Records /\ insp.draft \in Records /\ mounted' = "inspector"
        /\ insp.record # None
    BY <1>1, <1>7 DEF EditField, OnInspector, InspectorInv, Inspectors
  <2>3. v \in {"old", "theirs", "mine"}
    BY <2>1, <2>2 DEF Records
  <2>4. [insp.draft EXCEPT ![f] = v] \in Records
    BY <2>2, <2>3 DEF Records
  <2>5. insp' \in Inspectors /\ insp'.lived = insp.lived /\ insp'.record = insp.record
        /\ insp'.loadedFor = insp.loadedFor /\ insp'.editing /\ insp'.typed = insp.typed \union {f}
        /\ insp'.draft = [insp.draft EXCEPT ![f] = v] /\ insp'.astray = insp.astray
        /\ insp'.object = insp.object /\ insp'.id = insp.id
    BY <1>1, <2>1, <2>2, <2>4 DEF Inspectors
  <2>6. \A g \in Fields : insp'.draft[g] # insp'.record[g] => insp'.editing /\ g \in insp'.typed
    <3> SUFFICES ASSUME NEW g \in Fields, insp'.draft[g] # insp'.record[g] PROVE g \in insp'.typed
      BY <2>5
    <3>1. CASE g = f
      BY <2>5, <3>1
    <3>2. CASE g # f
      BY <1>1, <2>2, <2>5, <3>2 DEF InspectorInv, Records
    <3>3. QED
      BY <3>1, <3>2
  <2>7. InspectorInv'
    BY <1>1, <1>2, <2>2, <2>4, <2>5, <2>6 DEF InspectorInv, OnInspector
  <2>8. QED
    BY <1>1, <1>2, <2>5, <2>7, InspectorStep
<1>8. QED
  BY <1>3, <1>4, <1>5, <1>6, <1>7

\* A read of a record is a call, and the inspector listens to it.
LEMMA ReadType ==
  ASSUME NEW o \in Orgs, NEW object \in Objects, NEW id \in Ids
  PROVE  /\ Read(o, object, id) \in ReadCalls
         /\ Read(o, object, id).kind = "record" /\ Read(o, object, id).stage = "direct"
         /\ Read(o, object, id).org = o /\ Read(o, object, id).listening
BY DEF Read, ReadCalls, Stages

\* The inspector reads a record of its own org.
LEMMA InspectKeeps == ASSUME DataInv, Inspect PROVE DataInv'
<1>1. TypeOK /\ org \in Orgs /\ insp \in Inspectors /\ insp.object \in Objects /\ insp.id \in Ids
  BY DEF DataInv, TypeOK, Inspectors
<1>2. PICK s \in Slots : Send(s, Read(org, insp.object, insp.id))
  BY DEF Inspect
<1> DEFINE c == Read(org, insp.object, insp.id)
<1>3. c \in CallType /\ c.kind = "record" /\ c.stage = "direct" /\ c.org = org
  BY <1>1, ReadType DEF CallType
<1>4. Put(s, c) /\ spent' \in 0 .. MaxEvents
  BY <1>1, <1>2, SpendType DEF Send
<1> HIDE DEF c
<1>5. calls' \in [Slots -> CallType] /\ calls'[s] = c /\ \A t \in Slots \ {s} : calls'[t] = calls[t]
  BY <1>1, <1>3, <1>4, OneSlot
<1>6. OnInspector /\ mounted' = "inspector" /\ org' = org
  BY DEF Inspect, OnInspector
<1>7. CallOk(calls[s])'
  BY <1>3, <1>5, <1>6 DEF CallOk, HeardByInspector
<1>8. insp' \in Inspectors /\ insp'.lived = insp.lived /\ InspectorInv'
  BY <1>1 DEF Inspect, OnInspector, Inspectors, InspectorInv, DataInv
<1>9. QED
  BY <1>3, <1>4, <1>5, <1>6, <1>7, <1>8, InspectorStep

\* A save carries what was typed, to the record it was typed over.
LEMMA SaveKeeps == ASSUME DataInv, SaveRecord PROVE DataInv'
<1>1. /\ TypeOK /\ InspectorInv /\ org \in Orgs /\ insp \in Inspectors
      /\ insp.object \in Objects /\ insp.id \in Ids
  BY DEF DataInv, TypeOK, Inspectors
<1> DEFINE from == [loaded |-> insp.loadedFor, typed |-> insp.typed,
                    astray |-> insp.astray, lived |-> insp.lived]
           c == [kind |-> "save", stage |-> "direct", listening |-> TRUE, org |-> org,
                 object |-> insp.object, id |-> insp.id, changes |-> Changes, from |-> from]
           S == {f \in Fields : insp.described /\ insp.draft[f] # insp.record[f]}
<1>2. PICK s \in Slots : Send(s, c)
  BY DEF SaveRecord
<1>3. insp.loadedFor \in Loaded /\ insp.draft \in Records /\ insp.record # None
      /\ (insp.loadedFor.org = org \/ insp.lived)
  BY <1>1 DEF SaveRecord, InspectorInv
<1>4. S \subseteq insp.typed /\ S \in SUBSET Fields
  BY <1>1, <1>3 DEF InspectorInv
<1>5. Changes = [f \in S |-> insp.draft[f]]
  BY DEF Changes, Restrict
<1>6. Changes \in [S -> {"old", "theirs", "mine"}] /\ DOMAIN Changes = S
  BY <1>3, <1>4, <1>5 DEF Records
<1>7. Changes \in UNION {[T -> {"old", "theirs", "mine"}] : T \in SUBSET Fields}
  BY <1>4, <1>6, Zenon
<1>8. from \in [loaded : Loaded, typed : SUBSET Fields, astray : BOOLEAN, lived : BOOLEAN]
  BY <1>1, <1>3 DEF Inspectors
<1> HIDE DEF S
<1>9. c \in SaveCalls
  BY <1>1, <1>7, <1>8 DEF SaveCalls, Stages
<1>10. SaveOk(c)
  BY <1>1, <1>3, <1>4, <1>6 DEF SaveOk, InspectorInv, SaveRecord
<1>11. c.kind = "save" /\ c.org = org
  OBVIOUS
<1>12. Put(s, c) /\ spent' \in 0 .. MaxEvents
  BY <1>1, <1>2, SpendType DEF Send
<1> HIDE DEF c, from
<1>13. calls' \in [Slots -> CallType] /\ calls'[s] = c /\ \A t \in Slots \ {s} : calls'[t] = calls[t]
  BY <1>1, <1>9, <1>12, OneSlot DEF CallType
<1>14. OnInspector /\ mounted' = "inspector" /\ org' = org
  BY DEF SaveRecord, OnInspector
<1>15. CallOk(calls[s])'
  BY <1>10, <1>11, <1>13, <1>14 DEF CallOk, HeardByInspector
<1>16. insp' \in Inspectors /\ insp'.lived = insp.lived /\ InspectorInv'
  BY <1>1 DEF SaveRecord, OnInspector, Inspectors, InspectorInv, DataInv
<1>17. QED
  BY <1>11, <1>12, <1>13, <1>14, <1>15, <1>16, InspectorStep

-----------------------------------------------------------------------------
(* The org, the navigation and other people.                               *)

\* Another org empties what is shown and marks the calls that outlive the
\* change.
LEMMA SelectKeeps == ASSUME DataInv, SelectOrg PROVE DataInv'
<1>1. /\ TypeOK /\ QueryPageInv /\ PageCallInv /\ InspectorInv /\ CallInv
      /\ query \in QueryPages /\ insp \in Inspectors
  BY DEF DataInv, TypeOK
<1>2. /\ query' = [query EXCEPT !.lived = (mounted = "query")]
      /\ insp' = [insp EXCEPT !.described = FALSE, !.lived = (mounted = "inspector")]
      /\ UNCHANGED <<data, mounted, soql, calls>> /\ org' \in Orgs /\ spent' \in 0 .. MaxEvents
  BY <1>1, SpendType DEF SelectOrg
<1>3. query' \in QueryPages /\ insp' \in Inspectors
  BY <1>1, <1>2 DEF QueryPages, Inspectors
<1>4. TypeOK'
  BY <1>1, <1>2, <1>3 DEF TypeOK
<1>5. QueryPageInv'
  <2>1. CASE mounted = "query"
    BY <1>1, <1>2, <2>1 DEF QueryPageInv, QueryPages, Rows
  <2>2. CASE mounted # "query"
    BY <1>1, <1>2, <2>2 DEF QueryPageInv, QueryPages, Rows
  <2>3. QED
    BY <2>1, <2>2
<1>6. PageCallInv'
  BY <1>1, <1>2 DEF PageCallInv, PageCall, QueryPages
<1>7. InspectorInv'
  BY <1>1, <1>2 DEF InspectorInv, Inspectors
<1>8. CallInv'
  <2> SUFFICES ASSUME NEW s \in Slots PROVE CallOk(calls[s])'
    BY DEF CallInv
  <2>1. CallOk(calls[s])
    BY <1>1 DEF CallInv
  <2>2. HeardByInspector(calls[s]) => HeardByInspector(calls[s])'
    BY <1>1, <1>2 DEF HeardByInspector, Inspectors
  <2>3. DeletionOk(calls[s]) => DeletionOk(calls[s])'
    BY <1>2 DEF DeletionOk, SentAsMeant, IdsAccounted
  <2>4. QED
    BY <1>2, <2>1, <2>2, <2>3 DEF CallOk, AnswerIsWhole, SaveOk
<1>9. QED
  BY <1>4, <1>5, <1>6, <1>7, <1>8 DEF DataInv

\* A call that is no longer listened to is the same call.
LEMMA Unlistened ==
  ASSUME NEW c \in CallType, c # Idle, CallOk(c), UNCHANGED data
  PROVE  /\ [c EXCEPT !.listening = FALSE] \in CallType
         /\ ~[c EXCEPT !.listening = FALSE].listening
         /\ CallOk([c EXCEPT !.listening = FALSE])'
<1> DEFINE d == [c EXCEPT !.listening = FALSE]
<1>1. CASE c.kind = "query"
  <2>1. c \in QueryCalls
    BY <1>1, CallKinds
  <2>2. d \in QueryCalls /\ ~d.listening /\ d.kind = "query"
        /\ d.stage = c.stage /\ d.done = c.done /\ d.got = c.got /\ d.of = c.of
    BY <2>1 DEF QueryCalls
  <2>3. CallOk(d)'
    BY <1>1, <2>2 DEF CallOk, AnswerIsWhole
  <2>4. QED
    BY <2>2, <2>3 DEF CallType
<1>2. CASE c.kind = "delete"
  <2>1. c \in DeleteCalls
    BY <1>2, CallKinds
  <2>2. d \in DeleteCalls /\ ~d.listening /\ d.kind = "delete"
        /\ d.confirmation = c.confirmation /\ d.ids = c.ids /\ d.object = c.object
        /\ d.tooling = c.tooling /\ d.org = c.org /\ d.from = c.from /\ d.todo = c.todo
        /\ d.deleted = c.deleted /\ d.failed = c.failed /\ d.unclear = c.unclear
        /\ d.erased = c.erased
    BY <2>1 DEF DeleteCalls
  <2>3. CallOk(d)'
    BY <1>2, <2>2 DEF CallOk, DeletionOk, SentAsMeant, IdsAccounted
  <2>4. QED
    BY <2>2, <2>3 DEF CallType
<1>3. CASE c.kind = "record"
  <2>1. c \in ReadCalls
    BY <1>3, CallKinds
  <2>2. d \in ReadCalls /\ ~d.listening /\ d.kind = "record"
        /\ d.stage = c.stage /\ d.value = c.value
    BY <2>1 DEF ReadCalls
  <2>3. CallOk(d)'
    BY <1>3, <2>2 DEF CallOk, HeardByInspector
  <2>4. QED
    BY <2>2, <2>3 DEF CallType
<1>4. CASE c.kind = "save"
  <2>1. c \in SaveCalls
    BY <1>4, CallKinds
  <2>2. d \in SaveCalls /\ ~d.listening /\ d.kind = "save"
        /\ d.changes = c.changes /\ d.from = c.from /\ d.object = c.object
        /\ d.id = c.id /\ d.org = c.org
    BY <2>1 DEF SaveCalls
  <2>3. CallOk(d)'
    BY <1>4, <2>2 DEF CallOk, HeardByInspector, SaveOk
  <2>4. QED
    BY <2>2, <2>3 DEF CallType
<1>5. QED
  BY <1>1, <1>2, <1>3, <1>4, CallKinds

\* A page that is left listens to nothing any more.
LEMMA NavigateKeeps == ASSUME DataInv, Navigate PROVE DataInv'
<1>1. TypeOK /\ CallInv /\ soql \in Objects /\ calls \in [Slots -> CallType]
  BY DEF DataInv, TypeOK, CallType
<1>2. /\ query' = EmptyQuery /\ insp' = EmptyInspector(soql)
      /\ UNCHANGED <<org, data, soql>> /\ spent' \in 0 .. MaxEvents
      /\ mounted' \in {"query", "inspector"}
  BY <1>1, SpendType DEF Navigate
<1>3. \A s \in Slots : /\ calls'[s] \in CallType /\ CallOk(calls[s])'
                       /\ calls'[s] = Idle \/ ~calls'[s].listening
  <2> SUFFICES ASSUME NEW s \in Slots
               PROVE  /\ calls'[s] \in CallType /\ CallOk(calls[s])'
                      /\ calls'[s] = Idle \/ ~calls'[s].listening
    OBVIOUS
  <2>1. CASE calls[s] = Idle
    <3>1. calls'[s] = Idle
      BY <2>1 DEF Navigate
    <3>2. QED
      BY <3>1, IdleIsNone
  <2>2. CASE calls[s] # Idle
    <3>1. calls'[s] = [calls[s] EXCEPT !.listening = FALSE]
      BY <2>2 DEF Navigate
    <3>2. calls[s] \in CallType /\ CallOk(calls[s])
      BY <1>1 DEF CallInv
    <3>3. QED
      BY <1>2, <2>2, <3>1, <3>2, Unlistened
  <2>3. QED
    BY <2>1, <2>2
<1>4. calls' \in [Slots -> CallType]
  BY <1>3 DEF Navigate
<1>5. TypeOK'
  BY <1>1, <1>2, <1>4, FreshPages DEF TypeOK, CallType
<1>6. QueryPageInv' /\ InspectorInv'
  BY <1>2 DEF QueryPageInv, InspectorInv, EmptyQuery, EmptyInspector, Rows
<1>7. PageCallInv'
  BY <1>3, IdleIsNone DEF PageCallInv, PageCall
<1>8. QED
  BY <1>3, <1>5, <1>6, <1>7 DEF DataInv, CallInv

\* What others do removes records or changes their versions.
LEMMA OthersLose == ASSUME TypeOK, OthersChange PROVE OrgsOnlyLose
<1>1. PICK o \in Orgs : \E r \in DOMAIN data[o], f \in Fields :
        data' \in {[data EXCEPT ![o][r][f] = "theirs"],
                   [data EXCEPT ![o] = Restrict(@, DOMAIN @ \ {r})]}
  BY DEF OthersChange
<1>2. PICK r \in DOMAIN data[o], f \in Fields :
        data' \in {[data EXCEPT ![o][r][f] = "theirs"],
                   [data EXCEPT ![o] = Restrict(@, DOMAIN @ \ {r})]}
  BY <1>1
<1>3. /\ DOMAIN data = Orgs
      /\ \A p \in Orgs : data[p] \in [DOMAIN data[p] -> Records]
  BY DEF TypeOK
<1>4. CASE data' = [data EXCEPT ![o][r][f] = "theirs"]
  <2>1. data[o][r] \in Records
    BY <1>3
  <2>2. [data[o][r] EXCEPT ![f] = "theirs"] \in Records
    BY <2>1 DEF Records
  <2> DEFINE row == [data[o][r] EXCEPT ![f] = "theirs"]
             table == [data[o] EXCEPT ![r] = row]
  <2>3. table \in [DOMAIN data[o] -> Records]
    BY <1>3, <2>2
  <2>4. data' = [data EXCEPT ![o] = table]
    BY <1>4
  <2>5. DOMAIN data' = Orgs /\ \A p \in Orgs \ {o} : data'[p] = data[p]
    BY <1>3, <2>4
  <2>6. data'[o] = table
    BY <1>3, <2>4
  <2>7. DOMAIN data'[o] = DOMAIN data[o] /\ data'[o] \in [DOMAIN data[o] -> Records]
    BY <2>3, <2>6
  <2>8. QED
    BY <1>3, <2>5, <2>7 DEF OrgsOnlyLose
<1>5. CASE data' = [data EXCEPT ![o] = Restrict(@, DOMAIN @ \ {r})]
  <2>1. DOMAIN data' = Orgs /\ \A p \in Orgs \ {o} : data'[p] = data[p]
    BY <1>3, <1>5
  <2>2. data'[o] = [x \in DOMAIN data[o] \ {r} |-> data[o][x]]
    BY <1>3, <1>5 DEF Restrict
  <2>3. DOMAIN data'[o] = DOMAIN data[o] \ {r} /\ data'[o] \in [DOMAIN data[o] \ {r} -> Records]
    BY <1>3, <2>2
  <2>4. QED
    BY <1>3, <2>1, <2>3 DEF OrgsOnlyLose
<1>6. QED
  BY <1>2, <1>4, <1>5

\* Changes by others make nothing that was reported untrue.
LEMMA OthersKeep == ASSUME DataInv, OthersChange PROVE DataInv'
<1>1. TypeOK /\ OrgsOnlyLose
  BY OthersLose DEF DataInv
<1>2. UNCHANGED <<org, mounted, soql, query, insp, calls>> /\ spent' \in 0 .. MaxEvents
  BY <1>1, SpendType DEF OthersChange
<1>3. TypeOK'
  BY <1>1, <1>2 DEF TypeOK, OrgsOnlyLose
<1>4. QueryPageInv' /\ InspectorInv'
  BY <1>1, <1>2, QueryPageStays, InspectorStays DEF DataInv
<1>5. PageCallInv'
  BY <1>2 DEF DataInv, PageCallInv, PageCall
<1>6. CallInv'
  BY <1>1, <1>2, CallStays DEF CallInv
<1>7. QED
  BY <1>3, <1>4, <1>5, <1>6 DEF DataInv

-----------------------------------------------------------------------------
(* The steps of the routes.                                                *)

\* A route's step: only the call it moves is left to show.
LEMMA RouteStep ==
  ASSUME DataInv, OnServer, OrgsOnlyLose, NEW s \in Slots, NEW c \in CallType, Put(s, c),
         c.kind = calls[s].kind, c.listening = calls[s].listening, c.org = calls[s].org,
         c.kind \in {"query", "delete"} => c.tooling = calls[s].tooling,
         CallOk(calls[s])'
  PROVE  DataInv'
<1>1. calls' \in [Slots -> CallType] /\ calls'[s] = c /\ \A t \in Slots \ {s} : calls'[t] = calls[t]
  BY OneSlot DEF DataInv
<1>2. TypeOK'
  BY <1>1 DEF DataInv, TypeOK, OnServer, OrgsOnlyLose, CallType
<1>3. QueryPageInv' /\ InspectorInv'
  BY QueryPageStays, InspectorStays DEF DataInv, OnServer
<1>4. PageCallInv'
  BY <1>1, PageCallsStay DEF DataInv, OnServer, PageCall
<1>5. CallInv'
  BY <1>1, CallStays DEF CallInv, OnServer
<1>6. QED
  BY <1>2, <1>3, <1>4, <1>5 DEF DataInv

\* The slot that is filled holds what was put there.
LEMMA Lands == ASSUME DataInv, NEW s \in Slots, NEW c, Put(s, c) PROVE calls'[s] = c
BY DEF DataInv, TypeOK, Put

\* A call that only changes its stage stays right, unless it is a query or a read that
\* now answers.
LEMMA Restaged ==
  ASSUME DataInv, OnServer, OrgsOnlyLose, NEW s \in Slots, NEW stage \in Stages,
         Become(s, stage), calls[s].kind # "idle",
         calls[s].kind \in {"query", "record"} => stage # "answer"
  PROVE  DataInv'
<1> DEFINE c == calls[s]
           d == [c EXCEPT !.stage = stage]
<1>1. c \in CallType /\ CallOk(c) /\ Put(s, d)
  BY DEF DataInv, TypeOK, CallType, CallInv, Become
<1>0. calls'[s] = d
  BY <1>1, Lands
<1>2. UNCHANGED <<org, mounted, insp>>
  BY DEF OnServer
<1>3. CASE c.kind = "query"
  <2>1. c \in QueryCalls
    BY <1>1, <1>3, CallKinds
  <2>2. d \in QueryCalls /\ d.kind = c.kind /\ d.listening = c.listening /\ d.org = c.org
        /\ d.tooling = c.tooling /\ d.stage # "answer"
    BY <1>3, <2>1 DEF QueryCalls
  <2>3. CallOk(calls[s])'
    BY <1>0, <1>3, <2>2 DEF CallOk, AnswerIsWhole
  <2>4. QED
    BY <1>1, <2>2, <2>3, RouteStep DEF CallType
<1>4. CASE c.kind = "delete"
  <2>1. c \in DeleteCalls /\ c.org \in Orgs
    BY <1>1, <1>4, CallKinds DEF DeleteCalls
  <2>2. d \in DeleteCalls /\ d.kind = c.kind /\ d.listening = c.listening
        /\ d.confirmation = c.confirmation /\ d.ids = c.ids /\ d.object = c.object
        /\ d.tooling = c.tooling /\ d.org = c.org /\ d.from = c.from /\ d.todo = c.todo
        /\ d.deleted = c.deleted /\ d.failed = c.failed /\ d.unclear = c.unclear
        /\ d.erased = c.erased
    BY <2>1 DEF DeleteCalls
  <2>3. CallOk(calls[s])'
    BY <1>0, <1>1, <1>4, <2>1, <2>2
       DEF CallOk, DeletionOk, SentAsMeant, IdsAccounted, OrgsOnlyLose
  <2>4. QED
    BY <1>1, <2>2, <2>3, RouteStep DEF CallType
<1>5. CASE c.kind = "record"
  <2>1. c \in ReadCalls
    BY <1>1, <1>5, CallKinds
  <2>2. d \in ReadCalls /\ d.kind = c.kind /\ d.listening = c.listening /\ d.org = c.org
        /\ d.stage # "answer"
    BY <1>5, <2>1 DEF ReadCalls
  <2>3. CallOk(calls[s])'
    BY <1>0, <1>1, <1>2, <1>5, <2>2 DEF CallOk, HeardByInspector
  <2>4. QED
    BY <1>1, <1>5, <2>2, <2>3, RouteStep DEF CallType
<1>6. CASE c.kind = "save"
  <2>1. c \in SaveCalls
    BY <1>1, <1>6, CallKinds
  <2>2. d \in SaveCalls /\ d.kind = c.kind /\ d.listening = c.listening
        /\ d.changes = c.changes /\ d.from = c.from /\ d.object = c.object
        /\ d.id = c.id /\ d.org = c.org
    BY <2>1 DEF SaveCalls
  <2>3. CallOk(calls[s])'
    BY <1>0, <1>1, <1>2, <1>6, <2>2 DEF CallOk, HeardByInspector, SaveOk
  <2>4. QED
    BY <1>1, <1>6, <2>2, <2>3, RouteStep DEF CallType
<1>7. QED
  BY <1>1, <1>3, <1>4, <1>5, <1>6, CallKinds

\* A call that gets no answer is made through the CLI, or fails.
LEMMA NoAnswerKeeps == ASSUME DataInv, NEW s \in Slots, NoAnswer(s) PROVE DataInv'
<1>1. OnServer /\ OrgsOnlyLose
  BY NothingLost DEF NoAnswer, DataInv
<1>2. Become(s, "cli") \/ Become(s, "failed")
  BY DEF NoAnswer
<1>3. QED
  BY <1>1, <1>2, Restaged DEF NoAnswer, Stages

\* An update changes one record, the one the save names.
LEMMA UpdateKeeps == ASSUME DataInv, NEW s \in Slots, Update(s) PROVE DataInv'
<1> DEFINE c == calls[s]
<1>1. c \in SaveCalls /\ c.kind = "save" /\ c.org \in Orgs /\ c.id \in DOMAIN data[c.org]
  BY CallKinds DEF Update, At, DataInv, TypeOK, CallType, SaveCalls, Stored
<1>2. PICK S \in SUBSET Fields : c.changes \in [S -> {"old", "theirs", "mine"}]
  BY <1>1 DEF SaveCalls
<1>3. data[c.org] \in [DOMAIN data[c.org] -> Records] /\ DOMAIN data = Orgs
  BY <1>1 DEF DataInv, TypeOK
<1> DEFINE row == [f \in Fields |-> IF f \in DOMAIN c.changes THEN c.changes[f]
                                    ELSE data[c.org][c.id][f]]
<1>4. row \in Records
  BY <1>1, <1>2, <1>3 DEF Records
<1>5. data' = [data EXCEPT ![c.org] = [data[c.org] EXCEPT ![c.id] = row]]
  BY DEF Update
<1>6. OrgsOnlyLose
  <2> HIDE DEF row
  <2>1. [data[c.org] EXCEPT ![c.id] = row] \in [DOMAIN data[c.org] -> Records]
    BY <1>3, <1>4
  <2>2. QED
    BY <1>1, <1>3, <1>5, <2>1 DEF OrgsOnlyLose, DataInv, TypeOK
<1>7. Become(s, "answer") \/ Become(s, "cli") \/ Become(s, "failed")
  BY DEF Update
<1>8. QED
  BY <1>1, <1>6, <1>7, Restaged DEF Update, Stages

\* A deletion whose ids are all accounted for is answered.
LEMMA DeleteEndsKeeps == ASSUME DataInv, NEW s \in Slots, DeleteEnds(s) PROVE DataInv'
BY NothingLost, Restaged DEF DeleteEnds, DataInv, At, Stages

\* A page of results adds to those of the same query; the last one makes them
\* whole.
LEMMA QueryPageKeeps == ASSUME DataInv, NEW s \in Slots, QueryPageArrives(s) PROVE DataInv'
<1> DEFINE c == calls[s]
           of == IF c.of = None THEN Stored(c.org, c.object) ELSE c.of
<1>1. c \in QueryCalls /\ c.kind = "query" /\ OrgsOnlyLose
  BY CallKinds, NothingLost DEF QueryPageArrives, At, DataInv, TypeOK, CallType
<1>2. of \in SUBSET Ids
  BY <1>1 DEF DataInv, TypeOK, QueryCalls, Stored
<1>3. PICK n : Put(s, Paged(c, of, First(of, n)))
  BY DEF QueryPageArrives
<1> DEFINE got == First(of, n)
           d == Paged(c, of, got)
<1>4. got \in SUBSET Ids
  BY <1>2, FirstIsPart
<1>5. Put(s, d) /\ OnServer /\ calls'[s] = d
  BY <1>3, Lands DEF QueryPageArrives
<1> HIDE DEF of, got
<1>6. PICK stage \in Stages, done \in BOOLEAN, pages \in Nat :
        /\ d = [c EXCEPT !.of = of, !.got = got, !.pages = pages, !.done = done, !.stage = stage]
        /\ done => got = of
  <2>1. c.pages + 1 \in Nat /\ (got = of) \in BOOLEAN
    BY <1>1 DEF QueryCalls
  <2>2. \E stage \in Stages :
          d = [c EXCEPT !.of = of, !.got = got, !.pages = c.pages + 1, !.done = (got = of),
                        !.stage = stage]
    BY DEF Paged, Stages
  <2>3. QED
    BY <2>1, <2>2
<1>7. /\ d \in QueryCalls /\ d.kind = c.kind /\ d.listening = c.listening /\ d.org = c.org
      /\ d.tooling = c.tooling /\ d.of = of /\ d.got = got /\ d.done = done
  <2> HIDE DEF d
  <2>1. QED
    BY <1>1, <1>2, <1>4, <1>6 DEF QueryCalls
<1>8. CallOk(calls[s])'
  BY <1>1, <1>2, <1>5, <1>6, <1>7 DEF CallOk, AnswerIsWhole
<1>9. QED
  BY <1>1, <1>5, <1>7, <1>8, RouteStep DEF CallType

\* The CLI answers with the whole result.
LEMMA QueryByCliKeeps == ASSUME DataInv, NEW s \in Slots, QueryByCli(s) PROVE DataInv'
<1> DEFINE c == calls[s]
           of == Stored(c.org, c.object)
           d == [c EXCEPT !.of = of, !.got = of, !.done = TRUE, !.stage = "answer"]
<1>1. c \in QueryCalls /\ c.kind = "query" /\ OrgsOnlyLose
  BY CallKinds, NothingLost DEF QueryByCli, At, DataInv, TypeOK, CallType
<1>2. of \in SUBSET Ids
  BY <1>1 DEF DataInv, TypeOK, QueryCalls, Stored
<1>3. Put(s, d) /\ OnServer
  BY DEF QueryByCli
<1>0. calls'[s] = d
  BY <1>3, Lands
<1> HIDE DEF of
<1>4. /\ d \in QueryCalls /\ d.kind = c.kind /\ d.listening = c.listening /\ d.org = c.org
      /\ d.tooling = c.tooling /\ d.of = of /\ d.got = of
  BY <1>1, <1>2 DEF QueryCalls, Stages
<1>5. CallOk(calls[s])'
  BY <1>0, <1>1, <1>2, <1>4 DEF CallOk, AnswerIsWhole
<1>6. QED
  BY <1>1, <1>3, <1>4, <1>5, RouteStep DEF CallType

\* A record is read as the org has it.
LEMMA RecordReadKeeps == ASSUME DataInv, NEW s \in Slots, RecordRead(s) PROVE DataInv'
<1> DEFINE c == calls[s]
           value == data[c.org][c.id]
           d == [c EXCEPT !.value = value, !.stage = "answer"]
<1>1. c \in ReadCalls /\ c.kind = "record" /\ OrgsOnlyLose /\ CallOk(c)
  BY CallKinds, NothingLost DEF RecordRead, At, DataInv, TypeOK, CallType, CallInv
<1>2. value \in Records
  BY <1>1 DEF DataInv, TypeOK, ReadCalls, Stored, RecordRead
<1>3. Put(s, d) /\ OnServer
  BY DEF RecordRead
<1>0. calls'[s] = d
  BY <1>3, Lands
<1> HIDE DEF value
<1>4. /\ d \in ReadCalls /\ d.kind = c.kind /\ d.listening = c.listening /\ d.org = c.org
      /\ d.value = value
  BY <1>1, <1>2 DEF ReadCalls, Stages
<1>5. CallOk(calls[s])'
  BY <1>0, <1>1, <1>2, <1>3, <1>4 DEF CallOk, HeardByInspector, OnServer
<1>6. QED
  BY <1>1, <1>3, <1>4, <1>5, RouteStep DEF CallType

\* The route cuts the ids or refuses them all, before it deletes any.
LEMMA DeleteArrivesKeeps == ASSUME DataInv, NEW s \in Slots, DeleteArrives(s) PROVE DataInv'
<1> DEFINE c == calls[s]
           recordIds == First(c.ids, MaxRecordIds)
           d == [c EXCEPT !.todo = recordIds]
<1>1. /\ c \in DeleteCalls /\ c.kind = "delete" /\ OrgsOnlyLose /\ CallOk(c)
      /\ OnServer /\ c.todo = None /\ c.ids \in SUBSET Ids /\ c.org \in Orgs
  BY CallKinds, NothingLost DEF DeleteArrives, At, DataInv, TypeOK, CallType, CallInv, DeleteCalls
<1>2. CASE c.confirmation = [n |-> Cardinality(recordIds), object |-> c.object]
  <2>1. Put(s, d)
    BY <1>2 DEF DeleteArrives
  <2>0. calls'[s] = d
    BY <2>1, Lands
  <2>2. c.confirmation = [n |-> Cardinality(c.ids), object |-> c.object]
    BY <1>1 DEF CallOk, DeletionOk, SentAsMeant
  <2>3. recordIds = c.ids
    <3>1. Cardinality(recordIds) = Cardinality(c.ids)
      BY <1>2, <2>2
    <3>2. QED
      BY <1>1, <3>1, CutByCount
  <2> HIDE DEF recordIds
  <2>4. d \in DeleteCalls /\ d.kind = c.kind /\ d.listening = c.listening
        /\ d.confirmation = c.confirmation /\ d.ids = c.ids /\ d.object = c.object
        /\ d.tooling = c.tooling /\ d.org = c.org /\ d.from = c.from /\ d.todo = c.ids
        /\ d.deleted = c.deleted /\ d.failed = c.failed /\ d.unclear = c.unclear
        /\ d.erased = c.erased
    BY <1>1, <2>3 DEF DeleteCalls
  <2>5. CallOk(calls[s])'
    BY <2>0, <1>1, <2>4 DEF CallOk, DeletionOk, SentAsMeant, IdsAccounted, OrgsOnlyLose
  <2>6. QED
    BY <1>1, <2>1, <2>4, <2>5, RouteStep DEF CallType
<1>3. CASE c.confirmation # [n |-> Cardinality(recordIds), object |-> c.object]
  <2>1. Become(s, "failed")
    BY <1>3 DEF DeleteArrives, Become
  <2>2. QED
    BY <1>1, <2>1, Restaged DEF Stages
<1>4. QED
  BY <1>2, <1>3

\* A step of a deletion: where its ids are now is left to show.
LEMMA DeletionMoves ==
  ASSUME DataInv, OnServer, OrgsOnlyLose, NEW s \in Slots, calls[s].kind = "delete",
         NEW d \in DeleteCalls, Put(s, d),
         d.listening = calls[s].listening, d.org = calls[s].org,
         d.tooling = calls[s].tooling, d.object = calls[s].object, d.ids = calls[s].ids,
         d.confirmation = calls[s].confirmation, d.from = calls[s].from,
         IdsAccounted(d), d.erased \cap DOMAIN data'[d.org] = {}
  PROVE  DataInv'
<1>1. calls'[s] = d /\ d.kind = "delete" /\ SentAsMeant(calls[s])
  BY Lands DEF DeleteCalls, DataInv, CallInv, CallOk, DeletionOk
<1>2. CallOk(calls[s])'
  BY <1>1 DEF CallOk, DeletionOk, SentAsMeant
<1>3. QED
  BY <1>1, <1>2, RouteStep DEF CallType

\* One id moves from those to do to those deleted or failed.
LEMMA DeleteOneKeeps == ASSUME DataInv, NEW s \in Slots, DeleteOne(s) PROVE DataInv'
<1> DEFINE c == calls[s]
           same(d) == /\ d \in DeleteCalls /\ d.listening = c.listening /\ d.org = c.org
                      /\ d.tooling = c.tooling /\ d.object = c.object /\ d.ids = c.ids
                      /\ d.confirmation = c.confirmation /\ d.from = c.from
<1>1. /\ c \in DeleteCalls /\ c.kind = "delete" /\ OnServer /\ c.org \in Orgs
      /\ c.todo \in SUBSET Ids /\ c.todo # None
      /\ c.deleted \in SUBSET Ids /\ c.failed \in SUBSET Ids
      /\ c.unclear \in SUBSET Ids /\ c.erased \in SUBSET Ids
  BY CallKinds DEF DeleteOne, At, DataInv, TypeOK, CallType, DeleteCalls
<1>2. PICK id \in c.todo : Attempt(s, id)
  BY FirstIsPart DEF DeleteOne
<1>3. id \in Ids
  BY <1>1
<1>4. IdsAccounted(c) /\ c.erased \cap DOMAIN data[c.org] = {}
  BY <1>1 DEF DataInv, CallInv, CallOk, DeletionOk
<1>5. TypeOK /\ DOMAIN data = Orgs /\ data[c.org] \in [DOMAIN data[c.org] -> Records]
  BY <1>1 DEF DataInv, TypeOK
<1>a. c.todo \ {id} # None
  BY <1>1, NoneAssumption
<1> DEFINE gone == /\ id \in DOMAIN data[c.org]
                   /\ data' = [data EXCEPT ![c.org] = Restrict(@, DOMAIN @ \ {id})]
<1>6. ASSUME gone
      PROVE  OrgsOnlyLose /\ DOMAIN data'[c.org] = DOMAIN data[c.org] \ {id}
  <2>1. \A p \in Orgs \ {c.org} : data'[p] = data[p]
    BY <1>5, <1>6
  <2>2. data'[c.org] = [x \in DOMAIN data[c.org] \ {id} |-> data[c.org][x]]
    BY <1>1, <1>5, <1>6 DEF Restrict
  <2>3. DOMAIN data' = Orgs
    BY <1>5, <1>6
  <2>4. QED
    BY <1>5, <2>1, <2>2, <2>3 DEF OrgsOnlyLose, TypeOK
<1>7. UNCHANGED data => OrgsOnlyLose
  BY <1>5, NothingLost
\* The answer says that the id is gone.
<1>8. CASE gone /\ Put(s, Report([c EXCEPT !.erased = @ \union {id}], id, TRUE))
  <2> DEFINE d == Report([c EXCEPT !.erased = @ \union {id}], id, TRUE)
  <2>1. /\ same(d) /\ d.todo = c.todo \ {id} /\ d.deleted = c.deleted \union {id}
        /\ d.failed = c.failed /\ d.unclear = c.unclear /\ d.erased = c.erased \union {id}
    BY <1>1, <1>3 DEF Report, DeleteCalls, Stages
  <2>2. OrgsOnlyLose /\ DOMAIN data'[c.org] = DOMAIN data[c.org] \ {id} /\ Put(s, d)
    BY <1>6, <1>8
  <2> HIDE DEF d
  <2>3. IdsAccounted(d) /\ d.erased \cap DOMAIN data'[d.org] = {}
    BY <1>1, <1>2, <1>4, <2>1, <2>2, <1>a DEF IdsAccounted
  <2>4. QED
    BY <1>1, <2>1, <2>2, <2>3, DeletionMoves
\* The answer says that it failed, and nothing happened.
<1>9. CASE UNCHANGED data /\ Put(s, Report(c, id, FALSE))
  <2> DEFINE d == Report(c, id, FALSE)
  <2>1. /\ same(d) /\ d.todo = c.todo \ {id} /\ d.deleted = c.deleted
        /\ d.failed = c.failed \union {id} /\ d.unclear = c.unclear /\ d.erased = c.erased
    BY <1>1, <1>3 DEF Report, DeleteCalls, Stages
  <2>2. Put(s, d) /\ OrgsOnlyLose
    BY <1>7, <1>9
  <2> HIDE DEF d
  <2>3. IdsAccounted(d) /\ d.erased \cap DOMAIN data'[d.org] = {}
    BY <1>1, <1>2, <1>4, <1>9, <2>1, <1>a DEF IdsAccounted
  <2>4. QED
    BY <1>1, <2>1, <2>2, <2>3, DeletionMoves
\* The answer is lost: whether or not the id is gone, it is unclear from now on.
<1>10. ASSUME NEW erased \in {c.erased, c.erased \union {id}}, OrgsOnlyLose,
              erased \cap DOMAIN data'[c.org] = {},
              NEW l, l = [c EXCEPT !.unclear = @ \union {id}, !.erased = erased],
              Put(s, IF c.stage = "direct" THEN [l EXCEPT !.stage = "cli"]
                     ELSE Report(l, id, FALSE))
       PROVE  DataInv'
  <2>1. erased \in SUBSET Ids
    BY <1>1, <1>3, <1>10
  <2>2. /\ same(l) /\ l.todo = c.todo /\ l.deleted = c.deleted /\ l.failed = c.failed
        /\ l.unclear = c.unclear \union {id} /\ l.erased = erased
    BY <1>1, <1>3, <1>10, <2>1 DEF DeleteCalls
  <2>3. CASE c.stage = "direct"
    <3> DEFINE d == [l EXCEPT !.stage = "cli"]
    <3>1. /\ same(d) /\ d.todo = c.todo /\ d.deleted = c.deleted /\ d.failed = c.failed
          /\ d.unclear = c.unclear \union {id} /\ d.erased = erased
      BY <2>2 DEF DeleteCalls, Stages
    <3>2. Put(s, d)
      BY <1>10, <2>3
    <3> HIDE DEF d
    <3>3. IdsAccounted(d) /\ d.erased \cap DOMAIN data'[d.org] = {}
      BY <1>1, <1>2, <1>4, <1>10, <3>1, <1>a DEF IdsAccounted
    <3>4. QED
      BY <1>1, <1>10, <3>1, <3>2, <3>3, DeletionMoves
  <2>4. CASE c.stage # "direct"
    <3> DEFINE d == Report(l, id, FALSE)
    <3>1. /\ same(d) /\ d.todo = c.todo \ {id} /\ d.deleted = c.deleted
          /\ d.failed = c.failed \union {id}
          /\ d.unclear = c.unclear \union {id} /\ d.erased = erased
      BY <1>1, <1>3, <2>2 DEF Report, DeleteCalls, Stages
    <3>2. Put(s, d)
      BY <1>10, <2>4
    <3> HIDE DEF d
    <3>3. IdsAccounted(d) /\ d.erased \cap DOMAIN data'[d.org] = {}
      BY <1>1, <1>2, <1>4, <1>10, <3>1, <1>a DEF IdsAccounted
    <3>4. QED
      BY <1>1, <1>10, <3>1, <3>2, <3>3, DeletionMoves
  <2>5. QED
    BY <2>3, <2>4
<1> DEFINE lost == [c EXCEPT !.unclear = @ \union {id}]
           After(l) == IF c.stage = "direct" THEN [l EXCEPT !.stage = "cli"]
                       ELSE Report(l, id, FALSE)
<1>11. CASE gone /\ Put(s, After([lost EXCEPT !.erased = @ \union {id}]))
  <2>1. [lost EXCEPT !.erased = @ \union {id}]
          = [c EXCEPT !.unclear = @ \union {id}, !.erased = c.erased \union {id}]
    BY <1>1 DEF DeleteCalls
  <2>2. OrgsOnlyLose /\ (c.erased \union {id}) \cap DOMAIN data'[c.org] = {}
    BY <1>4, <1>6, <1>11
  <2>3. QED
    BY <1>10, <1>11, <2>1, <2>2
<1>12. CASE UNCHANGED data /\ Put(s, After(lost))
  <2>1. lost = [c EXCEPT !.unclear = @ \union {id}, !.erased = c.erased]
    BY <1>1 DEF DeleteCalls
  <2>2. OrgsOnlyLose /\ c.erased \cap DOMAIN data'[c.org] = {}
    BY <1>4, <1>7, <1>12
  <2>3. QED
    BY <1>10, <1>12, <2>1, <2>2
<1>13. \/ gone /\ Put(s, Report([c EXCEPT !.erased = @ \union {id}], id, TRUE))
       \/ gone /\ Put(s, After([lost EXCEPT !.erased = @ \union {id}]))
       \/ UNCHANGED data /\ Put(s, Report(c, id, FALSE))
       \/ UNCHANGED data /\ Put(s, After(lost))
  BY <1>2 DEF Attempt, Stored
<1>14. QED
  BY <1>8, <1>9, <1>11, <1>12, <1>13

-----------------------------------------------------------------------------
(* The answers.                                                            *)

\* An answer is taken: the other calls stay as they were.
LEMMA AnswerTaken ==
  ASSUME DataInv, UNCHANGED <<org, data, mounted, soql, spent>>, insp'.lived = insp.lived,
         NEW s \in Slots, NEW c \in CallType, Put(s, c), CallOk(calls[s])'
  PROVE  /\ CallInv' /\ calls' \in [Slots -> CallType] /\ calls'[s] = c
         /\ \A t \in Slots \ {s} : calls'[t] = calls[t]
<1>1. calls' \in [Slots -> CallType] /\ calls'[s] = c /\ \A t \in Slots \ {s} : calls'[t] = calls[t]
  BY OneSlot DEF DataInv
<1>2. OrgsOnlyLose
  BY NothingLost DEF DataInv
<1>3. CallInv'
  BY <1>1, <1>2, CallStays DEF CallInv
<1>4. QED
  BY <1>1, <1>3

\* A free slot holds nothing that could be wrong.
LEMMA FreedIsOk == ASSUME DataInv, NEW s \in Slots, Put(s, Idle) PROVE CallOk(calls[s])'
<1>1. calls'[s] = Idle
  BY Lands
<1>2. QED
  BY <1>1, IdleIsNone DEF CallOk

\* An answer that no page waits for only frees its slot.
LEMMA UnheardKeeps == ASSUME DataInv, NEW s \in Slots, Unheard(s) PROVE DataInv'
<1>1. UNCHANGED <<org, data, mounted, soql, spent, query, insp>> /\ Put(s, Idle)
  BY DEF Unheard, Answered
<1>2. /\ CallInv' /\ calls' \in [Slots -> CallType] /\ calls'[s] = Idle
      /\ \A t \in Slots \ {s} : calls'[t] = calls[t]
  BY <1>1, AnswerTaken, FreedIsOk, IdleIsNone
<1>3. TypeOK' /\ OrgsOnlyLose
  BY <1>1, <1>2, NothingLost DEF DataInv, TypeOK, CallType
<1>4. QueryPageInv' /\ InspectorInv'
  BY <1>1, <1>3, QueryPageStays, InspectorStays DEF DataInv
<1>5. PageCallInv'
  BY <1>1, <1>2, IdleIsNone, PageCallsStay DEF DataInv, PageCall
<1>6. QED
  BY <1>2, <1>3, <1>4, <1>5 DEF DataInv

\* The query page takes an answer: afterwards it waits for nothing.
LEMMA PageAnswered ==
  ASSUME DataInv, UNCHANGED <<org, data, mounted, soql, spent, insp>>, NEW s \in Slots,
         PageCall(s), Put(s, Idle), query' \in QueryPages, QueryPageInv'
  PROVE  DataInv'
<1>1. /\ CallInv' /\ calls' \in [Slots -> CallType] /\ calls'[s] = Idle
      /\ \A t \in Slots \ {s} : calls'[t] = calls[t]
  BY AnswerTaken, FreedIsOk, IdleIsNone
<1>2. TypeOK'
  BY <1>1 DEF DataInv, TypeOK, CallType
<1>3. InspectorInv'
  BY InspectorStays DEF DataInv
<1>4. PageCallInv'
  <2>1. \A t \in Slots : ~PageCall(t)'
    BY <1>1, IdleIsNone DEF DataInv, PageCallInv, PageCall
  <2>2. QED
    BY <2>1 DEF PageCallInv
<1>5. QED
  BY <1>1, <1>2, <1>3, <1>4, QueryPageStays DEF DataInv

\* The page shows what was answered to the one call it waits for.
LEMMA QueryAnswersKeeps == ASSUME DataInv, NEW s \in Slots, QueryAnswers(s) PROVE DataInv'
<1> DEFINE c == calls[s]
           result == [rows |-> c.got, read |-> c.got, of |-> c.of, done |-> c.done,
                      org |-> c.org, tooling |-> c.tooling]
<1>1. /\ c \in QueryCalls /\ c.kind = "query" /\ PageCall(s) /\ Put(s, Idle)
      /\ UNCHANGED <<org, data, mounted, soql, spent, insp>>
      /\ query \in QueryPages /\ QueryPageInv
  BY CallKinds DEF QueryAnswers, Answered, At, PageCall, DataInv, TypeOK, CallType
<1>2. c.org = org \/ query.lived
  BY <1>1 DEF DataInv, PageCallInv
<1>3. /\ mounted = "query" /\ c.tooling = query.tooling
      /\ query.selected = {} \/ query.ticked
  BY <1>1 DEF DataInv, PageCallInv
<1>4. CASE Ok(s)
  <2>1. AnswerIsWhole(c) /\ c.stage = "answer"
    BY <1>1, <1>4 DEF DataInv, CallInv, CallOk, Ok
  <2>2. result \in Results /\ result # None
    BY <1>1, <2>1, NoneAssumption DEF Results, QueryCalls, AnswerIsWhole
  <2>3. query' = [query EXCEPT !.busy = FALSE, !.result = result]
    BY <1>4 DEF QueryAnswers
  <2>4. /\ result.done => result.read = result.of
        /\ result.tooling = query.tooling /\ result.org = c.org
        /\ result.rows = result.read
    <3>1. c.done => c.got = c.of
      BY <2>1 DEF AnswerIsWhole
    <3>2. QED
      BY <1>3, <3>1
  <2> HIDE DEF result
  <2>5. /\ query' \in QueryPages /\ query'.result = result /\ query'.selected = query.selected
        /\ query'.ticked = query.ticked /\ query'.lived = query.lived
        /\ query'.tooling = query.tooling
    BY <1>1, <2>2, <2>3 DEF QueryPages
  <2>6. QueryPageInv'
    BY <1>1, <1>2, <1>3, <2>2, <2>4, <2>5 DEF QueryPageInv, Rows
  <2>7. QED
    BY <1>1, <2>5, <2>6, PageAnswered
<1>5. CASE ~Ok(s)
  <2>1. query' = [query EXCEPT !.busy = FALSE]
    BY <1>1, <1>5 DEF QueryAnswers, QueryPages
  <2>2. query' \in QueryPages /\ QueryPageInv'
    BY <1>1, <1>3, <2>1 DEF QueryPageInv, Rows, QueryPages
  <2>3. QED
    BY <1>1, <2>2, PageAnswered
<1>6. QED
  BY <1>4, <1>5

\* Rows leave the table only when their deletion was reported.
LEMMA DeleteAnswersKeeps == ASSUME DataInv, NEW s \in Slots, DeleteAnswers(s) PROVE DataInv'
<1> DEFINE c == calls[s]
<1>1. /\ c \in DeleteCalls /\ c.kind = "delete" /\ PageCall(s) /\ Put(s, Idle)
      /\ UNCHANGED <<org, data, mounted, soql, spent, insp>>
      /\ query \in QueryPages /\ QueryPageInv
  BY CallKinds DEF DeleteAnswers, Answered, At, PageCall, DataInv, TypeOK, CallType
<1>2. /\ mounted = "query" /\ query.result # None
      /\ c.org = org \/ query.lived
  BY <1>1 DEF DataInv, PageCallInv
<1>3. query.result \in Results
  BY <1>1, <1>2 DEF QueryPages
<1>4. CASE Ok(s)
  <2>1. c.deleted \subseteq c.erased /\ c.erased \cap DOMAIN data[c.org] = {}
    BY <1>1 DEF DataInv, CallInv, CallOk, DeletionOk, IdsAccounted
  <2> DEFINE result == [query.result EXCEPT !.rows = @ \ c.deleted]
  <2>2. query' = [query EXCEPT !.busy = FALSE, !.result = result, !.selected = {},
                               !.dialog = FALSE, !.typed = None]
    BY <1>4 DEF DeleteAnswers
  <2>3. /\ result \in Results /\ result.rows = query.result.rows \ c.deleted
        /\ result.read = query.result.read /\ result.of = query.result.of
        /\ result.done = query.result.done /\ result.org = query.result.org
        /\ result.tooling = query.result.tooling
    BY <1>3 DEF Results
  <2> HIDE DEF result
  <2>4. /\ query' \in QueryPages /\ query'.result = result /\ query'.selected = {}
        /\ query'.lived = query.lived /\ query'.tooling = query.tooling
    BY <1>1, <2>2, <2>3 DEF QueryPages
  <2>5. query.lived \/ query.result.org = c.org
    BY <1>1, <1>2 DEF QueryPageInv
  <2>6. query.lived \/ (result.read \ result.rows) \cap DOMAIN data[result.org] = {}
    <3>1. CASE query.lived
      BY <3>1
    <3>2. CASE ~query.lived
      <4>1. (query.result.read \ query.result.rows) \cap DOMAIN data[c.org] = {}
        BY <1>1, <1>2, <2>5, <3>2 DEF QueryPageInv
      <4>2. QED
        BY <2>1, <2>3, <2>5, <3>2, <4>1
    <3>3. QED
      BY <3>1, <3>2
  <2>7. QueryPageInv'
    BY <1>1, <1>2, <2>3, <2>4, <2>6 DEF QueryPageInv, Rows
  <2>8. QED
    BY <1>1, <2>4, <2>7, PageAnswered
<1>5. CASE ~Ok(s)
  <2>1. query' = [query EXCEPT !.busy = FALSE]
    BY <1>1, <1>5 DEF DeleteAnswers
  <2>2. query' \in QueryPages /\ QueryPageInv'
    BY <1>1, <1>2, <2>1 DEF QueryPageInv, Rows, QueryPages
  <2>3. QED
    BY <1>1, <2>2, PageAnswered
<1>6. QED
  BY <1>4, <1>5

\* The inspector takes an answer.
LEMMA InspectorAnswered ==
  ASSUME DataInv, UNCHANGED <<org, data, mounted, soql, spent, query>>, NEW s \in Slots,
         NEW c \in CallType, Put(s, c), c.kind \in {"idle", "record"}, CallOk(calls[s])',
         insp' \in Inspectors, insp'.lived = insp.lived, InspectorInv'
  PROVE  DataInv'
<1>1. /\ CallInv' /\ calls' \in [Slots -> CallType] /\ calls'[s] = c
      /\ \A t \in Slots \ {s} : calls'[t] = calls[t]
  BY AnswerTaken
<1>2. TypeOK' /\ OrgsOnlyLose
  BY <1>1, NothingLost DEF DataInv, TypeOK, CallType
<1>3. QueryPageInv'
  BY <1>2, QueryPageStays DEF DataInv
<1>4. PageCallInv'
  BY <1>1, PageCallsStay DEF DataInv, PageCall
<1>5. QED
  BY <1>1, <1>2, <1>3, <1>4 DEF DataInv

\* The inspector shows the record it asked for.
LEMMA RecordAnswersKeeps == ASSUME DataInv, NEW s \in Slots, RecordAnswers(s) PROVE DataInv'
<1> DEFINE c == calls[s]
<1>1. /\ c \in ReadCalls /\ c.kind = "record" /\ Put(s, Idle) /\ CallOk(c) /\ c.listening
      /\ UNCHANGED <<org, data, mounted, soql, spent, query>>
      /\ insp \in Inspectors /\ InspectorInv
  BY CallKinds DEF RecordAnswers, Answered, At, DataInv, TypeOK, CallType, CallInv
<1>2. mounted = "inspector" /\ (c.org = org \/ insp.lived)
  BY <1>1 DEF CallOk, HeardByInspector
<1>3. CASE Ok(s)
  <2>1. c.value \in Records
    BY <1>1, <1>3 DEF CallOk, Ok
  <2> DEFINE loaded == [object |-> c.object, id |-> c.id, org |-> c.org]
  <2>2. loaded \in Loaded /\ loaded.org = c.org
    BY <1>1 DEF Loaded, ReadCalls
  <2>3. insp' = [insp EXCEPT !.busy = FALSE, !.record = c.value, !.draft = c.value,
                             !.loadedFor = loaded,
                             !.described = @ /\ insp.loadedFor.object = c.object,
                             !.editing = FALSE, !.typed = {}]
    BY <1>3 DEF RecordAnswers
  <2> HIDE DEF loaded
  <2>4. /\ insp' \in Inspectors /\ insp'.lived = insp.lived /\ insp'.record = c.value
        /\ insp'.draft = c.value /\ insp'.loadedFor = loaded /\ insp'.editing = FALSE
    BY <1>1, <2>1, <2>2, <2>3 DEF Inspectors
  <2>5. InspectorInv'
    BY <1>1, <1>2, <2>1, <2>2, <2>4 DEF InspectorInv
  <2>6. QED
    BY <1>1, <2>4, <2>5, IdleIsNone, FreedIsOk, InspectorAnswered
<1>4. CASE ~Ok(s)
  <2>1. insp' \in Inspectors /\ insp'.lived = insp.lived /\ InspectorInv'
    BY <1>1, <1>4 DEF RecordAnswers, Inspectors, InspectorInv
  <2>2. QED
    BY <1>1, <2>1, IdleIsNone, FreedIsOk, InspectorAnswered
<1>5. QED
  BY <1>3, <1>4

\* After a save the drafts that were carried are those of the record.
LEMMA SaveAnswersKeeps == ASSUME DataInv, NEW s \in Slots, SaveAnswers(s) PROVE DataInv'
<1> DEFINE c == calls[s]
<1>1. /\ c \in SaveCalls /\ c.kind = "save" /\ CallOk(c) /\ c.listening
      /\ UNCHANGED <<org, data, mounted, soql, spent, query>>
      /\ insp \in Inspectors /\ InspectorInv
  BY CallKinds DEF SaveAnswers, Answered, At, DataInv, TypeOK, CallType, CallInv
<1>2. mounted = "inspector" /\ (c.org = org \/ insp.lived)
  BY <1>1 DEF CallOk, HeardByInspector
<1>3. CASE Ok(s)
  <2> DEFINE d == Read(c.org, c.object, c.id)
  <2>1. insp' = insp /\ Put(s, d)
    BY <1>3 DEF SaveAnswers
  <2>2. d \in CallType /\ d.kind = "record" /\ d.stage = "direct" /\ d.org = c.org
    BY <1>1, ReadType DEF CallType, SaveCalls
  <2> HIDE DEF d
  <2>3. calls'[s] = d
    BY <2>1, Lands
  <2>4. CallOk(calls[s])'
    BY <1>1, <1>2, <2>1, <2>2, <2>3 DEF CallOk, HeardByInspector
  <2>5. InspectorInv'
    BY <1>1, <2>1, InspectorStays
  <2>6. QED
    BY <1>1, <2>1, <2>2, <2>4, <2>5, InspectorAnswered
<1>4. CASE ~Ok(s)
  <2>1. insp' \in Inspectors /\ insp'.lived = insp.lived /\ InspectorInv' /\ Put(s, Idle)
    BY <1>1, <1>4 DEF SaveAnswers, Inspectors, InspectorInv
  <2>2. QED
    BY <1>1, <2>1, IdleIsNone, FreedIsOk, InspectorAnswered
<1>5. QED
  BY <1>3, <1>4

-----------------------------------------------------------------------------
(* The theorems.                                                           *)

\* Every step of the two pages keeps the invariant.
LEMMA DataSteps == DataInv /\ [Next]_vars => DataInv'
<1> SUFFICES ASSUME DataInv, [Next]_vars PROVE DataInv'
  OBVIOUS
<1>1. CASE EditQuery \/ TurnPage \/ OpenConfirmation \/ Confirmation
  BY <1>1, EditingKeeps
<1>2. CASE ToggleTooling
  BY <1>2, ToggleKeeps
<1>3. CASE RunQuery
  BY <1>3, RunKeeps
<1>4. CASE SelectRow \/ SelectPage
  BY <1>4, TickKeeps DEF SelectRow, SelectPage
<1>5. CASE DeleteRecords
  BY <1>5, DeleteKeeps
<1>6. CASE RetypeInputs \/ DescribeLoads \/ EditRecord \/ CancelEdit \/ EditField
  BY <1>6, InspectorReads
<1>7. CASE Inspect
  BY <1>7, InspectKeeps
<1>8. CASE SaveRecord
  BY <1>8, SaveKeeps
<1>9. CASE SelectOrg
  BY <1>9, SelectKeeps
<1>10. CASE Navigate
  BY <1>10, NavigateKeeps
<1>11. CASE OthersChange
  BY <1>11, OthersKeep
<1>12. ASSUME NEW s \in Slots,
              \/ NoAnswer(s) \/ QueryPageArrives(s) \/ QueryByCli(s) \/ RecordRead(s)
              \/ Update(s) \/ DeleteArrives(s) \/ DeleteOne(s) \/ DeleteEnds(s)
       PROVE  DataInv'
  BY <1>12, NoAnswerKeeps, QueryPageKeeps, QueryByCliKeeps, RecordReadKeeps, UpdateKeeps,
     DeleteArrivesKeeps, DeleteOneKeeps, DeleteEndsKeeps
<1>13. ASSUME NEW s \in Slots,
              \/ Unheard(s) \/ QueryAnswers(s) \/ DeleteAnswers(s) \/ RecordAnswers(s)
              \/ SaveAnswers(s)
       PROVE  DataInv'
  BY <1>13, UnheardKeeps, QueryAnswersKeeps, DeleteAnswersKeeps, RecordAnswersKeeps,
     SaveAnswersKeeps
<1>14. CASE UNCHANGED vars
  BY <1>14, IdleIsNone, NothingLost, QueryPageStays, InspectorStays, PageCallsStay
     DEF vars, DataInv, TypeOK, PageCall, CallInv, CallOk, HeardByInspector, AnswerIsWhole,
         SaveOk, DeletionOk, SentAsMeant, IdsAccounted
<1>15. QED
  BY <1>1, <1>2, <1>3, <1>4, <1>5, <1>6, <1>7, <1>8, <1>9, <1>10, <1>11, <1>12, <1>13, <1>14
     DEF Next

\* In every reachable state of the two pages and their routes (QueryPage.tsx,
\* InspectorPage.tsx, routes/data.ts) the page waits for at most one request, whose mode and
\* org are its own; every id of a deletion is waiting, reported as deleted or reported as
\* failed; and a draft differs from its record only where the user typed.
THEOREM DataInvariance == Spec => []DataInv
BY DataStarts, DataSteps, PTL DEF Spec

\* A result the query route answers as done holds every row the org had for it, whichever
\* path answered and at whichever limit the paging stopped, and a shown result was read in
\* the mode the page is in (routes/data.ts, sf/api.ts query(), QueryPage.tsx).
THEOREM ShownResultsAreWhole == Spec => []ResultsAreWhole
<1>1. DataInv => ResultsAreWhole
  BY DEF DataInv, ResultsAreWhole, CallInv, CallOk, AnswerIsWhole, At, QueryPageInv
<1>2. QED
  BY <1>1, DataInvariance, PTL

\* A deletion goes to the org and in the mode its rows were read in, for rows the table
\* showed, and the server attempts all of the confirmed ids or none; a save names only what
\* was typed and goes to the record the draft was loaded from.  The exceptions the property
\* names are the code's own (QueryPage.tsx deleteRecords(), InspectorPage.tsx save()).
THEOREM PagesWriteWhatWasMeant == Spec => []WritesAreMeant
<1>1. DataInv => DeletesAreMeant
  BY DEF DataInv, DeletesAreMeant, CallInv, CallOk, DeletionOk, SentAsMeant, IdsAccounted
<1>2. DataInv => SavesAreMeant
  BY DEF DataInv, SavesAreMeant, CallInv, CallOk, SaveOk
<1>3. QED
  BY <1>1, <1>2, DataInvariance, PTL DEF WritesAreMeant

\* An id is reported as deleted only if its request removed it, and as failed only if it did
\* not or an answer was lost; a row leaves the table only when the org has lost the record,
\* unless the page outlived an org switch (routes/data.ts, QueryPage.tsx deleteRecords()).
THEOREM TableTellsTheOrg == Spec => []RowsTellTheOrg
<1>1. DataInv => RowsTellTheOrg
  BY DEF DataInv, RowsTellTheOrg, CallInv, CallOk, DeletionOk, IdsAccounted, QueryPageInv
<1>2. QED
  BY <1>1, DataInvariance, PTL
=============================================================================
