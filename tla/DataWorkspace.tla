--------------------------- MODULE DataWorkspace ---------------------------
(***************************************************************************)
(* The two pages that read and change records, and the routes they call:   *)
(*   - the query page runs a query, ticks rows and deletes them after a    *)
(*     typed confirmation; the server follows the pages of a long result   *)
(*     up to two limits, and deletes one record at a time;                 *)
(*   - the record inspector loads a record, edits a copy of it and saves   *)
(*     the fields that differ.                                             *)
(* Every direct request may be answered, refused or lost; a lost one is    *)
(* replayed through the CLI.  The user may leave a page, or switch orgs,   *)
(* while a request is in flight: the route finishes, and only a page that  *)
(* is still mounted takes its answer.                                      *)
(***************************************************************************)
EXTENDS Integers, FiniteSets, FiniteSetsExt, Functions, TLC

CONSTANTS
  Orgs,             \* orgs the user switches between; a sandbox keeps the ids
  Objects,          \* API names typed into the two pages
  Ids,              \* record ids, ordered as a query returns them
  ObjectOf,         \* the object each id belongs to
  Fields,           \* the updateable fields of a record
  Slots,            \* places for requests in flight
  MaxEvents,        \* bound: requests sent, org switches, changes of page, others' changes
  RowsPerPage,      \* rows of the result table per page
  MaxRecordIds,     \* ids one delete request may name
  MaxQueryPages,    \* MAX_QUERY_PAGES
  MaxQueryRecords,  \* MAX_QUERY_RECORDS
  None              \* undefined

ASSUME DataAssumption ==
  /\ Ids \subseteq Nat /\ IsFiniteSet(Ids) /\ ObjectOf \in [Ids -> Objects]
  /\ Ids # {} /\ MaxEvents \in Nat
  /\ {RowsPerPage, MaxRecordIds, MaxQueryPages, MaxQueryRecords} \subseteq Nat \ {0}

VARIABLES
  org,      \* the selected org
  data,     \* org -> id -> field -> whose value it holds; a deleted id is absent
  mounted,  \* the page on screen
  soql,     \* the object the query text names (the text is kept in localStorage)
  query,    \* the state of the query page
  insp,     \* the state of the inspector
  calls,    \* slot -> request in flight
  spent     \* how many of the bounded events have happened

vars == <<org, data, mounted, soql, query, insp, calls, spent>>

\* A record, what a page keeps of one, and the result of a query.
Records == [Fields -> {"old", "theirs", "mine"}]
Loaded == [object : Objects, id : Ids, org : Orgs]
Results == [rows : SUBSET Ids, read : SUBSET Ids, of : SUBSET Ids, done : BOOLEAN,
            org : Orgs, tooling : BOOLEAN]

ASSUME NoneAssumption == None \notin Results /\ \A S \in SUBSET Ids : S # None

Idle == [kind |-> "idle"]
First(S, n) == {x \in S : Cardinality({y \in S : y <= x}) <= n}
Stored(o, object) == {r \in DOMAIN data[o] : ObjectOf[r] = object}

\* A page that has just been mounted.  Three fields are not in the code: "lived" says the
\* org changed under the page, "ticked" that rows were ticked while a query ran, "astray"
\* that editing began with other inputs than the record was loaded for.
EmptyQuery == [tooling |-> FALSE, result |-> None, selected |-> {}, dialog |-> FALSE,
               typed |-> None, busy |-> FALSE, page |-> 1, ticked |-> FALSE, lived |-> FALSE]
EmptyInspector(object) ==
  [object |-> object, id |-> CHOOSE id \in Ids : TRUE, record |-> None, loadedFor |-> None,
   draft |-> None, described |-> FALSE, editing |-> FALSE, busy |-> FALSE, typed |-> {},
   astray |-> FALSE, lived |-> FALSE]

Init ==
  /\ org \in Orgs
  /\ data = [o \in Orgs |-> [r \in Ids |-> [f \in Fields |-> "old"]]]
  /\ mounted \in {"query", "inspector"}
  /\ soql = CHOOSE o \in Objects : \E r \in Ids : ObjectOf[r] = o
  /\ query = EmptyQuery
  /\ insp = EmptyInspector(soql)
  /\ calls = [s \in Slots |-> Idle]
  /\ spent = 0

Spend == spent < MaxEvents /\ spent' = spent + 1
Put(s, c) == calls' = [calls EXCEPT ![s] = c]

\* A page sends a request; it is the only way a slot gets filled.
Send(s, c) == calls[s] = Idle /\ Spend /\ Put(s, c)

(***************************************************************************)
(* The query page                                                          *)
(***************************************************************************)
OnQuery == mounted = "query" /\ UNCHANGED <<org, data, mounted, insp>>
Rows == IF query.result = None THEN {} ELSE query.result.rows
Pages == LET n == Cardinality(Rows) IN Max({1, (n + RowsPerPage - 1) \div RowsPerPage})
Visible == First(Rows, query.page * RowsPerPage) \ First(Rows, (query.page - 1) * RowsPerPage)
Phrase == [n |-> Cardinality(query.selected), object |-> soql]

\* The text can be edited at any time, also while its query runs.
EditQuery ==
  /\ OnQuery /\ ~query.dialog /\ soql' \in Objects \ {soql}
  /\ UNCHANGED <<query, calls, spent>>

ToggleTooling ==
  /\ OnQuery /\ ~query.dialog /\ ~query.busy
  /\ query' = [query EXCEPT !.tooling = ~@, !.result = None, !.selected = {}]
  /\ UNCHANGED <<soql, calls, spent>>

\* Sending without resetting the ticks.
KeepTicks == [query EXCEPT !.busy = TRUE, !.page = 1, !.ticked = FALSE]
Cleared == [query EXCEPT !.busy = TRUE, !.selected = {}, !.page = 1, !.ticked = FALSE]

\* The shortcut runs the query also while the confirmation is open.
RunQuery ==
  /\ OnQuery /\ ~query.busy
  /\ query' = Cleared
  /\ \E s \in Slots :
       Send(s, [kind |-> "query", stage |-> "direct", listening |-> TRUE, org |-> org,
                tooling |-> query.tooling, object |-> soql,
                of |-> None, got |-> {}, pages |-> 0, done |-> TRUE])
  /\ UNCHANGED soql

\* One row's box, or the box of the whole page: it unticks only what is ticked throughout.
\* Neither is disabled while a query runs.
Tick(S) ==
  /\ OnQuery /\ ~query.dialog /\ S # {} /\ S \subseteq Visible
  /\ query' = [query EXCEPT !.selected = IF S \subseteq @ THEN @ \ S ELSE @ \union S,
                            !.ticked = @ \/ query.busy]
  /\ UNCHANGED <<soql, calls, spent>>
SelectRow == \E r \in Visible : Tick({r})
SelectPage == Tick(Visible)

\* The buttons move from the page the footer shows, which it clamps to the last one.
TurnPage ==
  /\ OnQuery /\ ~query.dialog /\ Rows # {}
  /\ LET current == Min({query.page, Pages}) IN
       query' \in {[query EXCEPT !.page = p] : p \in {current - 1, current + 1} \cap (1 .. Pages)}
  /\ UNCHANGED <<soql, calls, spent>>

OpenConfirmation ==
  /\ OnQuery /\ ~query.dialog /\ query.selected # {}
  /\ query' = [query EXCEPT !.dialog = TRUE]
  /\ UNCHANGED <<soql, calls, spent>>

\* Closing keeps what was typed; typing is done by a user who wants to go on.
Confirmation ==
  /\ OnQuery /\ query.dialog
  /\ \/ query.typed # Phrase /\ query' = [query EXCEPT !.typed = Phrase]
     \/ ~query.busy /\ query' = [query EXCEPT !.dialog = FALSE]
  /\ UNCHANGED <<soql, calls, spent>>

\* from: what the rows were read from, as the page knew it.
DeleteRecords ==
  /\ OnQuery /\ query.dialog /\ query.typed = Phrase /\ ~query.busy /\ query.selected # {}
  /\ query' = [query EXCEPT !.busy = TRUE]
  /\ \E s \in Slots :
       Send(s, [kind |-> "delete", stage |-> "direct", listening |-> TRUE, org |-> org,
                tooling |-> query.tooling, object |-> soql, ids |-> query.selected,
                confirmation |-> query.typed, todo |-> None,
                deleted |-> {}, failed |-> {}, unclear |-> {}, erased |-> {},
                from |-> [org |-> query.result.org, tooling |-> query.result.tooling,
                          rows |-> Rows, ticked |-> query.ticked, lived |-> query.lived]])
  /\ UNCHANGED soql

(***************************************************************************)
(* The inspector                                                           *)
(***************************************************************************)
OnInspector == mounted = "inspector" /\ UNCHANGED <<org, data, mounted, soql, query>>

\* The two inputs are disabled only while the record is edited.
RetypeInputs ==
  /\ OnInspector /\ ~insp.editing
  /\ \E o \in Objects, r \in Ids :
       /\ <<o, r>> # <<insp.object, insp.id>>
       /\ insp' = [insp EXCEPT !.object = o, !.id = r]
  /\ UNCHANGED <<calls, spent>>

Read(o, object, id) ==
  [kind |-> "record", stage |-> "direct", listening |-> TRUE, org |-> o, object |-> object,
   id |-> id, value |-> None]

\* The button is disabled while busy; Enter in the id input is not.
Inspect ==
  /\ OnInspector /\ (~insp.busy \/ ~insp.editing)
  /\ \E s \in Slots : Send(s, Read(org, insp.object, insp.id))
  /\ insp' = [insp EXCEPT !.busy = TRUE]

\* The describe of the loaded object arrives, from the server's cache or from the org.
DescribeLoads ==
  /\ OnInspector /\ insp.loadedFor # None /\ ~insp.described
  /\ insp' = [insp EXCEPT !.described = TRUE]
  /\ UNCHANGED <<calls, spent>>

EditRecord ==
  /\ OnInspector /\ insp.record # None /\ ~insp.editing /\ insp.described
  /\ insp' = [insp EXCEPT !.editing = TRUE, !.typed = {},
        !.astray = <<insp.object, insp.id>> # <<insp.loadedFor.object, insp.loadedFor.id>>]
  /\ UNCHANGED <<calls, spent>>

Cancelled == [insp EXCEPT !.editing = FALSE, !.draft = insp.record, !.typed = {}]
CancelEdit ==
  /\ OnInspector /\ insp.editing
  /\ insp' = Cancelled
  /\ UNCHANGED <<calls, spent>>

EditField ==
  /\ OnInspector /\ insp.editing /\ insp.described
  /\ \E f \in Fields : \E v \in {"mine", insp.record[f]} :
       /\ insp.draft[f] # v
       /\ insp' = [insp EXCEPT !.draft[f] = v, !.typed = @ \union {f}]
  /\ UNCHANGED <<calls, spent>>

\* What save() sends: the draft's fields that differ from the record, to the record the
\* inputs name.
Changes ==
  Restrict(insp.draft, {f \in Fields : insp.described /\ insp.draft[f] # insp.record[f]})
SaveRecord ==
  /\ OnInspector /\ insp.editing /\ ~insp.busy /\ DOMAIN Changes # {}
  /\ insp' = [insp EXCEPT !.busy = TRUE]
  /\ \E s \in Slots :
       Send(s, [kind |-> "save", stage |-> "direct", listening |-> TRUE, org |-> org,
                object |-> insp.object, id |-> insp.id, changes |-> Changes,
                from |-> [loaded |-> insp.loadedFor, typed |-> insp.typed,
                          astray |-> insp.astray, lived |-> insp.lived]])

(***************************************************************************)
(* The org and the user's navigation                                       *)
(***************************************************************************)
\* selectOrg, from the switcher or from the command palette, which opens over a dialog too.
\* It drops the cached resources, so the describe is fetched again; the pages stay mounted.
SelectOrg ==
  /\ Spend
  /\ org' \in Orgs \ {org}
  /\ query' = [query EXCEPT !.lived = mounted = "query"]
  /\ insp' = [insp EXCEPT !.described = FALSE, !.lived = mounted = "inspector"]
  /\ UNCHANGED <<data, mounted, soql, calls>>

\* The other page replaces this one, whose state is gone; what it asked goes on unheard.
Navigate ==
  /\ Spend
  /\ mounted' \in {"query", "inspector"} \ {mounted}
  /\ query' = EmptyQuery
  /\ insp' = EmptyInspector(soql)
  /\ calls' = [s \in Slots |-> IF calls[s] = Idle THEN Idle ELSE [calls[s] EXCEPT !.listening = FALSE]]
  /\ UNCHANGED <<org, data, soql>>

OthersChange ==
  /\ Spend
  /\ \E o \in Orgs : \E r \in DOMAIN data[o], f \in Fields :
       data' \in {[data EXCEPT ![o][r][f] = "theirs"],
                 [data EXCEPT ![o] = Restrict(@, DOMAIN @ \ {r})]}
  /\ UNCHANGED <<org, mounted, soql, query, insp, calls>>

(***************************************************************************)
(* The routes and the org                                                  *)
(***************************************************************************)
OnServer == UNCHANGED <<org, mounted, soql, query, insp, spent>>
At(s, kind, stages) == calls[s].kind = kind /\ calls[s].stage \in stages
Become(s, stage) == Put(s, [calls[s] EXCEPT !.stage = stage])

\* A retryable failure of the direct path sends the request to the CLI; any other failure,
\* and any failure of the CLI, is the answer.
NoAnswer(s) ==
  /\ calls[s].kind \in {"query", "record", "save"} /\ OnServer /\ UNCHANGED data
  /\ \/ calls[s].stage = "direct" /\ Become(s, "cli")
     \/ calls[s].stage \in {"direct", "cli"} /\ Become(s, "failed")

\* Taking the end of the loop for the end of the result.
PagedDone(c, of, got) ==
  LET next == got # of /\ Cardinality(got) < MaxQueryRecords
  IN [c EXCEPT !.of = of, !.got = got, !.pages = @ + 1, !.done = ~next,
               !.stage = IF next /\ c.pages + 1 < MaxQueryPages THEN "direct" ELSE "answer"]

\* One page of a result: the org chooses how many rows it holds.  The loop ends when the
\* result does, or at one of the two limits.
Paged(c, of, got) ==
  LET last == got = of
      next == ~last /\ Cardinality(got) < MaxQueryRecords
  IN [c EXCEPT !.of = of, !.got = got, !.pages = @ + 1, !.done = last,
               !.stage = IF next /\ c.pages + 1 < MaxQueryPages THEN "direct" ELSE "answer"]
QueryPageArrives(s) ==
  LET c == calls[s]
      of == IF c.of = None THEN Stored(c.org, c.object) ELSE c.of
  IN /\ At(s, "query", {"direct"}) /\ OnServer /\ UNCHANGED data
     /\ \E n \in 1 .. Cardinality(Ids) : Put(s, Paged(c, of, First(of, Cardinality(c.got) + n)))
QueryByCli(s) ==
  LET of == Stored(calls[s].org, calls[s].object)
  IN /\ At(s, "query", {"cli"}) /\ OnServer /\ UNCHANGED data
     /\ Put(s, [calls[s] EXCEPT !.of = of, !.got = of, !.done = TRUE, !.stage = "answer"])

RecordRead(s) ==
  LET c == calls[s]
  IN /\ At(s, "record", {"direct", "cli"}) /\ c.id \in Stored(c.org, c.object)
     /\ Put(s, [c EXCEPT !.value = data[c.org][c.id], !.stage = "answer"])
     /\ OnServer /\ UNCHANGED data

\* An update sets the fields it names.  A lost answer of the direct path repeats it.
Update(s) ==
  LET c == calls[s]
  IN /\ At(s, "save", {"direct", "cli"}) /\ c.id \in Stored(c.org, c.object)
     /\ data' = [data EXCEPT ![c.org][c.id] =
                  [f \in Fields |-> IF f \in DOMAIN c.changes THEN c.changes[f] ELSE @[f]]]
     /\ \/ Become(s, "answer")
        \/ Become(s, IF c.stage = "direct" THEN "cli" ELSE "failed")
     /\ OnServer

\* The route cuts the ids first, and then wants a confirmation of exactly that many.
DeleteArrives(s) ==
  LET c == calls[s]
      recordIds == First(c.ids, MaxRecordIds)
  IN /\ At(s, "delete", {"direct"}) /\ c.todo = None /\ OnServer /\ UNCHANGED data
     /\ Put(s, IF c.confirmation = [n |-> Cardinality(recordIds), object |-> c.object]
               THEN [c EXCEPT !.todo = recordIds] ELSE [c EXCEPT !.stage = "failed"])

\* Reporting what was asked, before the answer.
ReportAsked(c, id, done) ==
  [c EXCEPT !.todo = @ \ {id}, !.deleted = @ \union {id}, !.stage = "direct"]

\* How one deletion is reported: as deleted only when a path answered that it was, and as
\* failed when no path did.
Report(c, id, done) ==
  IF done THEN [c EXCEPT !.todo = @ \ {id}, !.deleted = @ \union {id}, !.stage = "direct"]
  ELSE [c EXCEPT !.todo = @ \ {id}, !.failed = @ \union {id}, !.stage = "direct"]

\* One attempt to delete an id.  erased: what this request removed from the org; unclear:
\* the ids one of whose answers was lost.
Attempt(s, id) ==
  LET c == calls[s]
      erasing == id \in Stored(c.org, c.object)
      erased == [c EXCEPT !.erased = @ \union {id}]
      lost == [c EXCEPT !.unclear = @ \union {id}]
      After(d) == IF c.stage = "direct" THEN [d EXCEPT !.stage = "cli"] ELSE Report(d, id, FALSE)
  IN \/ /\ erasing
        /\ data' = [data EXCEPT ![c.org] = Restrict(@, DOMAIN @ \ {id})]
        /\ \/ Put(s, Report(erased, id, TRUE))
           \/ Put(s, After([lost EXCEPT !.erased = @ \union {id}]))
     \/ /\ UNCHANGED data
        /\ \/ Put(s, Report(c, id, FALSE))
           \/ Put(s, After(lost))

\* The ids are deleted one at a time, in order.
DeleteOne(s) ==
  /\ At(s, "delete", {"direct", "cli"}) /\ calls[s].todo # None /\ OnServer
  /\ \E id \in First(calls[s].todo, 1) : Attempt(s, id)

DeleteEnds(s) ==
  /\ At(s, "delete", {"direct"}) /\ calls[s].todo = {}
  /\ Become(s, "answer") /\ OnServer /\ UNCHANGED data

(***************************************************************************)
(* The answers reach the pages                                             *)
(***************************************************************************)
Answered(s, kind) == At(s, kind, {"answer", "failed"}) /\ UNCHANGED <<org, data, mounted, soql, spent>>
Ok(s) == calls[s].stage = "answer"

Unheard(s) ==
  /\ \E kind \in {"query", "delete", "record", "save"} : Answered(s, kind)
  /\ ~calls[s].listening
  /\ Put(s, Idle) /\ UNCHANGED <<query, insp>>

\* The ticked rows are not reset here, but when the query is sent.
QueryAnswers(s) ==
  LET c == calls[s]
  IN /\ Answered(s, "query") /\ c.listening
     /\ query' = [query EXCEPT !.busy = FALSE, !.result = IF ~Ok(s) THEN @ ELSE
                   [rows |-> c.got, read |-> c.got, of |-> c.of, done |-> c.done,
                    org |-> c.org, tooling |-> c.tooling]]
     /\ Put(s, Idle) /\ UNCHANGED insp

\* The rows reported as deleted leave the table; those that failed stay, unticked.
DeleteAnswers(s) ==
  LET c == calls[s]
  IN /\ Answered(s, "delete") /\ c.listening
     /\ query' = IF Ok(s)
                 THEN [query EXCEPT !.busy = FALSE, !.result.rows = @ \ c.deleted, !.selected = {},
                                    !.dialog = FALSE, !.typed = None]
                 ELSE [query EXCEPT !.busy = FALSE]
     /\ Put(s, Idle) /\ UNCHANGED insp

\* The record, its draft and what it was loaded for change together, and editing ends.
RecordAnswers(s) ==
  LET c == calls[s]
  IN /\ Answered(s, "record") /\ c.listening
     /\ insp' = IF ~Ok(s) THEN [insp EXCEPT !.busy = FALSE]
                ELSE [insp EXCEPT !.busy = FALSE, !.record = c.value, !.draft = c.value,
                        !.loadedFor = [object |-> c.object, id |-> c.id, org |-> c.org],
                        !.described = @ /\ insp.loadedFor.object = c.object,
                        !.editing = FALSE, !.typed = {}]
     /\ Put(s, Idle) /\ UNCHANGED query

\* A save that worked loads the record it was sent for, whatever the inputs say by now.
SaveAnswers(s) ==
  LET c == calls[s]
  IN /\ Answered(s, "save") /\ c.listening
     /\ IF Ok(s)
        THEN Put(s, Read(c.org, c.object, c.id)) /\ UNCHANGED insp
        ELSE Put(s, Idle) /\ insp' = [insp EXCEPT !.busy = FALSE]
     /\ UNCHANGED query

Next ==
  \/ EditQuery \/ ToggleTooling \/ RunQuery \/ SelectRow \/ SelectPage \/ TurnPage
  \/ OpenConfirmation \/ Confirmation \/ DeleteRecords
  \/ RetypeInputs \/ Inspect \/ DescribeLoads \/ EditRecord \/ CancelEdit \/ EditField \/ SaveRecord
  \/ SelectOrg \/ Navigate \/ OthersChange
  \/ \E s \in Slots :
       \/ NoAnswer(s) \/ QueryPageArrives(s) \/ QueryByCli(s) \/ RecordRead(s) \/ Update(s)
       \/ DeleteArrives(s) \/ DeleteOne(s) \/ DeleteEnds(s)
       \/ Unheard(s) \/ QueryAnswers(s) \/ DeleteAnswers(s) \/ RecordAnswers(s) \/ SaveAnswers(s)

Spec == Init /\ [][Next]_vars

(***************************************************************************)
(* Properties                                                              *)
(***************************************************************************)
QueryPages ==
  [tooling : BOOLEAN, result : Results \union {None}, selected : SUBSET Ids, dialog : BOOLEAN,
   typed : [n : Nat, object : Objects] \union {None}, busy : BOOLEAN, page : Nat,
   ticked : BOOLEAN, lived : BOOLEAN]
Inspectors ==
  [object : Objects, id : Ids, record : Records \union {None}, loadedFor : Loaded \union {None},
   draft : Records \union {None}, described : BOOLEAN, editing : BOOLEAN, busy : BOOLEAN,
   typed : SUBSET Fields, astray : BOOLEAN, lived : BOOLEAN]

Stages == {"direct", "cli", "answer", "failed"}
QueryCalls ==
  [kind : {"query"}, stage : Stages, listening : BOOLEAN, org : Orgs, tooling : BOOLEAN,
   object : Objects, of : (SUBSET Ids) \union {None}, got : SUBSET Ids, pages : Nat, done : BOOLEAN]
DeleteCalls ==
  [kind : {"delete"}, stage : Stages, listening : BOOLEAN, org : Orgs, tooling : BOOLEAN,
   object : Objects, ids : SUBSET Ids, confirmation : [n : Nat, object : Objects],
   todo : (SUBSET Ids) \union {None}, deleted : SUBSET Ids, failed : SUBSET Ids,
   unclear : SUBSET Ids, erased : SUBSET Ids,
   from : [org : Orgs, tooling : BOOLEAN, rows : SUBSET Ids, ticked : BOOLEAN, lived : BOOLEAN]]
ReadCalls ==
  [kind : {"record"}, stage : Stages, listening : BOOLEAN, org : Orgs, object : Objects,
   id : Ids, value : Records \union {None}]
SaveCalls ==
  [kind : {"save"}, stage : Stages, listening : BOOLEAN, org : Orgs, object : Objects, id : Ids,
   changes : UNION {[S -> {"old", "theirs", "mine"}] : S \in SUBSET Fields},
   from : [loaded : Loaded, typed : SUBSET Fields, astray : BOOLEAN, lived : BOOLEAN]]

TypeOK ==
  /\ org \in Orgs /\ mounted \in {"query", "inspector"} /\ soql \in Objects
  /\ DOMAIN data = Orgs
  /\ \A o \in Orgs : DOMAIN data[o] \subseteq Ids /\ data[o] \in [DOMAIN data[o] -> Records]
  /\ query \in QueryPages /\ insp \in Inspectors
  /\ calls \in [Slots -> {Idle} \union QueryCalls \union DeleteCalls \union ReadCalls
                         \union SaveCalls]
  /\ spent \in 0 .. MaxEvents

\* A result the query route answers as done holds every row the org had for it, whichever
\* path answered and at whichever limit the paging stopped; and the mode a shown result was
\* read in is the mode its deletions will be sent in (routes/data.ts, sf/api.ts query(),
\* QueryPage.tsx's toggle).
ResultsAreWhole ==
  /\ TypeOK
  /\ \A s \in Slots : At(s, "query", {"answer"}) /\ calls[s].done => calls[s].got = calls[s].of
  /\ query.result # None => /\ query.result.done => query.result.read = query.result.of
                            /\ query.result.tooling = query.tooling

\* A deletion is sent in the mode and to the org the rows were read from, and for rows the
\* table showed; the server attempts all of the confirmed ids or none.  The exceptions are
\* the code's own: a page that outlived an org switch, and rows ticked while a query ran.
DeletesAreMeant ==
  \A s \in Slots : calls[s].kind = "delete" =>
    LET c == calls[s]
    IN /\ c.tooling = c.from.tooling
       /\ c.org = c.from.org \/ c.from.lived
       /\ c.ids \subseteq c.from.rows \/ c.from.ticked
       /\ c.todo # None => c.todo \union c.deleted \union c.failed = c.ids

\* A save names only fields typed since this editing began, and goes to the record and the
\* org the draft was loaded from.  The exceptions are the code's own: inputs changed before
\* editing began, and a page that outlived an org switch (InspectorPage.tsx save()).
SavesAreMeant ==
  \A s \in Slots : calls[s].kind = "save" =>
    LET c == calls[s]
    IN /\ DOMAIN c.changes \subseteq c.from.typed
       /\ <<c.object, c.id>> = <<c.from.loaded.object, c.from.loaded.id>> \/ c.from.astray
       /\ c.org = c.from.loaded.org \/ c.from.lived

\* What the pages write is what the user was shown and chose.
WritesAreMeant == DeletesAreMeant /\ SavesAreMeant

\* An id is reported as deleted only if this request removed it, and as failed only if it
\* did not or an answer was lost; and a row leaves the table only when the org has lost the
\* record, unless the page outlived an org switch.
RowsTellTheOrg ==
  /\ \A s \in Slots : calls[s].kind = "delete" =>
       /\ calls[s].deleted \subseteq calls[s].erased
       /\ (calls[s].failed \ calls[s].unclear) \cap calls[s].erased = {}
  /\ query.result # None =>
       \/ query.lived
       \/ (query.result.read \ query.result.rows) \cap DOMAIN data[query.result.org] = {}
=============================================================================
