--------------------------- MODULE FastPath_proofs ---------------------------
(***************************************************************************)
(* Theorems about the token table of AuthProvider and about the requests   *)
(* of FastPath that spend its tokens, for any set of requests, any number  *)
(* of acquisitions at once, of sessions and of drops.                      *)
(***************************************************************************)
EXTENDS FastPath, TLAPS

\* DisplayBudget is kept because an entry that holds nothing, the only one from
\* which an acquisition starts, has been paid for by a drop.
EmptyIsPaidFor == entry = Empty => starts <= drops

TableInv == AuthTypeOK /\ NobodyStranded /\ EmptyIsPaidFor /\ DisplayBudget

-----------------------------------------------------------------------------
(* The entries an operation may store.                                     *)

\* Each value stored in the table is an entry, and only Empty looks empty.
LEMMA EntryValues ==
  /\ Empty \in Entry
  /\ \A a \in Acqs : Park(a) \in Entry /\ Park(a) # Empty /\ Park(a).busy = a
  /\ \A s \in Sessions : Holding(s) \in Entry /\ Holding(s) # Empty /\ Holding(s).busy = 0
  /\ Cooling \in Entry /\ Cooling # Empty /\ Cooling.busy = 0
<1>1. 0 \in 0 .. MaxSession /\ \A s \in Sessions : s \in 0 .. MaxSession /\ s # 0
  BY AuthBounds DEF Sessions
<1>2. \A a \in Acqs : a # 0
  BY AcqsAssumption
<1>3. Empty \in Entry /\ Cooling \in Entry /\ Cooling # Empty /\ Cooling.busy = 0
  BY <1>1 DEF Empty, Cooling, Entry
<1>4. \A a \in Acqs : Park(a) \in Entry /\ Park(a) # Empty /\ Park(a).busy = a
  BY <1>1, <1>2 DEF Park, Empty, Entry
<1>5. \A s \in Sessions : Holding(s) \in Entry /\ Holding(s) # Empty /\ Holding(s).busy = 0
  BY <1>1 DEF Holding, Empty, Entry
<1>6. QED
  BY <1>3, <1>4, <1>5

\* An entry without a token, an acquisition or a cooldown is the empty one.
LEMMA OnlyEmptyStarts ==
  ASSUME entry \in Entry, entry.tok = 0, entry.busy = 0, ~entry.cool
  PROVE  entry = Empty
<1>1. entry.cool = FALSE
  BY DEF Entry
<1>2. QED
  BY <1>1 DEF Entry, Empty

\* Every acquisition that resolves answers with no token or with a session's.
LEMMA ResolveType ==
  ASSUME AuthTypeOK, NEW a \in Acqs, NEW tok \in Sessions \cup {0}, Resolve(a, tok)
  PROVE  /\ acq' \in [Acqs -> Free .. MaxSession]
         /\ on' \in [Reqs -> Acqs \cup {0}]
         /\ given' \in [Reqs -> NotAsked .. MaxSession]
         /\ \A c \in Reqs : given'[c] = Waiting => given[c] = Waiting /\ on[c] # a /\ on'[c] = on[c]
         /\ \A b \in Acqs : b # a => acq'[b] = acq[b]
<1>1. /\ Free \in Free .. MaxSession
      /\ tok \in NotAsked .. MaxSession
      /\ tok # Waiting
  BY AuthBounds DEF Free, NotAsked, Waiting, Sessions
<1>2. QED
  BY <1>1 DEF Resolve, AuthTypeOK

-----------------------------------------------------------------------------
(* The invariant, action by action.                                        *)

\* The table starts empty, with nothing started and nobody waiting.
LEMMA TableStarts == AuthInit => TableInv
<1> SUFFICES ASSUME AuthInit PROVE TableInv
  OBVIOUS
<1>1. AuthTypeOK
  <2>1. /\ Free \in Free .. MaxSession
        /\ NotAsked \in NotAsked .. MaxSession
        /\ 1 \in Sessions
    BY AuthBounds DEF Free, NotAsked, Sessions
  <2>2. QED
    BY <2>1, EntryValues DEF AuthInit, AuthTypeOK
<1>2. NobodyStranded
  BY DEF AuthInit, NobodyStranded, NotAsked, Waiting, Empty
<1>3. EmptyIsPaidFor /\ DisplayBudget
  BY DEF AuthInit, EmptyIsPaidFor, DisplayBudget
<1>4. QED
  BY <1>1, <1>2, <1>3 DEF TableInv

\* auth() returns, joins or starts.
LEMMA AuthInv ==
  ASSUME TableInv, NEW c \in Reqs, Auth(c)
  PROVE  TableInv'
<1> USE DEF TableInv
<1>1. CASE \E tok \in 0 .. MaxSession : Return(c, tok)
  <2>1. PICK tok \in 0 .. MaxSession : Return(c, tok)
    BY <1>1
  <2>2. AuthTypeOK'
    BY <2>1 DEF Auth, Return, AuthTypeOK, NotAsked
  <2>3. NobodyStranded'
    BY <2>1 DEF Return, NobodyStranded, AuthTypeOK, Waiting
  <2>4. EmptyIsPaidFor' /\ DisplayBudget'
    BY <2>1 DEF Auth, Return, EmptyIsPaidFor, DisplayBudget
  <2>5. QED
    BY <2>2, <2>3, <2>4
<1>2. CASE /\ entry.busy # 0
           /\ given' = [given EXCEPT ![c] = Waiting]
           /\ on' = [on EXCEPT ![c] = entry.busy]
           /\ UNCHANGED <<entry, acq, starts>>
  <2>1. entry.busy \in Acqs
    BY <1>2 DEF AuthTypeOK, Entry
  <2>2. AuthTypeOK'
    BY <1>2, <2>1, AuthBounds DEF Auth, AuthTypeOK, NotAsked, Waiting
  <2>3. NobodyStranded'
    BY <1>2, <2>1 DEF NobodyStranded, AuthTypeOK
  <2>4. EmptyIsPaidFor' /\ DisplayBudget'
    BY <1>2 DEF Auth, EmptyIsPaidFor, DisplayBudget
  <2>5. QED
    BY <2>2, <2>3, <2>4
<1>3. ASSUME entry.tok = 0, entry.busy = 0, ~entry.cool, NEW a \in Acqs, Start(c, a)
      PROVE  TableInv'
  <2>1. entry = Empty
    BY <1>3, OnlyEmptyStarts DEF AuthTypeOK
  <2>2. AuthTypeOK'
    BY <1>3, EntryValues, AuthBounds
    DEF Start, Auth, AuthTypeOK, NotAsked, Waiting, Free
  <2>3. NobodyStranded'
    <3>1. acq' = [acq EXCEPT ![a] = 0] /\ acq'[a] # Free /\ a # 0 /\ entry'.busy = a
      BY <1>3, EntryValues, AcqsAssumption DEF Start, AuthTypeOK, Free
    <3>2. \A b \in Acqs : acq[b] # Free => acq'[b] # Free
      BY <3>1 DEF AuthTypeOK
    <3>3. on' = [on EXCEPT ![c] = a] /\ given' = [given EXCEPT ![c] = Waiting]
      BY <1>3 DEF Start
    <3>4. ASSUME NEW d \in Reqs, given'[d] = Waiting
          PROVE  on'[d] # 0 /\ acq'[on'[d]] # Free
      <4>1. CASE d = c
        BY <3>1, <3>3, <4>1 DEF AuthTypeOK
      <4>2. CASE d # c
        BY <3>2, <3>3, <3>4, <4>2 DEF AuthTypeOK, NobodyStranded
      <4>3. QED
        BY <4>1, <4>2
    <3>5. QED
      BY <3>1, <3>4 DEF NobodyStranded
  <2>4. EmptyIsPaidFor' /\ DisplayBudget'
    BY <1>3, <2>1, EntryValues DEF Start, Auth, EmptyIsPaidFor, DisplayBudget, AuthTypeOK, Empty
  <2>5. QED
    BY <2>2, <2>3, <2>4
<1>4. entry.tok \in 0 .. MaxSession /\ 0 \in 0 .. MaxSession
  BY AuthBounds DEF AuthTypeOK, Entry
<1>5. QED
  BY <1>1, <1>2, <1>3, <1>4 DEF Auth

\* `org display` reads, answers or fails.
LEMMA AcqInv ==
  ASSUME TableInv, NEW a \in Acqs, AcqNext(a)
  PROVE  TableInv'
<1> USE DEF TableInv
<1>1. CASE DisplayReads(a)
  <2>1. session \in Free .. MaxSession /\ session # Free
    BY AuthBounds DEF AuthTypeOK, Sessions, Free
  <2>2. AuthTypeOK'
    BY <1>1, <2>1 DEF DisplayReads, AuthTypeOK
  <2>3. NobodyStranded'
    BY <1>1, <2>1 DEF DisplayReads, NobodyStranded, AuthTypeOK, Entry
  <2>4. EmptyIsPaidFor' /\ DisplayBudget'
    BY <1>1 DEF DisplayReads, EmptyIsPaidFor, DisplayBudget
  <2>5. QED
    BY <2>2, <2>3, <2>4
<1>2. CASE AcquireOk(a)
  <2>1. acq[a] \in Sessions /\ Resolve(a, acq[a])
    BY <1>2 DEF AcquireOk
  <2>2. /\ acq' \in [Acqs -> Free .. MaxSession]
        /\ on' \in [Reqs -> Acqs \cup {0}]
        /\ given' \in [Reqs -> NotAsked .. MaxSession]
        /\ \A c \in Reqs : given'[c] = Waiting => given[c] = Waiting /\ on[c] # a /\ on'[c] = on[c]
        /\ \A b \in Acqs : b # a => acq'[b] = acq[b]
    BY <2>1, ResolveType
  <2>3. entry' \in Entry /\ entry' # Empty /\ entry'.busy = 0
    BY <1>2, <2>1, EntryValues DEF AcquireOk
  <2>5. AuthTypeOK'
    BY <1>2, <2>2, <2>3 DEF AcquireOk, Resolve, AuthTypeOK
  <2>6. NobodyStranded'
    BY <2>2, <2>3 DEF NobodyStranded, AuthTypeOK
  <2>7. EmptyIsPaidFor' /\ DisplayBudget'
    BY <2>1, <2>3 DEF Resolve, EmptyIsPaidFor, DisplayBudget, Empty
  <2>8. QED
    BY <2>5, <2>6, <2>7
<1>3. CASE AcquireFails(a)
  <2>1. Resolve(a, 0)
    BY <1>3 DEF AcquireFails
  <2>2. /\ acq' \in [Acqs -> Free .. MaxSession]
        /\ on' \in [Reqs -> Acqs \cup {0}]
        /\ given' \in [Reqs -> NotAsked .. MaxSession]
        /\ \A c \in Reqs : given'[c] = Waiting => given[c] = Waiting /\ on[c] # a /\ on'[c] = on[c]
        /\ \A b \in Acqs : b # a => acq'[b] = acq[b]
    BY <2>1, ResolveType
  <2>3. entry' \in Entry /\ entry' # Empty /\ entry'.busy = 0
    BY <1>3, EntryValues DEF AcquireFails
  <2>4. secretsOff' \in BOOLEAN
    BY <1>3 DEF AcquireFails, AuthTypeOK
  <2>5. AuthTypeOK'
    BY <1>3, <2>2, <2>3, <2>4 DEF AcquireFails, Resolve, AuthTypeOK
  <2>6. NobodyStranded'
    BY <2>2, <2>3 DEF NobodyStranded, AuthTypeOK
  <2>7. EmptyIsPaidFor' /\ DisplayBudget'
    BY <2>1, <2>3 DEF Resolve, EmptyIsPaidFor, DisplayBudget, Empty
  <2>8. QED
    BY <2>5, <2>6, <2>7
<1>4. QED
  BY <1>1, <1>2, <1>3 DEF AcqNext

\* A drop empties the entry and pays for the next acquisition.
LEMMA DropInv ==
  ASSUME TableInv, Reset \/ Lapse \/ Expire
  PROVE  TableInv'
<1> USE DEF TableInv
<1>1. entry' = Empty /\ drops' = drops + 1 /\ UNCHANGED <<acq, on, session, starts>>
  BY DEF Reset, Lapse, Expire, Drop
<1>2. secretsOff' \in BOOLEAN
  BY DEF Reset, Lapse, Expire, AuthTypeOK
<1>3. /\ given' \in [Reqs -> NotAsked .. MaxSession]
      /\ \A c \in Reqs : given'[c] = Waiting => given[c] = Waiting
  BY AuthBounds DEF Reset, Lapse, Expire, AuthTypeOK, NotAsked, Waiting
<1>4. drops' \in Nat
  BY <1>1 DEF AuthTypeOK
<1>5. AuthTypeOK'
  BY <1>1, <1>2, <1>3, <1>4, EntryValues DEF AuthTypeOK
<1>6. NobodyStranded'
  BY <1>1, <1>3 DEF NobodyStranded, Empty
<1>7. EmptyIsPaidFor' /\ DisplayBudget'
  BY <1>1 DEF EmptyIsPaidFor, DisplayBudget, AuthTypeOK, Empty
<1>8. QED
  BY <1>5, <1>6, <1>7

\* The back-off passes, the session ends, or nothing of this happens.
LEMMA OtherInv ==
  ASSUME TableInv, SecretsLapse \/ SessionEnds \/ UNCHANGED authVars
  PROVE  TableInv'
<1> USE DEF TableInv
<1>1. session' \in Sessions
  BY AuthBounds DEF SecretsLapse, SessionEnds, authVars, AuthTypeOK, Sessions
<1>2. secretsOff' \in BOOLEAN
  BY DEF SecretsLapse, SessionEnds, authVars, AuthTypeOK
<1>3. UNCHANGED <<entry, acq, on, given, starts, drops>>
  BY DEF SecretsLapse, SessionEnds, authVars
<1>4. QED
  BY <1>1, <1>2, <1>3 DEF AuthTypeOK, NobodyStranded, EmptyIsPaidFor, DisplayBudget, Empty

\* Every step of the table keeps the invariant.
LEMMA TableSteps == TableInv /\ [AuthNext]_authVars => TableInv'
BY AuthInv, AcqInv, DropInv, OtherInv DEF AuthNext, Surroundings

\* In every state that the table reaches, an empty entry has been paid for.
THEOREM TableInvariance == AuthSpec => []TableInv
BY TableStarts, TableSteps, PTL DEF AuthSpec

-----------------------------------------------------------------------------
(* What follows from it.                                                   *)

\* Every variable of the table keeps its type: what auth() returns is a session's
\* token or none, and what it parks on is an acquisition.
THEOREM TypeCorrect == AuthSpec => []AuthTypeOK
BY TableInvariance, PTL DEF TableInv

\* No caller of auth() awaits an acquisition that is over, however expire(),
\* reset() and other callers interleave with the one it awaits.
THEOREM EveryWaiterHasAnAcquisition == AuthSpec => []NobodyStranded
BY TableInvariance, PTL DEF TableInv

\* However many callers ask at once, `org display` is started at most once more
\* often than the entry was dropped or lapsed.
THEOREM DropsPayForDisplays == AuthSpec => []DisplayBudget
BY TableInvariance, PTL DEF TableInv
-----------------------------------------------------------------------------
(***************************************************************************)
(* The requests. What the org has done for a request is told by its        *)
(* message and by whether it has been through the CLI:                     *)
(*   - until it is sent, and again after a rejection, nothing is done;     *)
(*   - a request that the org carried out counts once for a write;         *)
(*   - the CLI adds at most one more, and follows a message that can still *)
(*     reach the org only when the answer was lost, and one that reached   *)
(*     it only when the answer was lost or taken for a rejection.          *)
(***************************************************************************)
Over == {"done", "failed"}
Direct(c) == IF write[c] /\ msg[c] \in {"ok", "echoed"} THEN 1 ELSE 0

RequestOk(c) ==
  /\ pc[c] \in {"idle", "auth"} => msg[c] = "none" /\ applied[c] = 0 /\ c \notin lost
  /\ pc[c] = "sent" => given[c] \in Sessions /\ applied[c] = Direct(c) /\ c \notin lost
  /\ pc[c] = "cli" => applied[c] = Direct(c)
                      /\ (c \notin lost => msg[c] \in {"none", "401", "refused", "echoed"})
  /\ pc[c] \in Over =>
       /\ Direct(c) <= applied[c] /\ applied[c] <= Direct(c) + 1
       /\ write[c] /\ ~Unclear(c) => applied[c] <= 1
       /\ write[c] /\ c \notin lost => msg[c] # "travelling"
       /\ ~write[c] => applied[c] = 0
       /\ write[c] /\ pc[c] = "done" => applied[c] >= 1
  /\ why[c] \in {"org", "session"} =>
       msg[c] \in {"refused", "401"} /\ applied[c] = 0 /\ pc[c] = "failed"

RequestTypes ==
  /\ pc \in [Reqs -> PCs]
  /\ proto \in [Reqs -> {"rest", "soap"}]
  /\ write \in [Reqs -> BOOLEAN]
  /\ attempt \in [Reqs -> 0 .. 1]
  /\ msg \in [Reqs -> Messages]
  /\ applied \in [Reqs -> 0 .. 2]
  /\ lost \subseteq Reqs
  /\ gone \subseteq Reqs
  /\ why \in [Reqs -> Reasons]

RequestInv == RequestTypes /\ \A c \in Reqs : RequestOk(c)

\* What a step leaves alone of a request.
Same(c) == /\ pc'[c] = pc[c] /\ write'[c] = write[c] /\ msg'[c] = msg[c]
           /\ applied'[c] = applied[c] /\ why'[c] = why[c] /\ (c \in lost' <=> c \in lost)
           /\ given[c] \in Sessions => given'[c] = given[c]

\* A request of which nothing changed is as it should be.
LEMMA SameOk ==
  ASSUME NEW c \in Reqs, RequestOk(c), Same(c)
  PROVE  RequestOk(c)'
BY DEF Same, RequestOk, Unclear, Direct

\* The variables of the requests, when only request c moves.
Only(c) == \A d \in Reqs \ {c} : Same(d)

\* One request moves to a state it may be in; the others stay.
LEMMA OneMoves ==
  ASSUME RequestInv, NEW c \in Reqs, Only(c), RequestTypes', RequestOk(c)'
  PROVE  RequestInv'
<1>1. ASSUME NEW d \in Reqs PROVE RequestOk(d)'
  BY SameOk DEF RequestInv, Only
<1>2. QED
  BY <1>1 DEF RequestInv

-----------------------------------------------------------------------------
(* Every step of a request is a step of the token table, or leaves it.     *)

\* Tokens that no request returns stay with the requests that hold them.
LEMMA HeldTokensStay ==
  ASSUME AuthTypeOK, NEW a \in Acqs, AcqNext(a), NEW c \in Reqs, given[c] \in Sessions
  PROVE  given'[c] = given[c]
<1>1. given[c] # Waiting
  BY DEF Sessions, Waiting
<1>2. QED
  BY <1>1 DEF AcqNext, DisplayReads, AcquireOk, AcquireFails, Resolve, AuthTypeOK

\* A request spends tokens only as auth() and expire() allow.
LEMMA StepOfTable ==
  ASSUME RequestInv, [Next]_vars
  PROVE  [AuthNext]_authVars
<1>1. ASSUME NEW c \in Reqs, ReqNext(c)
      PROVE  [AuthNext]_authVars
  <2>1. CASE Ask(c)
    BY <2>1 DEF Ask, AuthNext
  <2>2. CASE Rejected(c)
    <3>1. given[c] \in Sessions
      BY <2>2 DEF Rejected, RequestInv, RequestOk
    <3>2. Expire
      BY <2>2, <3>1 DEF Rejected, DropToken, Expire
    <3>3. QED
      BY <3>2 DEF AuthNext
  <2>3. CASE SoapRejected(c)
    BY <2>3 DEF SoapRejected, DropToken, Expire, AuthNext
  <2>4. CASE UNCHANGED authVars
    BY <2>4
  <2>5. QED
    BY <1>1, <2>1, <2>2, <2>3, <2>4
    DEF ReqNext, Respond, Begin, NoToken, Send, OrgHandles, Accepted, Refused, RejectedAgain,
        Throttled, Lose, CliOk, CliErr, Abort
<1>2. QED
  BY <1>1 DEF Next, AuthNext, vars

-----------------------------------------------------------------------------
(* The invariant, action by action.                                        *)

\* A request begins, asks for a token, has none, or is sent.
LEMMA SendingKeeps ==
  ASSUME TableInv, RequestInv, NEW c \in Reqs, Begin(c) \/ Ask(c) \/ NoToken(c) \/ Send(c)
  PROVE  RequestInv'
<1>1. AuthTypeOK /\ RequestTypes /\ RequestOk(c)
  BY DEF TableInv, RequestInv
<1>2. CASE Begin(c)
  <2>1. RequestTypes'
    BY <1>1, <1>2 DEF Begin, Go, RequestTypes, PCs
  <2>2. Only(c)
    BY <1>1, <1>2 DEF Begin, Go, RequestTypes, Only, Same, authVars
  <2>3. RequestOk(c)'
    BY <1>1, <1>2 DEF Begin, Go, RequestTypes, RequestOk, Unclear, Direct, Over
  <2>4. QED
    BY <2>1, <2>2, <2>3, OneMoves
<1>3. CASE Ask(c)
  <2>1. RequestTypes'
    BY <1>1, <1>3 DEF Ask, request, RequestTypes
  <2>2. \A d \in Reqs : d # c => given'[d] = given[d]
    BY <1>1, <1>3 DEF Ask, Auth, Return, Start, AuthTypeOK
  <2>3. Only(c)
    BY <1>3, <2>2 DEF Ask, request, Only, Same
  <2>4. RequestOk(c)'
    BY <1>1, <1>3 DEF Ask, request, RequestOk, Unclear, Direct, Over
  <2>5. QED
    BY <2>1, <2>3, <2>4, OneMoves
<1>4. CASE NoToken(c)
  <2>1. RequestTypes'
    BY <1>1, <1>4 DEF NoToken, Go, request, RequestTypes, PCs
  <2>2. Only(c)
    BY <1>1, <1>4 DEF NoToken, Go, request, RequestTypes, Only, Same, authVars
  <2>3. RequestOk(c)'
    BY <1>1, <1>4 DEF NoToken, Go, request, RequestTypes, RequestOk, Unclear, Direct, Over
  <2>4. QED
    BY <2>1, <2>2, <2>3, OneMoves
<1>5. CASE Send(c)
  <2>1. RequestTypes'
    BY <1>1, <1>5 DEF Send, Go, request, RequestTypes, PCs, Messages
  <2>2. Only(c)
    BY <1>1, <1>5 DEF Send, Go, request, RequestTypes, Only, Same, authVars
  <2>3. RequestOk(c)'
    BY <1>1, <1>5 DEF Send, Go, request, RequestTypes, RequestOk, Unclear, Direct, Over, authVars
  <2>4. QED
    BY <2>1, <2>2, <2>3, OneMoves
<1>6. QED
  BY <1>2, <1>3, <1>4, <1>5

\* The org handles a request: one that is still awaited, or one that is not.
LEMMA OrgKeeps ==
  ASSUME RequestInv, NEW c \in Reqs, OrgHandles(c)
  PROVE  RequestInv'
<1>1. RequestTypes /\ RequestOk(c)
  BY DEF RequestInv
<1>2. /\ msg[c] = "travelling"
      /\ UNCHANGED <<given, pc, proto, write, attempt, lost, gone, why>>
      /\ \E m \in {"401", "refused", "ok", "echoed"} : msg' = [msg EXCEPT ![c] = m]
      /\ applied' = IF msg'[c] \in {"ok", "echoed"} /\ write[c] THEN [applied EXCEPT ![c] = @ + 1] ELSE applied
  BY <1>1 DEF OrgHandles, authVars, request, RequestTypes
<1>3. write[c] \in BOOLEAN /\ applied[c] \in 0 .. 2 /\ pc[c] \in PCs
  BY <1>1 DEF RequestTypes
<1>4. write[c] => applied[c] <= 1
  BY <1>1, <1>2, <1>3 DEF RequestOk, Unclear, Direct, Over, PCs
<1>5. RequestTypes'
  <2>1. msg' \in [Reqs -> Messages]
    BY <1>1, <1>2 DEF RequestTypes, Messages
  <2>2. applied' \in [Reqs -> 0 .. 2]
    BY <1>1, <1>2, <1>3, <1>4 DEF RequestTypes
  <2>3. QED
    BY <1>1, <1>2, <2>1, <2>2 DEF RequestTypes
<1>6. Only(c)
  BY <1>1, <1>2 DEF RequestTypes, Only, Same
<1>7. RequestOk(c)'
  <2>1. msg'[c] \in {"401", "refused", "ok", "echoed"} /\ applied'[c] = applied[c] + Direct(c)'
    BY <1>1, <1>2, <1>3 DEF RequestTypes, Direct
  <2>2. Direct(c) = 0 /\ Direct(c)' \in 0 .. 1
    BY <1>2 DEF Direct
  <2>3. ~write[c] => Direct(c)' = 0
    BY <1>2 DEF Direct
  <2>4. QED
    BY <1>1, <1>2, <1>3, <1>4, <2>1, <2>2, <2>3 DEF RequestOk, Unclear, Over, PCs
<1>8. QED
  BY <1>5, <1>6, <1>7, OneMoves

\* The answer is taken: the request ends, is sent again, or goes to the CLI.
LEMMA AnswerKeeps ==
  ASSUME RequestInv, NEW c \in Reqs, Respond(c)
  PROVE  RequestInv'
<1>1. RequestTypes /\ RequestOk(c)
  BY DEF RequestInv
<1>2. /\ pc[c] = "sent" /\ given[c] \in Sessions /\ applied[c] = Direct(c) /\ c \notin lost
      /\ why[c] \notin {"org", "session"}
      /\ write[c] \in BOOLEAN
  BY <1>1 DEF Respond, Accepted, Refused, Throttled, Rejected, RejectedAgain, SoapRejected, Lose, RequestOk,
              RequestTypes
<1>3. UNCHANGED <<proto, write, applied, gone>>
  BY DEF Respond, Accepted, Refused, Throttled, Rejected, RejectedAgain, SoapRejected, Lose, request
<1>4. CASE Accepted(c) \/ Refused(c) \/ RejectedAgain(c)
  <2>1. PICK end \in Over, reason \in Reasons :
          /\ pc' = [pc EXCEPT ![c] = end] /\ why' = [why EXCEPT ![c] = reason]
          /\ reason \in {"org", "session"} => end = "failed" /\ msg[c] \in {"refused", "401"}
          /\ end = "done" => msg[c] = "ok"
          /\ msg[c] # "travelling"
    <3>1. why' = [why EXCEPT ![c] = why[c]] \/ ~Accepted(c)
      BY <1>1 DEF Accepted, Go, RequestTypes
    <3>2. QED
      BY <1>1, <1>2, <1>4, <3>1
      DEF Accepted, Refused, RejectedAgain, Go, Report, Reasons, RequestTypes, Over
  <2>2. UNCHANGED <<given, msg, lost, attempt>>
    BY <1>4 DEF Accepted, Refused, RejectedAgain, authVars, request
  <2>3. RequestTypes'
    BY <1>1, <1>3, <2>1, <2>2 DEF RequestTypes, PCs, Over
  <2>4. Only(c)
    BY <1>1, <1>3, <2>1, <2>2 DEF RequestTypes, Only, Same
  <2>5. RequestOk(c)'
    BY <1>1, <1>2, <1>3, <2>1, <2>2 DEF RequestOk, Unclear, RequestTypes, Direct, Over
  <2>6. QED
    BY <2>3, <2>4, <2>5, OneMoves
<1>5. CASE Rejected(c)
  <2>1. /\ pc' = [pc EXCEPT ![c] = "auth"] /\ msg' = [msg EXCEPT ![c] = "none"]
        /\ attempt' = [attempt EXCEPT ![c] = 1] /\ given' = [given EXCEPT ![c] = NotAsked]
        /\ UNCHANGED <<lost, why>> /\ msg[c] = "401"
    BY <1>5 DEF Rejected, Go
  <2>2. RequestTypes'
    BY <1>1, <1>3, <2>1 DEF RequestTypes, PCs, Messages
  <2>3. Only(c)
    BY <1>1, <1>3, <2>1 DEF RequestTypes, Only, Same
  <2>4. RequestOk(c)'
    BY <1>1, <1>2, <1>3, <2>1 DEF RequestOk, Unclear, RequestTypes, Direct, Over
  <2>5. QED
    BY <2>2, <2>3, <2>4, OneMoves
<1>6. CASE SoapRejected(c) \/ Throttled(c)
  <2>1. /\ pc' = [pc EXCEPT ![c] = "cli"] /\ msg[c] \in {"401", "echoed", "refused"}
        /\ UNCHANGED <<given, msg, attempt, lost, why>>
    BY <1>6 DEF SoapRejected, Throttled, Go, request, authVars
  <2>2. RequestTypes'
    BY <1>1, <1>3, <2>1 DEF RequestTypes, PCs
  <2>3. Only(c)
    BY <1>1, <1>3, <2>1 DEF RequestTypes, Only, Same
  <2>4. RequestOk(c)'
    BY <1>1, <1>2, <1>3, <2>1 DEF RequestOk, Unclear, RequestTypes, Direct, Over
  <2>5. QED
    BY <2>2, <2>3, <2>4, OneMoves
<1>7. CASE Lose(c)
  <2>1. PICK to \in {"cli", "failed"}, reason \in Reasons :
          /\ pc' = [pc EXCEPT ![c] = to] /\ why' = [why EXCEPT ![c] = reason]
          /\ reason \notin {"org", "session"}
    <3>1. why' = [why EXCEPT ![c] = why[c]] \/ c \in gone
      BY <1>1, <1>7 DEF Lose, Go, RequestTypes
    <3>2. QED
      BY <1>1, <1>2, <1>7, <3>1 DEF Lose, Go, Report, Reasons, RequestTypes
  <2>2. UNCHANGED <<given, msg, attempt>> /\ lost' = lost \cup {c}
    BY <1>7 DEF Lose, authVars, request
  <2>3. RequestTypes'
    BY <1>1, <1>3, <2>1, <2>2 DEF RequestTypes, PCs
  <2>4. Only(c)
    BY <1>1, <1>3, <2>1, <2>2 DEF RequestTypes, Only, Same
  <2>5. RequestOk(c)'
    BY <1>1, <1>2, <1>3, <2>1, <2>2 DEF RequestOk, Unclear, RequestTypes, Direct, Over
  <2>6. QED
    BY <2>3, <2>4, <2>5, OneMoves
<1>8. QED
  BY <1>4, <1>5, <1>6, <1>7 DEF Respond

\* The CLI answers or fails, after it carried the request out or before.
LEMMA CliKeeps ==
  ASSUME RequestInv, NEW c \in Reqs, CliOk(c) \/ CliErr(c)
  PROVE  RequestInv'
<1>1. RequestTypes /\ RequestOk(c)
  BY DEF RequestInv
<1>2. /\ pc[c] = "cli" /\ UNCHANGED <<given, proto, write, attempt, msg, lost, gone>>
      /\ why[c] \notin {"org", "session"} /\ write[c] \in BOOLEAN
      /\ applied[c] = Direct(c) /\ Direct(c) \in 0 .. 1 /\ (~write[c] => Direct(c) = 0)
      /\ Direct(c)' = Direct(c)
  BY <1>1 DEF CliOk, CliErr, authVars, request, RequestOk, Unclear, RequestTypes, Direct
<1>3. PICK end \in Over, reason \in Reasons, n \in 0 .. 1 :
        /\ pc' = [pc EXCEPT ![c] = end] /\ why' = [why EXCEPT ![c] = reason]
        /\ reason \notin {"org", "session"}
        /\ applied' = [applied EXCEPT ![c] = applied[c] + n]
        /\ (~write[c] => n = 0) /\ (write[c] /\ end = "done" => n = 1)
  <2>1. applied = [applied EXCEPT ![c] = applied[c] + 0]
    BY <1>1, <1>2 DEF RequestTypes
  <2>2. why = [why EXCEPT ![c] = why[c]] /\ why[c] \in Reasons
    BY <1>1 DEF RequestTypes
  <2>3. PICK n \in 0 .. 1 : /\ applied' = [applied EXCEPT ![c] = applied[c] + n]
                            /\ (~write[c] => n = 0) /\ (write[c] /\ CliOk(c) => n = 1)
    <3>1. /\ 0 \in 0 .. 1 /\ 1 \in 0 .. 1
          /\ applied' \in {applied, IF write[c] THEN [applied EXCEPT ![c] = applied[c] + 1] ELSE applied}
          /\ CliOk(c) /\ write[c] => applied' = [applied EXCEPT ![c] = applied[c] + 1]
      BY DEF CliOk, CliErr
    <3>2. CASE applied' = [applied EXCEPT ![c] = applied[c] + 1] /\ write[c]
      BY <3>1, <3>2
    <3>3. CASE applied' = applied /\ (CliOk(c) => ~write[c])
      BY <2>1, <3>1, <3>3
    <3>4. QED
      BY <3>1, <3>2, <3>3
  <2>4. CASE CliOk(c)
    <3>1. pc' = [pc EXCEPT ![c] = "done"] /\ why' = [why EXCEPT ![c] = why[c]] /\ "done" \in Over
      BY <2>2, <2>4 DEF CliOk, Go, Over
    <3>2. QED
      BY <1>2, <2>2, <2>3, <2>4, <3>1
  <2>5. CASE CliErr(c)
    <3>1. PICK reason \in {"cli", "aborted"} :
            pc' = [pc EXCEPT ![c] = "failed"] /\ why' = [why EXCEPT ![c] = reason]
      BY <2>5 DEF CliErr, Report
    <3>2. reason \in Reasons /\ reason \notin {"org", "session"} /\ "failed" \in Over
          /\ "failed" # "done"
      BY DEF Reasons, Over
    <3>3. QED
      BY <2>3, <3>1, <3>2
  <2>6. QED
    BY <2>4, <2>5
<1>4. RequestTypes'
  <2>1. applied' \in [Reqs -> 0 .. 2]
    BY <1>1, <1>2, <1>3 DEF RequestTypes
  <2>2. QED
    BY <1>1, <1>2, <1>3, <2>1 DEF RequestTypes, PCs, Over
<1>5. Only(c)
  BY <1>1, <1>2, <1>3 DEF RequestTypes, Only, Same
<1>6. RequestOk(c)'
  <2>1. /\ pc'[c] = end /\ why'[c] = reason /\ applied'[c] = Direct(c) + n
        /\ msg'[c] = msg[c] /\ write'[c] = write[c] /\ lost' = lost
    BY <1>1, <1>2, <1>3 DEF RequestTypes
  <2>2. /\ c \notin lost => msg[c] \in {"none", "401", "refused", "echoed"}
        /\ ~Unclear(c) => Direct(c) = 0
    BY <1>1, <1>2 DEF RequestOk, Direct, Unclear
  <2>3. QED
    BY <1>2, <1>3, <2>1, <2>2 DEF RequestOk, Unclear, Over
<1>7. QED
  BY <1>4, <1>5, <1>6, OneMoves

\* The client of a read leaves.
LEMMA AbortKeeps ==
  ASSUME RequestInv, NEW c \in Reqs, Abort(c)
  PROVE  RequestInv'
<1>1. RequestTypes /\ RequestOk(c)
  BY DEF RequestInv
<1>2. UNCHANGED <<given, proto, write, attempt, msg, applied, lost>> /\ ~write[c]
      /\ gone' = gone \cup {c} /\ Direct(c) = 0 /\ Direct(c)' = 0
  BY DEF Abort, authVars, request, Direct
<1>3. CASE pc[c] = "auth"
  <2>1. UNCHANGED <<pc, why>>
    BY <1>3 DEF Abort
  <2>2. RequestTypes' /\ Only(c) /\ RequestOk(c)'
    BY <1>1, <1>2, <2>1 DEF RequestTypes, Only, Same, RequestOk, Unclear, Direct
  <2>3. QED
    BY <2>2, OneMoves
<1>4. CASE pc[c] # "auth"
  <2>1. /\ pc' = [pc EXCEPT ![c] = "failed"] /\ why' = [why EXCEPT ![c] = "aborted"]
        /\ applied[c] = 0
    BY <1>1, <1>2, <1>4 DEF Abort, Report, RequestOk
  <2>2. RequestTypes'
    BY <1>1, <1>2, <2>1 DEF RequestTypes, PCs, Reasons
  <2>3. Only(c)
    BY <1>1, <1>2, <2>1 DEF RequestTypes, Only, Same
  <2>4. RequestOk(c)'
    BY <1>1, <1>2, <2>1 DEF RequestTypes, RequestOk, Unclear, Over
  <2>5. QED
    BY <2>2, <2>3, <2>4, OneMoves
<1>5. QED
  BY <1>3, <1>4

\* The table moves alone: nobody who holds a token loses it.
LEMMA TableKeeps ==
  ASSUME TableInv, RequestInv, UNCHANGED rest,
         (\E a \in Acqs : AcqNext(a)) \/ Surroundings \/ UNCHANGED authVars
  PROVE  RequestInv'
<1>1. \A c \in Reqs : given[c] \in Sessions => given'[c] = given[c]
  BY HeldTokensStay
  DEF TableInv, Surroundings, Reset, Lapse, SecretsLapse, SessionEnds, authVars
<1>2. RequestTypes'
  BY DEF rest, request, RequestInv, RequestTypes
<1>3. ASSUME NEW c \in Reqs PROVE RequestOk(c)'
  <2>1. Same(c)
    BY <1>1 DEF rest, request, Same
  <2>2. QED
    BY <2>1, SameOk DEF RequestInv
<1>4. QED
  BY <1>2, <1>3 DEF RequestInv

\* Before anything is asked, nothing is done.
LEMMA RequestsStart == Init => TableInv /\ RequestInv
<1> SUFFICES ASSUME Init PROVE TableInv /\ RequestInv
  OBVIOUS
<1>1. TableInv
  BY TableStarts DEF Init
<1>2. RequestTypes
  BY DEF Init, RequestTypes, PCs, Messages, Reasons
<1>3. \A c \in Reqs : RequestOk(c)
  BY DEF Init, RequestOk, Unclear, Over
<1>4. QED
  BY <1>1, <1>2, <1>3 DEF RequestInv

\* Every step keeps the invariants of the table and of the requests.
LEMMA RequestSteps ==
  TableInv /\ RequestInv /\ [Next]_vars => (TableInv /\ RequestInv)' /\ [AuthNext]_authVars
<1> SUFFICES ASSUME TableInv, RequestInv, [Next]_vars
             PROVE  TableInv' /\ RequestInv' /\ [AuthNext]_authVars
  OBVIOUS
<1>1. [AuthNext]_authVars
  BY StepOfTable
<1>2. TableInv'
  BY <1>1, TableSteps
<1>3. CASE \E c \in Reqs : ReqNext(c)
  BY <1>1, <1>2, <1>3, SendingKeeps, OrgKeeps, AnswerKeeps, CliKeeps, AbortKeeps DEF ReqNext
<1>4. CASE UNCHANGED rest /\ ((\E a \in Acqs : AcqNext(a)) \/ Surroundings \/ UNCHANGED authVars)
  BY <1>1, <1>2, <1>4, TableKeeps
<1>5. QED
  BY <1>3, <1>4 DEF Next, vars, rest, request

\* In every state that the requests reach, both invariants hold.
THEOREM RequestInvariance == Spec => [](TableInv /\ RequestInv)
BY RequestsStart, RequestSteps, PTL DEF Spec

-----------------------------------------------------------------------------
(* What follows from it.                                                   *)

\* The requests, with their retries, fallbacks and departing clients, use the
\* table of tokens as AuthProvider describes it, so that its theorems hold of
\* them: nobody awaits an acquisition that is over, and drops pay for displays.
THEOREM RequestsRefineTable == Spec => AuthSpec
<1>1. Init => AuthInit
  BY DEF Init
<1>2. QED
  BY <1>1, RequestSteps, RequestInvariance, PTL DEF Spec, AuthSpec

\* A write is carried out at most once, unless its response was lost or held the
\* words that soap() takes for a rejected session: for any number of requests that
\* share the token and any interleaving of them.
THEOREM WritesAppliedOnce == Spec => []AppliedOnceUnlessUnclear
<1>1. TableInv /\ RequestInv => AppliedOnceUnlessUnclear
  <2> SUFFICES ASSUME TableInv, RequestInv PROVE AppliedOnceUnlessUnclear
    OBVIOUS
  <2>1. TypeOK
    BY DEF TableInv, RequestInv, RequestTypes, TypeOK
  <2>2. ASSUME NEW c \in Reqs, ~Unclear(c) PROVE applied[c] <= 1
    <3>1. applied[c] \in 0 .. 2 /\ pc[c] \in PCs /\ write[c] \in BOOLEAN /\ RequestOk(c)
      BY DEF RequestInv, RequestTypes
    <3>2. QED
      BY <2>2, <3>1 DEF RequestOk, Direct, Unclear, Over, PCs
  <2>3. QED
    BY <2>1, <2>2 DEF AppliedOnceUnlessUnclear
<1>2. QED
  BY <1>1, RequestInvariance, PTL

\* A write reported as done was carried out, and one reported as refused, or as
\* rejected for its session, was not, whatever was lost on the way.
THEOREM ReportsTellTheTruth == Spec => []ReportsAreTrue
<1>1. TableInv /\ RequestInv => ReportsAreTrue
  BY DEF RequestInv, RequestOk, Over, ReportsAreTrue
<1>2. QED
  BY <1>1, RequestInvariance, PTL
=============================================================================
