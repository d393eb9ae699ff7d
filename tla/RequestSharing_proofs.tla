------------------------ MODULE RequestSharing_proofs ------------------------
(***************************************************************************)
(* Theorems about the two places where callers of one key share a request. *)
(*                                                                         *)
(* CliRunner, for any set of requests and keys, finite or not, and any     *)
(* cap.  Two inductive invariants carry them: PoolInv, about who holds a   *)
(* slot and who waits for one, and AnswerInv, about the versions that the  *)
(* cache, the command in flight and the callers have.                      *)
(*                                                                         *)
(* ClientResource, for one key of the client's cache, any components, any  *)
(* number of unsettled requests and any number of versions of the data.    *)
(***************************************************************************)
EXTENDS CliRunner, ClientResource, FiniteSetTheorems, TLAPS

Holders == {r \in Reqs : Holds(r)}

\* A call that was never made has no key and no answer.
IdleInv == \A r \in Reqs : pc[r] = "idle" => key[r] = NoKey /\ seen[r] = 0

PoolInv == TypeOK /\ IdleInv /\ IsFiniteSet(Holders) /\ SlotAccounting /\ WorkConserving

TableInv == SingleFlight /\ NoOrphan

\* The versions behind one key, in the order in which they can have been read: the
\* barrier and the answers given, then the command in flight or the entry, then
\* the org.  An entry and a command in flight exclude each other.
AnswerInv ==
  \A k \in Keys :
    /\ barrier[k] <= org[k] /\ cache[k] <= org[k]
    /\ cache[k] # 0 => barrier[k] <= cache[k]
    /\ inFlight[k] # NoReq => cache[k] = 0
    /\ \A r \in Reqs : key[r] = k /\ pc[r] = "ok" =>
         /\ seen[r] <= org[k]
         /\ cache[k] # 0 => seen[r] <= cache[k]
    /\ \A q \in Reqs : inFlight[k] = q /\ seen[q] # 0 =>
         /\ barrier[k] <= seen[q] /\ seen[q] <= org[k]
         /\ \A r \in Reqs : key[r] = k /\ pc[r] = "ok" => seen[r] <= seen[q]

IndInv == PoolInv /\ TableInv /\ AnswerInv

-----------------------------------------------------------------------------
(* acquire() and release().                                                *)

\* A new request takes a slot or joins the end of the queue.
LEMMA AcquireFacts ==
  ASSUME PoolInv, NEW r \in Reqs, pc[r] = "idle", Acquire(r)
  PROVE  /\ active' \in Nat /\ queue' \in Seq(Reqs) /\ pc' \in [Reqs -> PCs]
         /\ pc'[r] \in {"queued", "granted"}
         /\ \A q \in Reqs : q # r => pc'[q] = pc[q]
         /\ IsFiniteSet(Holders') /\ SlotAccounting' /\ WorkConserving'
<1>1. /\ active \in Nat /\ Max \in Nat \ {0} /\ active <= Max
      /\ queue \in Seq(Reqs) /\ pc \in [Reqs -> PCs]
      /\ IsFiniteSet(Holders) /\ active = Cardinality(Holders)
  BY MaxAssumption DEF PoolInv, TypeOK, SlotAccounting, Holders
<1>2. r \notin Holders
  BY DEF Holders, Holds
<1>3. CASE active < Max
  <2>1. active' = active + 1 /\ pc' = [pc EXCEPT ![r] = "granted"] /\ queue' = queue
    BY <1>3 DEF Acquire
  <2>2. Holders' = Holders \cup {r}
    BY <1>1, <2>1 DEF Holders, Holds
  <2>3. IsFiniteSet(Holders') /\ Cardinality(Holders') = active + 1
    BY <1>1, <1>2, <2>2, FS_AddElement
  <2>4. SlotAccounting'
    BY <1>1, <1>3, <2>1, <2>3 DEF SlotAccounting, Holders
  <2>5. queue = <<>>
    BY <1>1, <1>3 DEF PoolInv, WorkConserving
  <2>6. WorkConserving'
    BY <1>1, <2>1, <2>5 DEF PoolInv, WorkConserving
  <2>7. QED
    BY <1>1, <2>1, <2>3, <2>4, <2>6 DEF PCs
<1>4. CASE ~(active < Max)
  <2>1. active' = active /\ pc' = [pc EXCEPT ![r] = "queued"] /\ queue' = Append(queue, r)
    BY <1>4 DEF Acquire
  <2>2. Holders' = Holders
    BY <1>1, <1>2, <2>1 DEF Holders, Holds
  <2>3. SlotAccounting'
    BY <1>1, <2>1, <2>2 DEF SlotAccounting, Holders
  <2>4. active = Max
    BY <1>1, <1>4
  <2>5. /\ Len(queue') = Len(queue) + 1
        /\ DOMAIN queue' = 1 .. Len(queue) + 1
        /\ \A i \in DOMAIN queue : queue'[i] = queue[i]
        /\ queue'[Len(queue) + 1] = r
    BY <1>1, <2>1
  <2>6. \A i \in DOMAIN queue : queue[i] # r
    BY <1>1 DEF PoolInv, WorkConserving
  <2>7. {queue'[i] : i \in DOMAIN queue'} = {queue[i] : i \in DOMAIN queue} \cup {r}
    BY <1>1, <2>5
  <2>8. {q \in Reqs : pc'[q] = "queued"} = {q \in Reqs : pc[q] = "queued"} \cup {r}
    BY <1>1, <2>1
  <2>9. \A i, j \in DOMAIN queue' : queue'[i] = queue'[j] => i = j
    BY <1>1, <2>5, <2>6 DEF PoolInv, WorkConserving
  <2>10. WorkConserving'
    BY <2>1, <2>4, <2>7, <2>8, <2>9 DEF PoolInv, WorkConserving
  <2>11. QED
    BY <1>1, <2>1, <2>2, <2>3, <2>10 DEF PCs
<1>5. QED
  BY <1>3, <1>4

\* A request that settles passes its slot to the head of the queue, or frees it,
\* and answers those who joined it and nobody else.
LEMMA SettleFacts ==
  ASSUME PoolInv, NEW r \in Reqs, Holds(r), NEW outcome \in Settled, Settle(r, outcome)
  PROVE  /\ active' \in Nat /\ queue' \in Seq(Reqs) /\ pc' \in [Reqs -> PCs]
         /\ seen' \in [Reqs -> Nat] /\ cache' \in [Keys -> Nat]
         /\ inFlight' \in [Keys -> Reqs \cup {NoReq}]
         /\ r \in Answered(r)
         /\ \A q \in Reqs : q \in Answered(r) =>
              pc[q] # "idle" /\ pc'[q] = outcome /\ seen'[q] = seen[r]
         /\ \A q \in Reqs : q \notin Answered(r) =>
              /\ seen'[q] = seen[q]
              /\ pc'[q] = pc[q] \/ (pc[q] = "queued" /\ pc'[q] = "granted" /\ q = Head(queue))
         /\ IsFiniteSet(Holders') /\ SlotAccounting' /\ WorkConserving'
<1>1. /\ active \in Nat /\ Max \in Nat \ {0} /\ active <= Max
      /\ queue \in Seq(Reqs) /\ pc \in [Reqs -> PCs] /\ seen \in [Reqs -> Nat]
      /\ cache \in [Keys -> Nat] /\ inFlight \in [Keys -> Reqs \cup {NoReq}]
      /\ IsFiniteSet(Holders) /\ active = Cardinality(Holders)
  BY MaxAssumption DEF PoolInv, TypeOK, SlotAccounting, Holders
<1>2. r \in Holders /\ pc[r] \in {"granted", "running"}
  BY DEF Holders, Holds
<1>3. Answered(r) \subseteq Reqs /\ r \in Answered(r)
  BY DEF Answered, Joined
<1>4. \A q \in Answered(r) : q = r \/ pc[q] = "joined"
  BY DEF Answered, Joined
<1>5. outcome \in PCs /\ outcome \notin {"idle", "queued", "granted", "running", "joined"}
  BY DEF Settled, PCs
<1>6. /\ pc' = [q \in Reqs |-> IF q \in Answered(r) THEN outcome
                               ELSE IF q \in Granted THEN "granted" ELSE pc[q]]
      /\ seen' = [q \in Reqs |-> IF q \in Answered(r) THEN seen[r] ELSE seen[q]]
      /\ seen' \in [Reqs -> Nat] /\ cache' \in [Keys -> Nat]
      /\ inFlight' \in [Keys -> Reqs \cup {NoReq}]
  BY <1>1 DEF Settle
<1>7. pc' \in [Reqs -> PCs]
  BY <1>1, <1>5, <1>6 DEF PCs
<1>8. \A q \in Reqs : q \in Answered(r) =>
        pc[q] # "idle" /\ pc'[q] = outcome /\ seen'[q] = seen[r]
  BY <1>2, <1>4, <1>6
<1>9. CASE queue = <<>>
  <2>1. Granted = {} /\ active' = active - 1 /\ queue' = queue
    BY <1>9 DEF Granted, Settle, Release
  <2>2. Holders' = Holders \ {r}
    BY <1>3, <1>4, <1>5, <1>6, <2>1 DEF Holders, Holds
  <2>3. IsFiniteSet(Holders') /\ Cardinality(Holders') = active - 1 /\ active - 1 \in Nat
    <3>1. IsFiniteSet(Holders') /\ Cardinality(Holders') = active - 1
      BY <1>1, <1>2, <2>2, FS_RemoveElement
    <3>2. Cardinality(Holders') \in Nat
      BY <3>1, FS_CardinalityType
    <3>3. QED
      BY <3>1, <3>2
  <2>4. SlotAccounting'
    BY <1>1, <2>1, <2>3 DEF SlotAccounting, Holders
  <2>5. {q \in Reqs : pc'[q] = "queued"} = {q \in Reqs : pc[q] = "queued"}
    BY <1>2, <1>4, <1>5, <1>6, <2>1
  <2>6. WorkConserving'
    BY <1>9, <2>1, <2>5 DEF PoolInv, WorkConserving
  <2>7. \A q \in Reqs : q \notin Answered(r) => seen'[q] = seen[q] /\ pc'[q] = pc[q]
    BY <1>6, <2>1
  <2>8. QED
    BY <1>1, <1>3, <1>6, <1>7, <1>8, <2>1, <2>3, <2>4, <2>6, <2>7
<1>10. CASE queue # <<>>
  <2> DEFINE h == Head(queue)
  <2>1. Granted = {h} /\ active' = active /\ queue' = Tail(queue)
    BY <1>10 DEF Granted, Settle, Release
  <2>2. /\ 1 \in DOMAIN queue /\ h = queue[1] /\ h \in Reqs
        /\ queue' \in Seq(Reqs)
        /\ \A i \in DOMAIN queue' : i + 1 \in DOMAIN queue /\ i + 1 # 1 /\ queue'[i] = queue[i + 1]
        /\ \A i \in DOMAIN queue : i # 1 => i - 1 \in DOMAIN queue' /\ queue'[i - 1] = queue[i]
    BY <1>1, <1>10, <2>1
  <2>3. pc[h] = "queued" /\ active = Max
    BY <1>10, <2>2 DEF PoolInv, WorkConserving
  <2>4. h \notin Answered(r) /\ h \notin Holders /\ h # r
    BY <1>2, <1>4, <2>3 DEF Holders, Holds
  <2>5. Holders' = (Holders \ {r}) \cup {h}
    BY <1>3, <1>4, <1>5, <1>6, <2>1, <2>2, <2>4 DEF Holders, Holds
  <2>6. IsFiniteSet(Holders') /\ Cardinality(Holders') = active
    <3>1. IsFiniteSet(Holders \ {r}) /\ Cardinality(Holders \ {r}) = active - 1
      BY <1>1, <1>2, FS_RemoveElement
    <3>2. h \notin Holders \ {r}
      BY <2>4
    <3>3. /\ IsFiniteSet((Holders \ {r}) \cup {h})
          /\ Cardinality((Holders \ {r}) \cup {h}) = (active - 1) + 1
      BY <3>1, <3>2, FS_AddElement
    <3>4. QED
      BY <1>1, <2>5, <3>3
  <2>7. SlotAccounting'
    BY <1>1, <2>1, <2>6 DEF SlotAccounting, Holders
  <2>8. {q \in Reqs : pc'[q] = "queued"} = {q \in Reqs : pc[q] = "queued"} \ {h}
    BY <1>2, <1>4, <1>5, <1>6, <2>1
  <2>9. \A i, j \in DOMAIN queue : queue[i] = queue[j] => i = j
    BY DEF PoolInv, WorkConserving
  <2>10. {queue'[i] : i \in DOMAIN queue'} = {queue[i] : i \in DOMAIN queue} \ {h}
    BY <2>2, <2>9
  <2>11. \A i, j \in DOMAIN queue' : queue'[i] = queue'[j] => i = j
    BY <1>1, <2>1, <2>2, <2>9
  <2>12. WorkConserving'
    BY <2>1, <2>3, <2>8, <2>10, <2>11 DEF PoolInv, WorkConserving
  <2>13. \A q \in Reqs : q \notin Answered(r) =>
           /\ seen'[q] = seen[q]
           /\ pc'[q] = pc[q] \/ (pc[q] = "queued" /\ pc'[q] = "granted" /\ q = Head(queue))
    BY <1>6, <2>1, <2>3
  <2>14. QED
    BY <1>1, <1>3, <1>6, <1>7, <1>8, <2>1, <2>2, <2>6, <2>7, <2>12, <2>13
<1>11. QED
  BY <1>9, <1>10

-----------------------------------------------------------------------------
(* The invariant, action by action.                                        *)

\* The runner starts with an empty pool, table and cache.
LEMMA InitInv == Init => IndInv
<1> SUFFICES ASSUME Init PROVE IndInv
  OBVIOUS
<1>1. TypeOK
  <2>1. queue \in Seq(Reqs)
    BY DEF Init
  <2>2. QED
    BY <2>1 DEF Init, TypeOK, PCs
<1>2. Holders = {}
  BY DEF Init, Holders, Holds
<1>3. IsFiniteSet(Holders) /\ SlotAccounting
  BY <1>2, FS_EmptySet, MaxAssumption DEF Init, SlotAccounting, Holders
<1>4. WorkConserving
  BY DEF Init, WorkConserving
<1>5. IdleInv /\ AnswerInv
  BY FreshAssumption DEF Init, IdleInv, AnswerInv
<1>6. TableInv
  BY FreshAssumption DEF Init, TableInv, SingleFlight, NoOrphan, Pending
<1>7. QED
  BY <1>1, <1>3, <1>4, <1>5, <1>6 DEF IndInv, PoolInv

\* A call without a key.
LEMMA DirectInv ==
  ASSUME IndInv, NEW r \in Reqs, ExecuteDirect(r)
  PROVE  IndInv'
<1> USE DEF IndInv
<1>1. /\ active' \in Nat /\ queue' \in Seq(Reqs) /\ pc' \in [Reqs -> PCs]
      /\ pc'[r] \in {"queued", "granted"}
      /\ \A q \in Reqs : q # r => pc'[q] = pc[q]
      /\ IsFiniteSet(Holders') /\ SlotAccounting' /\ WorkConserving'
  BY AcquireFacts DEF ExecuteDirect
<1>2. /\ pc[r] = "idle" /\ key[r] = NoKey
      /\ UNCHANGED <<cache, inFlight, key, seen, aborted, procs, probes, org, barrier>>
  BY DEF ExecuteDirect, PoolInv, IdleInv
<1>3. TypeOK'
  BY <1>1, <1>2 DEF PoolInv, TypeOK
<1>4. IdleInv'
  BY <1>1, <1>2 DEF PoolInv, IdleInv
<1>5. TableInv'
  BY <1>1, <1>2, FreshAssumption DEF TableInv, SingleFlight, NoOrphan, Pending
<1>6. AnswerInv'
  BY <1>1, <1>2 DEF AnswerInv
<1>7. QED
  BY <1>1, <1>3, <1>4, <1>5, <1>6 DEF PoolInv

\* A call that schedules the command of its key.
LEMMA LeadInv ==
  ASSUME IndInv, NEW r \in Reqs, NEW k \in Keys, ExecuteLead(r, k)
  PROVE  IndInv'
<1> USE DEF IndInv
<1>1. /\ active' \in Nat /\ queue' \in Seq(Reqs) /\ pc' \in [Reqs -> PCs]
      /\ pc'[r] \in {"queued", "granted"}
      /\ \A q \in Reqs : q # r => pc'[q] = pc[q]
      /\ IsFiniteSet(Holders') /\ SlotAccounting' /\ WorkConserving'
  BY AcquireFacts DEF ExecuteLead
<1>2. /\ pc[r] = "idle" /\ key[r] = NoKey /\ seen[r] = 0
      /\ cache[k] = 0 /\ inFlight[k] = NoReq
      /\ inFlight' = [inFlight EXCEPT ![k] = r] /\ key' = [key EXCEPT ![r] = k]
      /\ UNCHANGED <<cache, seen, aborted, procs, probes, org, barrier>>
  BY DEF ExecuteLead, PoolInv, IdleInv
<1>3. TypeOK'
  BY <1>1, <1>2 DEF PoolInv, TypeOK
<1>4. key \in [Reqs -> Keys \cup {NoKey}] /\ inFlight \in [Keys -> Reqs \cup {NoReq}]
  BY DEF PoolInv, TypeOK
<1>5. IdleInv'
  BY <1>1, <1>2, <1>4 DEF PoolInv, IdleInv
<1>6. SingleFlight'
  BY <1>1, <1>2, <1>4, FreshAssumption DEF TableInv, SingleFlight, Pending
<1>7. NoOrphan'
  BY <1>1, <1>2, <1>4, FreshAssumption DEF TableInv, NoOrphan
<1>8. AnswerInv'
  BY <1>1, <1>2, <1>4 DEF AnswerInv
<1>9. QED
  BY <1>1, <1>3, <1>5, <1>6, <1>7, <1>8 DEF PoolInv, TableInv

\* A call that the cache answers, or that joins the command in flight, leaves the
\* pool alone.
LEMMA HitJoinInv ==
  ASSUME IndInv, NEW r \in Reqs, NEW k \in Keys, ExecuteHit(r, k) \/ ExecuteJoin(r, k)
  PROVE  IndInv'
<1> USE DEF IndInv
<1>1. /\ pc[r] = "idle" /\ key[r] = NoKey
      /\ key' = [key EXCEPT ![r] = k]
      /\ UNCHANGED <<active, queue, cache, inFlight, aborted, procs, probes, org, barrier>>
  BY DEF ExecuteHit, ExecuteJoin, PoolInv, IdleInv
<1>2. \/ /\ pc' = [pc EXCEPT ![r] = "ok"] /\ seen' = [seen EXCEPT ![r] = cache[k]] /\ cache[k] # 0
      \/ /\ pc' = [pc EXCEPT ![r] = "joined"] /\ seen' = seen /\ inFlight[k] # NoReq
  BY DEF ExecuteHit, ExecuteJoin
<1>3. /\ pc \in [Reqs -> PCs] /\ key \in [Reqs -> Keys \cup {NoKey}] /\ seen \in [Reqs -> Nat]
      /\ cache \in [Keys -> Nat] /\ org \in [Keys -> Nat]
  BY DEF PoolInv, TypeOK
<1>4. pc' \in [Reqs -> PCs] /\ seen' \in [Reqs -> Nat] /\ key' \in [Reqs -> Keys \cup {NoKey}]
  BY <1>1, <1>2, <1>3 DEF PCs, Settled
<1>5. TypeOK'
  BY <1>1, <1>4 DEF PoolInv, TypeOK
<1>6. /\ pc'[r] \notin {"idle", "queued", "granted", "running"}
      /\ \A q \in Reqs : q # r => pc'[q] = pc[q] /\ key'[q] = key[q] /\ seen'[q] = seen[q]
      /\ key'[r] = k
  BY <1>1, <1>2, <1>3
<1>7. IdleInv'
  BY <1>6 DEF PoolInv, IdleInv
<1>8. Holders' = Holders
  BY <1>1, <1>6 DEF Holders, Holds
<1>9. IsFiniteSet(Holders') /\ SlotAccounting'
  BY <1>1, <1>8 DEF PoolInv, SlotAccounting, Holders
<1>10. {q \in Reqs : pc'[q] = "queued"} = {q \in Reqs : pc[q] = "queued"}
  BY <1>1, <1>6
<1>11. WorkConserving'
  BY <1>1, <1>10 DEF PoolInv, WorkConserving
<1>12. SingleFlight'
  BY <1>1, <1>6 DEF TableInv, SingleFlight, Pending
<1>13. NoOrphan'
  BY <1>1, <1>2, <1>3, <1>6 DEF TableInv, NoOrphan
<1>14. AnswerInv'
  BY <1>1, <1>2, <1>3, <1>6, <1>12, FreshAssumption DEF AnswerInv, TableInv, SingleFlight, Pending
<1>15. QED
  BY <1>5, <1>7, <1>9, <1>11, <1>12, <1>13, <1>14 DEF PoolInv, TableInv

\* The promise of a command settles, for whatever reason.
LEMMA SettleInv ==
  ASSUME IndInv, NEW r \in Reqs, Holds(r), NEW outcome \in Settled, Settle(r, outcome),
         aborted' \subseteq Reqs, procs' \subseteq Reqs, UNCHANGED <<key, probes, org, barrier>>
  PROVE  IndInv'
<1> USE DEF IndInv
<1>1. /\ active' \in Nat /\ queue' \in Seq(Reqs) /\ pc' \in [Reqs -> PCs]
      /\ seen' \in [Reqs -> Nat] /\ cache' \in [Keys -> Nat]
      /\ inFlight' \in [Keys -> Reqs \cup {NoReq}]
      /\ r \in Answered(r)
      /\ \A q \in Reqs : q \in Answered(r) =>
           pc[q] # "idle" /\ pc'[q] = outcome /\ seen'[q] = seen[r]
      /\ \A q \in Reqs : q \notin Answered(r) =>
           /\ seen'[q] = seen[q]
           /\ pc'[q] = pc[q] \/ (pc[q] = "queued" /\ pc'[q] = "granted" /\ q = Head(queue))
      /\ IsFiniteSet(Holders') /\ SlotAccounting' /\ WorkConserving'
  BY SettleFacts
<1>2. /\ key \in [Reqs -> Keys \cup {NoKey}] /\ seen \in [Reqs -> Nat]
      /\ cache \in [Keys -> Nat] /\ org \in [Keys -> Nat] /\ barrier \in [Keys -> Nat]
  BY DEF PoolInv, TypeOK
<1>3. outcome \notin {"idle", "queued", "granted", "running", "joined"}
  BY DEF Settled
<1>4. Pending(r) /\ \A q \in Answered(r) : q = r \/ pc[q] = "joined"
  BY DEF Holds, Pending, Answered, Joined
<1>5. \A q \in Reqs : Pending(q)' <=> Pending(q) /\ q # r
  BY <1>1, <1>3, <1>4 DEF Pending
<1>6. \A k \in Keys : inFlight'[k] = IF k = key[r] THEN NoReq ELSE inFlight[k]
  BY DEF Settle
<1>7. \A k \in Keys : cache'[k] = IF k = key[r] /\ outcome = "ok" THEN seen[r] ELSE cache[k]
  BY DEF Settle
<1>8. TypeOK'
  BY <1>1 DEF PoolInv, TypeOK
<1>9. IdleInv'
  BY <1>1, <1>3 DEF PoolInv, IdleInv
<1>10. SingleFlight'
  BY <1>2, <1>4, <1>5, <1>6, FreshAssumption DEF TableInv, SingleFlight
<1>11. NoOrphan'
  <2>1. SUFFICES ASSUME NEW w \in Reqs, pc'[w] = "joined"
                 PROVE  key[w] \in Keys /\ inFlight'[key[w]] # NoReq
    BY DEF NoOrphan
  <2>2. w \notin Answered(r) /\ pc[w] = "joined"
    BY <1>1, <1>3, <2>1
  <2>3. key[w] \in Keys /\ inFlight[key[w]] # NoReq
    BY <2>2 DEF TableInv, NoOrphan
  <2>4. key[w] # key[r]
    BY <2>2, <2>3, FreshAssumption DEF Answered, Joined
  <2>5. QED
    BY <1>6, <2>3, <2>4
<1>12. AnswerInv'
  <2>1. SUFFICES ASSUME NEW k \in Keys
                 PROVE  /\ barrier[k] <= org[k] /\ cache'[k] <= org[k]
                        /\ cache'[k] # 0 => barrier[k] <= cache'[k]
                        /\ inFlight'[k] # NoReq => cache'[k] = 0
                        /\ \A q \in Reqs : key[q] = k /\ pc'[q] = "ok" =>
                             /\ seen'[q] <= org[k]
                             /\ cache'[k] # 0 => seen'[q] <= cache'[k]
                        /\ \A q \in Reqs : inFlight'[k] = q /\ seen'[q] # 0 =>
                             /\ barrier[k] <= seen'[q] /\ seen'[q] <= org[k]
                             /\ \A w \in Reqs : key[w] = k /\ pc'[w] = "ok" => seen'[w] <= seen'[q]
    BY DEF AnswerInv
  <2>2. \A q \in Reqs : q \in Answered(r) => key[q] = key[r]
    BY DEF Answered, Joined
  <2>3. CASE k = key[r]
    <3>1. inFlight[k] = r /\ inFlight'[k] = NoReq /\ cache[k] = 0
      BY <1>4, <1>6, <2>3, FreshAssumption DEF TableInv, SingleFlight, AnswerInv
    <3>2. /\ barrier[k] <= org[k]
          /\ seen[r] # 0 => barrier[k] <= seen[r] /\ seen[r] <= org[k]
          /\ seen[r] <= org[k]
      BY <1>2, <3>1 DEF AnswerInv
    <3>3. cache'[k] = 0 \/ cache'[k] = seen[r]
      BY <1>7, <3>1
    <3>4. ASSUME NEW q \in Reqs, key[q] = k, pc'[q] = "ok"
          PROVE  seen'[q] <= org[k] /\ (cache'[k] # 0 => seen'[q] <= cache'[k])
      <4>1. CASE q \in Answered(r)
        BY <1>1, <1>2, <3>2, <3>3, <4>1
      <4>2. CASE q \notin Answered(r)
        <5>1. pc[q] = "ok" /\ seen'[q] = seen[q]
          BY <1>1, <3>4, <4>2
        <5>2. seen[q] <= org[k] /\ (seen[r] # 0 => seen[q] <= seen[r])
          BY <3>1, <3>4, <5>1 DEF AnswerInv
        <5>3. QED
          BY <3>3, <5>1, <5>2
      <4>3. QED
        BY <4>1, <4>2
    <3>5. QED
      BY <1>2, <3>1, <3>2, <3>3, <3>4, FreshAssumption
  <2>4. CASE k # key[r]
    <3>1. cache'[k] = cache[k] /\ inFlight'[k] = inFlight[k]
      BY <1>6, <1>7, <2>4
    <3>2. \A q \in Reqs : key[q] = k => seen'[q] = seen[q] /\ (pc'[q] = "ok" => pc[q] = "ok")
      BY <1>1, <2>2, <2>4
    <3>3. \A q \in Reqs : inFlight[k] = q => key[q] = k
      BY DEF TableInv, SingleFlight
    <3>4. QED
      BY <3>1, <3>2, <3>3 DEF AnswerInv
  <2>5. QED
    BY <2>3, <2>4
<1>13. QED
  BY <1>1, <1>8, <1>9, <1>10, <1>11, <1>12 DEF PoolInv, TableInv

\* A granted request spawns its child and keeps its slot.
LEMMA SpawnInv ==
  ASSUME IndInv, NEW r \in Reqs, Spawn(r)
  PROVE  IndInv'
<1> USE DEF IndInv
<1>1. /\ pc[r] = "granted" /\ pc' = [pc EXCEPT ![r] = "running"]
      /\ procs' = procs \cup {r}
      /\ UNCHANGED <<active, queue, cache, inFlight, key, seen, aborted, probes, org, barrier>>
  BY DEF Spawn
<1>2. pc \in [Reqs -> PCs] /\ pc' \in [Reqs -> PCs]
  BY <1>1 DEF PoolInv, TypeOK, PCs
<1>3. pc'[r] = "running" /\ \A q \in Reqs : q # r => pc'[q] = pc[q]
  BY <1>1, <1>2
<1>4. TypeOK' /\ IdleInv'
  BY <1>1, <1>2, <1>3 DEF PoolInv, TypeOK, IdleInv
<1>5. Holders' = Holders
  BY <1>1, <1>3 DEF Holders, Holds
<1>6. IsFiniteSet(Holders') /\ SlotAccounting'
  BY <1>1, <1>5 DEF PoolInv, SlotAccounting, Holders
<1>7. {q \in Reqs : pc'[q] = "queued"} = {q \in Reqs : pc[q] = "queued"}
  BY <1>1, <1>3
<1>8. WorkConserving'
  BY <1>1, <1>7 DEF PoolInv, WorkConserving
<1>9. SingleFlight' /\ NoOrphan'
  BY <1>1, <1>3 DEF TableInv, SingleFlight, NoOrphan, Pending
<1>10. AnswerInv'
  BY <1>1, <1>3 DEF AnswerInv
<1>11. QED
  BY <1>4, <1>6, <1>8, <1>9, <1>10 DEF PoolInv, TableInv

\* A step that leaves the pool and the callers' keys alone can only disturb the
\* versions.
LEMMA PoolKept ==
  ASSUME PoolInv, TableInv, UNCHANGED pool, UNCHANGED key, TypeOK', IdleInv'
  PROVE  PoolInv' /\ TableInv'
<1>1. UNCHANGED <<active, queue, inFlight, pc, key>>
  BY DEF pool
<1>2. Holders' = Holders
  BY <1>1 DEF Holders, Holds
<1>3. IsFiniteSet(Holders') /\ SlotAccounting'
  BY <1>1, <1>2 DEF PoolInv, SlotAccounting, Holders
<1>4. WorkConserving'
  BY <1>1 DEF PoolInv, WorkConserving
<1>5. TableInv'
  BY <1>1 DEF TableInv, SingleFlight, NoOrphan, Pending
<1>6. QED
  BY <1>3, <1>4, <1>5 DEF PoolInv

\* The child reads the org: the newest version there is.
LEMMA ReadInv ==
  ASSUME IndInv, NEW r \in Reqs, ReadOrg(r)
  PROVE  IndInv'
<1> USE DEF IndInv
<1>1. /\ pc[r] = "running" /\ key[r] \in Keys /\ seen[r] = 0
      /\ seen' = [seen EXCEPT ![r] = org[key[r]]]
      /\ UNCHANGED <<pool, cache, key, aborted, procs, probes, org, barrier>>
  BY DEF ReadOrg, PoolInv, TypeOK
<1>2. UNCHANGED <<active, queue, inFlight, pc>>
  BY <1>1 DEF pool
<1>3. seen \in [Reqs -> Nat] /\ org \in [Keys -> Nat] /\ seen' \in [Reqs -> Nat]
  BY <1>1 DEF PoolInv, TypeOK
<1>4. TypeOK' /\ IdleInv'
  BY <1>1, <1>2, <1>3 DEF PoolInv, TypeOK, IdleInv
<1>5. inFlight[key[r]] = r /\ \A k \in Keys : inFlight[k] = r => key[r] = k
  BY <1>1 DEF TableInv, SingleFlight, Pending
<1>6. seen'[r] = org[key[r]] /\ \A q \in Reqs : q # r => seen'[q] = seen[q]
  BY <1>1, <1>3
<1>7. AnswerInv'
  BY <1>1, <1>2, <1>3, <1>5, <1>6 DEF AnswerInv
<1>8. QED
  BY <1>1, <1>4, <1>7, PoolKept

\* An expiry, an invalidation or a change of the org moves the versions only.
LEMMA KeyInv ==
  ASSUME IndInv, NEW k \in Keys, Expire(k) \/ Invalidate(k) \/ Change(k)
  PROVE  IndInv'
<1> USE DEF IndInv
<1>1. UNCHANGED <<active, queue, inFlight, pc, key, seen, aborted, procs, probes>>
  BY DEF Expire, Invalidate, Change, pool
<1>2. cache \in [Keys -> Nat] /\ org \in [Keys -> Nat] /\ barrier \in [Keys -> Nat] /\ seen \in [Reqs -> Nat]
  BY DEF PoolInv, TypeOK
<1>3. cache' \in [Keys -> Nat] /\ org' \in [Keys -> Nat] /\ barrier' \in [Keys -> Nat]
  BY <1>2 DEF Expire, Invalidate, Change
<1>4. TypeOK' /\ IdleInv'
  BY <1>1, <1>3 DEF PoolInv, TypeOK, IdleInv
<1>5. CASE Expire(k)
  <2>1. cache' = [cache EXCEPT ![k] = 0] /\ UNCHANGED <<org, barrier>>
    BY <1>5 DEF Expire
  <2>2. AnswerInv'
    BY <1>1, <1>2, <2>1 DEF AnswerInv
  <2>3. QED
    BY <1>1, <1>4, <2>2, PoolKept DEF pool
<1>6. CASE Invalidate(k)
  <2>1. /\ cache' = [cache EXCEPT ![k] = 0] /\ UNCHANGED org
        /\ barrier' = [barrier EXCEPT ![k] = IF inFlight[k] = NoReq THEN org[k] ELSE @]
    BY <1>6 DEF Invalidate
  <2>2. AnswerInv'
    BY <1>1, <1>2, <2>1, FreshAssumption DEF AnswerInv
  <2>3. QED
    BY <1>1, <1>4, <2>2, PoolKept DEF pool
<1>7. CASE Change(k)
  <2>1. org' = [org EXCEPT ![k] = org[k] + 1] /\ UNCHANGED <<cache, barrier>>
    BY <1>7 DEF Change
  <2>2. \A j \in Keys : org[j] <= org'[j] /\ org[j] \in Nat /\ org'[j] \in Nat
    BY <1>2, <2>1
  <2>3. AnswerInv'
    BY <1>1, <1>2, <2>1, <2>2 DEF AnswerInv
  <2>4. QED
    BY <1>1, <1>4, <2>3, PoolKept DEF pool
<1>8. QED
  BY <1>5, <1>6, <1>7

\* A process that exits late, a version probe, a disconnect that nobody listens to.
LEMMA QuietInv ==
  ASSUME IndInv, UNCHANGED <<active, queue, inFlight, pc, cache, key, seen, org, barrier>>,
         aborted' \subseteq Reqs, procs' \subseteq Reqs, probes' \in Nat
  PROVE  IndInv'
<1> USE DEF IndInv
<1>1. TypeOK' /\ IdleInv'
  BY DEF PoolInv, TypeOK, IdleInv
<1>2. AnswerInv'
  BY DEF AnswerInv
<1>3. QED
  BY <1>1, <1>2, PoolKept DEF pool

\* One step of one request.
LEMMA ReqInv ==
  ASSUME IndInv, NEW r \in Reqs, ReqNext(r)
  PROVE  IndInv'
<1>1. aborted \subseteq Reqs /\ procs \subseteq Reqs /\ probes \in Nat
  BY DEF IndInv, PoolInv, TypeOK
<1>2. CASE SpawnAborted(r) \/ CloseOk(r) \/ CloseErr(r) \/ Timeout(r)
  <2>1. Holds(r) /\ \E outcome \in Settled : Settle(r, outcome)
    BY <1>2 DEF SpawnAborted, CloseOk, CloseErr, Timeout, Holds, Settled
  <2>2. /\ aborted' \subseteq Reqs /\ procs' \subseteq Reqs
        /\ UNCHANGED <<key, probes, org, barrier>>
    BY <1>1, <1>2 DEF SpawnAborted, CloseOk, CloseErr, Timeout
  <2>3. QED
    BY <2>1, <2>2, SettleInv
<1>3. CASE Abort(r)
  <2>1. /\ aborted' \subseteq Reqs /\ procs' \subseteq Reqs
        /\ UNCHANGED <<key, probes, org, barrier>>
    BY <1>1, <1>3 DEF Abort
  <2>2. CASE pc[r] = "running"
    <3>1. Holds(r) /\ Settle(r, "cancelled") /\ "cancelled" \in Settled
      BY <1>3, <2>2 DEF Abort, Holds, Settled
    <3>2. QED
      BY <2>1, <3>1, SettleInv
  <2>3. CASE pc[r] # "running"
    <3>1. UNCHANGED <<pool, cache, seen>>
      BY <1>3, <2>3 DEF Abort
    <3>2. QED
      BY <1>1, <2>1, <3>1, QuietInv DEF pool
  <2>4. QED
    BY <2>2, <2>3
<1>4. CASE LateExit(r)
  BY <1>1, <1>4, QuietInv DEF LateExit, pool
<1>5. QED
  BY <1>2, <1>3, <1>4, DirectInv, HitJoinInv, LeadInv, SpawnInv, ReadInv DEF ReqNext

\* Every step of the runner keeps the invariant.
LEMMA NextInv == IndInv /\ [Next]_vars => IndInv'
<1> SUFFICES ASSUME IndInv, [Next]_vars PROVE IndInv'
  OBVIOUS
<1>1. aborted \subseteq Reqs /\ procs \subseteq Reqs /\ probes \in Nat
  BY DEF IndInv, PoolInv, TypeOK
<1>2. CASE VersionStart \/ VersionEnd
  <2>1. probes' \in Nat
    BY <1>1, <1>2, BoundsAssumption DEF VersionStart, VersionEnd
  <2>2. QED
    BY <1>1, <1>2, <2>1, QuietInv DEF VersionStart, VersionEnd, pool
<1>3. CASE UNCHANGED vars
  BY <1>1, <1>3, QuietInv DEF vars
<1>4. QED
  BY <1>2, <1>3, ReqInv, KeyInv DEF Next

\* In every state that the runner reaches, the slots, the queue, the table of
\* commands in flight and the versions agree.
THEOREM Invariance == Spec => []IndInv
BY InitInv, NextInv, PTL DEF Spec

-----------------------------------------------------------------------------
(* What follows from it: the invariants.                                   *)

\* Every variable of the runner keeps its type.
THEOREM TypeCorrect == Spec => []TypeOK
<1>1. IndInv => TypeOK
  BY DEF IndInv, PoolInv
<1>2. QED
  BY <1>1, Invariance, PTL

\* The counter of slots is the number of requests that hold one, and never more
\* than the cap.
THEOREM SlotsAreCounted == Spec => []SlotAccounting
<1>1. IndInv => SlotAccounting
  BY DEF IndInv, PoolInv
<1>2. QED
  BY <1>1, Invariance, PTL

\* No request waits while a slot is free, and the queue lists each waiting request
\* once.
THEOREM NoWakeUpIsLost == Spec => []WorkConserving
<1>1. IndInv => WorkConserving
  BY DEF IndInv, PoolInv
<1>2. QED
  BY <1>1, Invariance, PTL

\* One command per key, and the in-flight table names it.
THEOREM OneCommandPerKey == Spec => []SingleFlight
<1>1. IndInv => SingleFlight
  BY DEF IndInv, TableInv
<1>2. QED
  BY <1>1, Invariance, PTL

\* Whoever joined a command waits for one that is scheduled or running.
THEOREM NobodyJoinsInVain == Spec => []NoOrphan
<1>1. IndInv => NoOrphan
  BY DEF IndInv, TableInv
<1>2. QED
  BY <1>1, Invariance, PTL

\* After an invalidate that met no command in flight, nothing older is answered from
\* the cache.
THEOREM InvalidationIsFinal == Spec => []InvalidationHolds
<1>1. IndInv => InvalidationHolds
  BY DEF IndInv, PoolInv, TypeOK, AnswerInv, InvalidationHolds
<1>2. QED
  BY <1>1, Invariance, PTL

-----------------------------------------------------------------------------
(* What follows from it: what no step does.                                *)

\* One step of a request either leaves every other one where it is, or settles its
\* command.
LEMMA ReqStep ==
  ASSUME IndInv, NEW p \in Reqs, ReqNext(p)
  PROVE  \/ \A q \in Reqs : q # p => pc'[q] = pc[q]
         \/ Holds(p) /\ \E outcome \in Settled : Settle(p, outcome)
<1>1. pc \in [Reqs -> PCs]
  BY DEF IndInv, PoolInv, TypeOK
<1>2. CASE ExecuteDirect(p) \/ \E k \in Keys : ExecuteLead(p, k)
  <2>1. pc[p] = "idle" /\ Acquire(p)
    BY <1>2 DEF ExecuteDirect, ExecuteLead
  <2>2. QED
    BY <2>1, AcquireFacts DEF IndInv
<1>3. CASE Spawn(p) \/ ReadOrg(p) \/ LateExit(p) \/ \E k \in Keys : ExecuteHit(p, k) \/ ExecuteJoin(p, k)
  BY <1>1, <1>3 DEF Spawn, ReadOrg, LateExit, ExecuteHit, ExecuteJoin, pool
<1>4. CASE SpawnAborted(p) \/ CloseOk(p) \/ CloseErr(p) \/ Timeout(p) \/ Abort(p)
  BY <1>4 DEF SpawnAborted, CloseOk, CloseErr, Timeout, Abort, Holds, Settled, pool
<1>5. QED
  BY <1>2, <1>3, <1>4 DEF ReqNext

\* A request leaves the queue only from its head.
LEMMA FifoStep ==
  ASSUME IndInv, [Next]_vars, NEW r \in Reqs, pc[r] = "queued", pc'[r] # "queued"
  PROVE  r = Head(queue)
<1>1. ASSUME NEW p \in Reqs, ReqNext(p)
      PROVE  r = Head(queue)
  <2>1. CASE r = p
    BY <1>1, <2>1
    DEF ReqNext, ExecuteDirect, ExecuteHit, ExecuteJoin, ExecuteLead, Spawn, SpawnAborted,
        ReadOrg, CloseOk, CloseErr, Timeout, Abort, LateExit, pool, Settled, Pending
  <2>2. CASE r # p
    <3>1. PICK outcome \in Settled : Holds(p) /\ Settle(p, outcome)
      BY <1>1, <2>2, ReqStep
    <3>2. r \notin Answered(p)
      BY <2>2 DEF Answered, Joined
    <3>3. QED
      BY <3>1, <3>2, SettleFacts DEF IndInv
  <2>3. QED
    BY <2>1, <2>2
<1>2. CASE UNCHANGED pc
  BY <1>2
<1>3. QED
  BY <1>1, <1>2
  DEF Next, vars, Expire, Invalidate, Change, VersionStart, VersionEnd, pool

\* Slots are granted in the order in which they were asked for.
THEOREM SlotsAreGrantedInOrder == Spec => FifoGrant
<1>1. IndInv /\ [Next]_vars
        => [\A r \in Reqs : pc[r] = "queued" /\ pc'[r] # "queued" => r = Head(queue)]_vars
  BY FifoStep
<1>2. QED
  BY <1>1, Invariance, PTL DEF Spec, FifoGrant

\* An answer is at least as new as those given before for its key: a hit because the
\* entry is, a command because it read the org after them.
LEMMA AnswerStep ==
  ASSUME IndInv, [Next]_vars, NEW r \in Reqs, NEW q \in Reqs,
         pc[r] = "ok", pc[q] # "ok", pc'[q] = "ok", key[r] \in Keys, key'[q] = key[r]
  PROVE  seen'[q] >= seen[r]
<1>1. /\ pc \in [Reqs -> PCs] /\ seen \in [Reqs -> Nat] /\ cache \in [Keys -> Nat]
      /\ key \in [Reqs -> Keys \cup {NoKey}]
  BY DEF IndInv, PoolInv, TypeOK
<1>2. ASSUME NEW p \in Reqs, ReqNext(p)
      PROVE  seen'[q] >= seen[r]
  <2>1. CASE \E k \in Keys : ExecuteHit(p, k)
    <3>1. PICK k \in Keys : ExecuteHit(p, k)
      BY <2>1
    <3>2. q = p /\ key'[q] = k /\ seen'[q] = cache[k] /\ cache[k] # 0
      BY <1>1, <3>1 DEF ExecuteHit
    <3>3. seen[r] <= cache[k]
      BY <3>2 DEF IndInv, AnswerInv
    <3>4. QED
      BY <1>1, <3>2, <3>3
  <2>2. CASE CloseOk(p)
    <3>1. /\ Holds(p) /\ Settle(p, "ok") /\ "ok" \in Settled /\ pc[p] = "running"
          /\ key' = key /\ (key[p] # NoKey => seen[p] # 0)
      BY <2>2 DEF CloseOk, Holds, Settled
    <3>2. q \in Answered(p)
      BY <3>1, SettleFacts DEF IndInv
    <3>3. seen'[q] = seen[p] /\ key[p] = key[r]
      BY <3>1, <3>2, SettleFacts DEF IndInv, Answered, Joined
    <3>4. inFlight[key[r]] = p /\ seen[p] # 0
      BY <3>1, <3>3, FreshAssumption DEF IndInv, TableInv, SingleFlight, Pending
    <3>5. seen[r] <= seen[p]
      BY <3>4 DEF IndInv, AnswerInv
    <3>6. QED
      BY <1>1, <3>3, <3>5
  <2>3. CASE CloseErr(p) \/ Timeout(p) \/ SpawnAborted(p) \/ (Abort(p) /\ pc[p] = "running")
    <3>1. PICK outcome \in Settled \ {"ok"} : Holds(p) /\ Settle(p, outcome)
      BY <2>3 DEF CloseErr, Timeout, SpawnAborted, Abort, Holds, Settled
    <3>2. q \in Answered(p) => pc'[q] = outcome
      BY <3>1, SettleFacts DEF IndInv
    <3>3. q \notin Answered(p) => pc'[q] = pc[q] \/ pc'[q] = "granted"
      BY <3>1, SettleFacts DEF IndInv
    <3>4. QED
      BY <3>1, <3>2, <3>3
  <2>4. CASE ExecuteDirect(p) \/ \E k \in Keys : ExecuteLead(p, k)
    <3>1. pc[p] = "idle" /\ Acquire(p)
      BY <2>4 DEF ExecuteDirect, ExecuteLead
    <3>2. pc'[p] \in {"queued", "granted"} /\ \A w \in Reqs : w # p => pc'[w] = pc[w]
      BY <3>1, AcquireFacts DEF IndInv
    <3>3. QED
      BY <3>2
  <2>5. CASE \/ Spawn(p) \/ ReadOrg(p) \/ LateExit(p) \/ (Abort(p) /\ pc[p] # "running")
             \/ \E k \in Keys : ExecuteJoin(p, k)
    BY <1>1, <2>5 DEF Spawn, ReadOrg, LateExit, Abort, ExecuteJoin, pool
  <2>6. QED
    BY <1>2, <2>1, <2>2, <2>3, <2>4, <2>5 DEF ReqNext
<1>3. CASE UNCHANGED pc
  BY <1>3
<1>4. QED
  BY <1>2, <1>3
  DEF Next, vars, Expire, Invalidate, Change, VersionStart, VersionEnd, pool

\* Answers for one key never go back in time.
THEOREM AnswersNeverGoBack == Spec => AnswersMonotone
<1>1. IndInv /\ [Next]_vars
        => [\A r, q \in Reqs :
              pc[r] = "ok" /\ pc[q] # "ok" /\ pc'[q] = "ok" /\ key[r] \in Keys /\ key'[q] = key[r]
                => seen'[q] >= seen[r]]_vars
  BY AnswerStep
<1>2. QED
  BY <1>1, Invariance, PTL DEF Spec, AnswersMonotone

-----------------------------------------------------------------------------
(* A key of the client's cache.                                            *)

(* What holds of every request.  The request that is under way is the one  *)
(* the entry stores, so there is one; and what it brings is not older than *)
(* what the entry holds.                                                   *)
LoadInv(l) ==
  /\ Live(l) => l = promise /\ (mounted # {} \/ timer)
  /\ loads[l].stage = "answered" =>
       /\ loads[l].snap \in 1 .. data
       /\ loads[l].snap >= value
       /\ loads[l].overtaken \/ loads[l].snap >= told

(* What holds of the entry.                                                *)
PromiseInv == promise # NoLoad => loads[promise].stage # "free" /\ ~loads[promise].orphan
VersionInv == value <= data /\ told <= data
WaitInv ==
  mounted # {} /\ ~cut =>
    /\ promise # NoLoad => Live(promise)
    /\ value = 0 /\ ~error => promise # NoLoad

ResourceInv ==
  /\ ResourceTypeOK
  /\ \A l \in Loads : LoadInv(l)
  /\ PromiseInv
  /\ VersionInv
  /\ WaitInv
  /\ FreshSinceUnlessLate

-----------------------------------------------------------------------------
(* Changes of one request.                                                 *)

\* The fields of a request that was put together from its parts.
LEMMA Parts ==
  ASSUME NEW st \in Stages, NEW v \in 0 .. Newest, NEW o \in BOOLEAN, NEW t \in BOOLEAN
  PROVE  /\ ALoad(st, v, o, t) \in Load
         /\ ALoad(st, v, o, t).stage = st
         /\ ALoad(st, v, o, t).snap = v
         /\ ALoad(st, v, o, t).orphan = o
         /\ ALoad(st, v, o, t).overtaken = t
BY DEF ALoad, Load

\* A change of one request leaves the others as they were.
LEMMA OneChanged ==
  ASSUME ResourceTypeOK, NEW l \in Loads, NEW r \in Load, loads' = [loads EXCEPT ![l] = r]
  PROVE  /\ loads' \in [Loads -> Load]
         /\ loads'[l] = r
         /\ \A m \in Loads : m # l => loads'[m] = loads[m]
BY DEF ResourceTypeOK

\* What the type invariant says of a request, field by field.
LEMMA Fields ==
  ASSUME ResourceTypeOK, NEW l \in Loads
  PROVE  /\ loads[l].stage \in Stages
         /\ loads[l].snap \in 0 .. Newest
         /\ loads[l].orphan \in BOOLEAN
         /\ loads[l].overtaken \in BOOLEAN
BY DEF ResourceTypeOK, Load

\* load() with no promise stored sends a request and stores it.
LEMMA FetchSends ==
  ASSUME ResourceTypeOK, Fetch
  PROVE  /\ promise = NoLoad
         /\ promise' \in Loads
         /\ error' = FALSE
         /\ loads' \in [Loads -> Load]
         /\ loads[promise'] = Free
         /\ loads'[promise'].stage = "sent"
         /\ loads'[promise'].orphan = FALSE
         /\ \A m \in Loads : m # promise' => loads'[m] = loads[m]
<1>1. PICK l \in Loads : loads[l] = Free /\ loads' = [loads EXCEPT ![l] = Sent] /\ promise' = l
  BY DEF Fetch
<1>2. Sent \in Load /\ Sent.stage = "sent" /\ Sent.orphan = FALSE
  <2>1. "sent" \in Stages /\ 0 \in 0 .. Newest
    BY NewestAssumption DEF Stages
  <2>2. QED
    BY <2>1, Parts DEF Sent
<1>3. QED
  BY <1>1, <1>2, OneChanged DEF Fetch

\* When a request settles, its place is free and, if it was the entry's, so is
\* the entry.
LEMMA ClearedFrees ==
  ASSUME ResourceTypeOK, NEW l \in Loads, Cleared(l)
  PROVE  /\ promise' \in Loads \cup {NoLoad}
         /\ promise' = IF promise = l THEN NoLoad ELSE promise
         /\ loads' \in [Loads -> Load]
         /\ loads'[l].stage = "free"
         /\ \A m \in Loads : m # l => loads'[m] = loads[m]
<1>1. Free \in Load /\ Free.stage = "free"
  <2>1. "free" \in Stages /\ 0 \in 0 .. Newest
    BY NewestAssumption DEF Stages
  <2>2. QED
    BY <2>1, Parts DEF Free
<1>2. QED
  BY <1>1, OneChanged DEF Cleared, ResourceTypeOK

-----------------------------------------------------------------------------
(* The invariant, action by action.                                        *)

\* The entry starts empty, with no component and no request.
LEMMA ResourceInitInv == ResourceInit => ResourceInv
<1> SUFFICES ASSUME ResourceInit PROVE ResourceInv
  OBVIOUS
<1>1. "free" \in Stages /\ 0 \in 0 .. Newest /\ 1 \in Versions
  BY NewestAssumption DEF Stages, Versions
<1>2. Free \in Load /\ Free.stage = "free"
  BY <1>1, Parts DEF Free
<1>3. ResourceTypeOK
  BY <1>1, <1>2 DEF ResourceInit, ResourceTypeOK
<1>4. \A l \in Loads : LoadInv(l)
  BY <1>2 DEF ResourceInit, LoadInv, Live
<1>5. PromiseInv /\ VersionInv /\ WaitInv /\ FreshSinceUnlessLate
  BY DEF ResourceInit, PromiseInv, VersionInv, WaitInv, FreshSinceUnlessLate
<1>6. QED
  BY <1>3, <1>4, <1>5 DEF ResourceInv

\* The parts of the invariant that load() keeps when it sends a request, with
\* somebody there to wait for it.
LEMMA FetchKeeps ==
  ASSUME ResourceInv, Fetch, mounted' # {}
  PROVE  /\ \A l \in Loads : LoadInv(l)'
         /\ PromiseInv'
         /\ WaitInv'
<1> DEFINE p == promise'
<1>1. ResourceTypeOK
  BY DEF ResourceInv
<1>2. /\ promise = NoLoad
      /\ p \in Loads
      /\ loads'[p].stage = "sent"
      /\ loads'[p].orphan = FALSE
      /\ \A m \in Loads : m # p => loads'[m] = loads[m]
  BY <1>1, FetchSends
<1>3. ASSUME NEW l \in Loads
      PROVE  LoadInv(l)'
  <2>1. CASE l = p
    BY <1>2, <2>1 DEF LoadInv, Live
  <2>2. CASE l # p
    <3>1. loads'[l] = loads[l] /\ LoadInv(l) /\ ~Live(l)
      BY <1>2, <2>2, NoLoadAssumption DEF ResourceInv, LoadInv
    <3>2. loads'[l].stage # "answered" /\ ~Live(l)'
      BY <3>1 DEF Live
    <3>3. QED
      BY <3>2 DEF LoadInv
  <2>3. QED
    BY <2>1, <2>2
<1>4. PromiseInv'
  BY <1>2 DEF PromiseInv
<1>5. Live(promise)' /\ promise' # NoLoad
  BY <1>2, NoLoadAssumption DEF Live
<1>6. WaitInv'
  BY <1>5 DEF WaitInv
<1>7. QED
  BY <1>3, <1>4, <1>6

\* A mounting component finds a load in flight, starts one, or has fresh data.
LEMMA MountInv ==
  ASSUME ResourceInv, NEW c \in Components, Mount(c)
  PROVE  ResourceInv'
<1> USE DEF ResourceInv
<1>1. /\ promise' \in Loads \cup {NoLoad}
      /\ loads' \in [Loads -> Load]
      /\ error' \in BOOLEAN
  BY FetchSends DEF Mount, LoadShared, ResourceTypeOK
<1>2. cut' \in BOOLEAN /\ timer' \in BOOLEAN
  BY DEF Mount, ResourceTypeOK
<1>3. ResourceTypeOK'
  BY <1>1, <1>2 DEF Mount, ResourceTypeOK
<1>4. mounted' # {}
  BY DEF Mount
<1>5. CASE Fetch
  <2>1. (\A l \in Loads : LoadInv(l)') /\ PromiseInv' /\ WaitInv'
    BY <1>4, <1>5, FetchKeeps DEF Mount
  <2>2. VersionInv' /\ FreshSinceUnlessLate'
    BY DEF Mount, VersionInv, FreshSinceUnlessLate
  <2>3. QED
    BY <1>3, <2>1, <2>2
<1>6. CASE UNCHANGED <<loads, promise, error>>
  <2>1. \A l \in Loads : LoadInv(l)'
    BY <1>4, <1>6 DEF Mount, LoadInv, Live
  <2>2. PromiseInv' /\ VersionInv' /\ FreshSinceUnlessLate'
    BY <1>6 DEF Mount, PromiseInv, VersionInv, FreshSinceUnlessLate
  <2>3. ~cut' => (promise # NoLoad => Live(promise))
    BY Fields DEF Mount, ResourceTypeOK, PromiseInv, Live, Stages
  <2>4. value = 0 => promise # NoLoad
    <3>1. promise = NoLoad => at = "fresh"
      BY <1>6, NoLoadAssumption DEF Mount, LoadShared, Fetch
    <3>2. QED
      BY <3>1 DEF ResourceTypeOK
  <2>5. WaitInv'
    BY <1>6, <2>3, <2>4 DEF Mount, WaitInv, Live
  <2>6. QED
    BY <1>3, <2>1, <2>2, <2>5
<1>7. QED
  BY <1>5, <1>6 DEF Mount, LoadShared

\* The last component to leave a load in flight arms the timer.
LEMMA UnmountInv ==
  ASSUME ResourceInv, NEW c \in Components, Unmount(c)
  PROVE  ResourceInv'
<1> USE DEF ResourceInv
<1>1. ResourceTypeOK'
  BY DEF Unmount, ResourceTypeOK
<1>2. ASSUME NEW l \in Loads, Live(l)
      PROVE  mounted' # {} \/ timer'
  <2>1. promise # NoLoad
    BY <1>2, NoLoadAssumption DEF LoadInv
  <2>2. QED
    BY <2>1 DEF Unmount
<1>3. \A l \in Loads : LoadInv(l)'
  BY <1>2 DEF Unmount, LoadInv, Live
<1>4. PromiseInv' /\ VersionInv' /\ FreshSinceUnlessLate'
  BY DEF Unmount, PromiseInv, VersionInv, FreshSinceUnlessLate
<1>5. WaitInv'
  BY DEF Unmount, WaitInv, Live
<1>6. QED
  BY <1>1, <1>3, <1>4, <1>5

\* refresh() takes the load in flight or starts one.
LEMMA RefreshInv ==
  ASSUME ResourceInv, Refresh
  PROVE  ResourceInv'
<1> USE DEF ResourceInv
<1>1. ResourceTypeOK'
  BY FetchSends DEF Refresh, LoadShared, ResourceTypeOK
<1>2. VersionInv' /\ FreshSinceUnlessLate'
  BY DEF Refresh, VersionInv, FreshSinceUnlessLate
<1>3. CASE Fetch
  <2>1. (\A l \in Loads : LoadInv(l)') /\ PromiseInv' /\ WaitInv'
    BY <1>3, FetchKeeps DEF Refresh
  <2>2. QED
    BY <1>1, <1>2, <2>1
<1>4. CASE UNCHANGED <<loads, promise, error>>
  BY <1>1, <1>2, <1>4 DEF Refresh, LoadInv, PromiseInv, WaitInv, Live
<1>5. QED
  BY <1>3, <1>4 DEF Refresh, LoadShared

\* The timer aborts the entry's request when nobody listens.
LEMMA GraceOverInv ==
  ASSUME ResourceInv, GraceOver
  PROVE  ResourceInv'
<1> USE DEF ResourceInv
<1>1. VersionInv' /\ FreshSinceUnlessLate'
  BY DEF GraceOver, VersionInv, FreshSinceUnlessLate
<1>2. CASE mounted = {} /\ promise # NoLoad
  <2>1. promise \in Loads
    BY <1>2 DEF ResourceTypeOK
  <2>2. /\ Aborted(promise) \in Load
        /\ Aborted(promise).stage = "aborted"
        /\ Aborted(promise).orphan = loads[promise].orphan
    BY <2>1, Fields, Parts DEF Aborted, Stages
  <2>3. /\ loads' \in [Loads -> Load]
        /\ loads'[promise] = Aborted(promise)
        /\ \A m \in Loads : m # promise => loads'[m] = loads[m]
    BY <1>2, <2>1, <2>2, OneChanged DEF GraceOver
  <2>4. ResourceTypeOK'
    BY <2>3 DEF GraceOver, ResourceTypeOK
  <2>5. \A l \in Loads : LoadInv(l)'
    BY <2>2, <2>3 DEF GraceOver, LoadInv, Live
  <2>6. PromiseInv' /\ WaitInv'
    BY <1>2, <2>2, <2>3 DEF GraceOver, PromiseInv, WaitInv
  <2>7. QED
    BY <1>1, <2>4, <2>5, <2>6
<1>3. CASE ~(mounted = {} /\ promise # NoLoad)
  <2>1. UNCHANGED <<loads, promise, mounted>>
    BY <1>3 DEF GraceOver
  <2>2. \A l \in Loads : Live(l) => mounted # {}
    BY <1>3, NoLoadAssumption DEF LoadInv
  <2>3. ResourceTypeOK' /\ PromiseInv' /\ WaitInv'
    BY <2>1 DEF GraceOver, ResourceTypeOK, PromiseInv, WaitInv, Live
  <2>4. \A l \in Loads : LoadInv(l)'
    BY <2>1, <2>2 DEF GraceOver, LoadInv, Live
  <2>5. QED
    BY <1>1, <2>3, <2>4
<1>4. QED
  BY <1>2, <1>3

\* Time and changes of the org touch no request.
LEMMA SurroundingsInv ==
  ASSUME ResourceInv, ExpireEntry \/ Mutate \/ UNCHANGED resourceVars
  PROVE  ResourceInv'
<1> USE DEF ResourceInv
<1>1. UNCHANGED <<value, promise, timer, mounted, loads, told, late, cut, error>>
  BY DEF ExpireEntry, Mutate, resourceVars
<1>2. data \in 1 .. Newest /\ data' \in 1 .. Newest /\ data' >= data
  BY NewestAssumption DEF ExpireEntry, Mutate, resourceVars, ResourceTypeOK, Versions
<1>3. at' \in {"never", "fresh", "expired"} /\ (value = 0 => at' = "never")
      /\ (at' = "fresh" => at = "fresh")
  BY DEF ExpireEntry, Mutate, resourceVars, ResourceTypeOK
<1>4. ResourceTypeOK'
  BY <1>1, <1>2, <1>3 DEF ResourceTypeOK, Versions
<1>5. ASSUME NEW l \in Loads
      PROVE  LoadInv(l)'
  <2>1. LoadInv(l) /\ loads[l].snap \in 0 .. Newest
    BY Fields
  <2>2. QED
    BY <1>1, <1>2, <2>1 DEF LoadInv, Live
<1>6. PromiseInv' /\ WaitInv' /\ FreshSinceUnlessLate'
  BY <1>1, <1>3 DEF PromiseInv, WaitInv, FreshSinceUnlessLate, Live
<1>7. VersionInv'
  BY <1>1, <1>2 DEF VersionInv, ResourceTypeOK
<1>8. QED
  BY <1>4, <1>5, <1>6, <1>7

\* An answer brings the current version, which nothing exceeds.
LEMMA ServerAnswerInv ==
  ASSUME ResourceInv, NEW l \in Loads, Answer(l)
  PROVE  ResourceInv'
<1> USE DEF ResourceInv
<1> DEFINE r == ALoad("answered", data, loads[l].orphan, loads[l].overtaken)
<1>1. data \in 1 .. Newest /\ data \in 0 .. Newest /\ "answered" \in Stages
  BY NewestAssumption DEF ResourceTypeOK, Versions, Stages
<1>2. /\ r \in Load /\ r.stage = "answered" /\ r.snap = data
      /\ r.orphan = loads[l].orphan
  BY <1>1, Fields, Parts
<1>3. /\ loads' \in [Loads -> Load]
      /\ loads'[l] = r
      /\ \A m \in Loads : m # l => loads'[m] = loads[m]
  <2>1. loads' = [loads EXCEPT ![l] = r]
    BY DEF Answer
  <2>2. QED
    BY <1>2, <2>1, OneChanged
<1>4. ResourceTypeOK'
  BY <1>3 DEF Answer, ResourceTypeOK
<1>5. Live(l) /\ Live(l)'
  BY <1>2, <1>3 DEF Answer, Live
<1>6. ASSUME NEW m \in Loads
      PROVE  LoadInv(m)'
  <2>1. CASE m = l
    <3>1. loads'[m].snap = data /\ data \in 1 .. data /\ data >= value /\ data >= told
      BY <1>1, <1>2, <1>3, <2>1 DEF VersionInv, ResourceTypeOK, Versions
    <3>2. QED
      BY <1>5, <2>1, <3>1 DEF Answer, LoadInv
  <2>2. CASE m # l
    BY <1>3, <2>2 DEF Answer, LoadInv, Live
  <2>3. QED
    BY <2>1, <2>2
<1>7. PromiseInv'
  BY <1>2, <1>3 DEF Answer, PromiseInv, ResourceTypeOK
<1>8. WaitInv'
  BY <1>3, <1>5 DEF Answer, WaitInv, Live, ResourceTypeOK
<1>9. VersionInv' /\ FreshSinceUnlessLate'
  BY DEF Answer, VersionInv, FreshSinceUnlessLate
<1>10. QED
  BY <1>4, <1>6, <1>7, <1>8, <1>9

\* A request that settles leaves the others as they were, and nothing in the
\* entry if it was the entry's.
LEMMA SettleKeeps ==
  ASSUME ResourceInv, NEW l \in Loads, Cleared(l), loads[l].stage # "free",
         UNCHANGED <<data, timer, mounted, told>>,
         value' = value \/ (\A m \in Loads : Live(m) => m = l)
  PROVE  /\ \A m \in Loads : LoadInv(m)'
         /\ PromiseInv'
<1>1. ResourceTypeOK
  BY DEF ResourceInv
<1>2. /\ promise' = IF promise = l THEN NoLoad ELSE promise
      /\ loads'[l].stage = "free"
      /\ \A m \in Loads : m # l => loads'[m] = loads[m]
  BY <1>1, ClearedFrees
<1>3. ASSUME NEW m \in Loads
      PROVE  LoadInv(m)'
  <2>1. CASE m = l
    BY <1>2, <2>1 DEF LoadInv, Live
  <2>2. CASE m # l
    <3>1. LoadInv(m) /\ loads'[m] = loads[m]
      BY <1>2, <2>2 DEF ResourceInv
    <3>2. (Live(m) => value' = value) /\ (Live(m)' <=> Live(m))
      BY <2>2, <3>1 DEF Live
    <3>3. Live(m) => promise' = m
      BY <1>2, <2>2, <3>1 DEF LoadInv
    <3>4. QED
      BY <3>1, <3>2, <3>3 DEF LoadInv, Live
  <2>3. QED
    BY <2>1, <2>2
<1>4. PromiseInv'
  BY <1>1, <1>2 DEF ResourceInv, PromiseInv, ResourceTypeOK
<1>5. QED
  BY <1>3, <1>4

\* A load that succeeds belongs to the entry: it stores what it brings.
LEMMA ResolveInv ==
  ASSUME ResourceInv, NEW l \in Loads, Resolve(l)
  PROVE  ResourceInv'
<1> USE DEF ResourceInv
<1>1. /\ loads[l].stage = "answered" /\ LoadInv(l) /\ Live(l)
      /\ l = promise /\ promise # NoLoad /\ ~loads[l].orphan
  BY NoLoadAssumption DEF Resolve, LoadInv, Live, PromiseInv
<1>2. /\ loads[l].snap \in 1 .. data /\ loads[l].snap \in 0 .. Newest
      /\ loads[l].overtaken \in BOOLEAN
      /\ (loads[l].overtaken \/ loads[l].snap >= told)
  BY <1>1, Fields DEF LoadInv
<1>3. /\ value' = loads[l].snap /\ at' = "fresh" /\ error' = FALSE
      /\ late' = loads[l].overtaken /\ UNCHANGED <<data, timer, mounted, told, cut>>
      /\ Cleared(l)
  BY <1>1 DEF Resolve
<1>4. \A m \in Loads : Live(m) => m = l
  BY <1>1 DEF LoadInv
<1>5. promise' \in Loads \cup {NoLoad} /\ loads' \in [Loads -> Load] /\ promise' = NoLoad
  BY <1>1, <1>3, ClearedFrees
<1>6. value' # 0 /\ value' <= data
  BY <1>2, <1>3 DEF ResourceTypeOK, Versions
<1>7. ResourceTypeOK'
  BY <1>2, <1>3, <1>5, <1>6 DEF ResourceTypeOK
<1>8. (\A m \in Loads : LoadInv(m)') /\ PromiseInv'
  BY <1>1, <1>3, <1>4, SettleKeeps
<1>9. VersionInv' /\ WaitInv' /\ FreshSinceUnlessLate'
  BY <1>2, <1>3, <1>5, <1>6 DEF VersionInv, WaitInv, FreshSinceUnlessLate
<1>10. QED
  BY <1>7, <1>8, <1>9

\* A load that fails leaves an error.
LEMMA FailInv ==
  ASSUME ResourceInv, NEW l \in Loads, Fail(l)
  PROVE  ResourceInv'
<1> USE DEF ResourceInv
<1>1. /\ loads[l].stage # "free" /\ l = promise /\ promise # NoLoad /\ ~loads[l].orphan
  BY NoLoadAssumption DEF Fail, LoadInv, Live, PromiseInv
<1>2. /\ error' = TRUE /\ Cleared(l)
      /\ UNCHANGED <<data, value, at, timer, mounted, told, late, cut>>
  BY <1>1 DEF Fail
<1>3. promise' = NoLoad /\ loads' \in [Loads -> Load]
  BY <1>1, <1>2, ClearedFrees
<1>4. ResourceTypeOK'
  BY <1>2, <1>3 DEF ResourceTypeOK
<1>5. (\A m \in Loads : LoadInv(m)') /\ PromiseInv'
  BY <1>1, <1>2, SettleKeeps
<1>6. VersionInv' /\ WaitInv' /\ FreshSinceUnlessLate'
  BY <1>2, <1>3 DEF VersionInv, WaitInv, FreshSinceUnlessLate
<1>7. QED
  BY <1>4, <1>5, <1>6

\* An aborted load that settles leaves nothing; if it was the entry's, somebody
\* had been mounted over it, or nobody is there.
LEMMA AbortSettlesInv ==
  ASSUME ResourceInv, NEW l \in Loads, AbortSettles(l)
  PROVE  ResourceInv'
<1> USE DEF ResourceInv
<1>1. /\ loads[l].stage = "aborted" /\ Cleared(l)
      /\ UNCHANGED <<data, value, at, error, timer, mounted, told, late, cut>>
  BY DEF AbortSettles
<1>2. /\ promise' \in Loads \cup {NoLoad}
      /\ promise' = IF promise = l THEN NoLoad ELSE promise
      /\ loads' \in [Loads -> Load]
      /\ \A m \in Loads : m # l => loads'[m] = loads[m]
  BY <1>1, ClearedFrees
<1>3. ResourceTypeOK'
  BY <1>1, <1>2 DEF ResourceTypeOK
<1>4. (\A m \in Loads : LoadInv(m)') /\ PromiseInv'
  BY <1>1, SettleKeeps
<1>5. VersionInv' /\ FreshSinceUnlessLate'
  BY <1>1 DEF VersionInv, FreshSinceUnlessLate
<1>6. ASSUME mounted # {}, ~cut
      PROVE  promise # l /\ (promise # NoLoad => loads'[promise] = loads[promise])
  <2>1. promise # l
    BY <1>1, <1>6, NoLoadAssumption DEF WaitInv, Live
  <2>2. QED
    BY <1>2, <2>1 DEF ResourceTypeOK
<1>7. WaitInv'
  BY <1>1, <1>2, <1>6 DEF WaitInv, Live
<1>8. QED
  BY <1>3, <1>4, <1>5, <1>7

\* invalidate() sends a request for whom is there, or marks the one under way.
LEMMA InvalidateAllInv ==
  ASSUME ResourceInv, InvalidateAll
  PROVE  ResourceInv'
<1> USE DEF ResourceInv
<1>1. told' = data /\ data \in 0 .. Newest /\ at' = "never"
      /\ UNCHANGED <<data, value, timer, mounted, late, cut>>
  BY NewestAssumption DEF InvalidateAll, ResourceTypeOK, Versions
<1>2. VersionInv' /\ FreshSinceUnlessLate'
  BY <1>1 DEF VersionInv, FreshSinceUnlessLate, ResourceTypeOK, Versions
<1>3. CASE mounted # {} /\ promise = NoLoad
  <2>1. Fetch
    BY <1>3 DEF InvalidateAll
  <2>2. ResourceTypeOK'
    BY <1>1, <2>1, FetchSends DEF ResourceTypeOK
  <2>3. (\A l \in Loads : LoadInv(l)') /\ PromiseInv' /\ WaitInv'
    BY <1>1, <1>3, <2>1, FetchKeeps
  <2>4. QED
    BY <1>2, <2>2, <2>3
<1>4. CASE mounted = {} /\ promise = NoLoad
  <2>1. UNCHANGED <<loads, promise, error>>
    BY <1>4 DEF InvalidateAll, Overtaken
  <2>2. \A l \in Loads : ~Live(l)
    BY <1>4, NoLoadAssumption DEF LoadInv
  <2>3. \A l \in Loads : LoadInv(l)'
    BY <2>1, <2>2 DEF LoadInv, Live
  <2>4. ResourceTypeOK' /\ PromiseInv' /\ WaitInv'
    BY <1>1, <1>4, <2>1 DEF ResourceTypeOK, PromiseInv, WaitInv, Live
  <2>5. QED
    BY <1>2, <2>3, <2>4
<1>5. CASE promise # NoLoad
  <2> DEFINE p == loads[promise]
             r == ALoad(p.stage, p.snap, p.orphan, TRUE)
  <2>1. promise \in Loads
    BY <1>5 DEF ResourceTypeOK
  <2>2. /\ r \in Load /\ r.stage = p.stage /\ r.snap = p.snap
        /\ r.orphan = p.orphan /\ r.overtaken = TRUE
    <3>1. /\ p.stage \in Stages /\ p.snap \in 0 .. Newest
          /\ p.orphan \in BOOLEAN /\ TRUE \in BOOLEAN
      BY <2>1, Fields
    <3>2. QED
      BY <3>1 DEF ALoad, Load
  <2>3. UNCHANGED <<promise, error>> /\ loads' = [loads EXCEPT ![promise] = r]
    BY <1>5 DEF InvalidateAll, Overtaken
  <2>4. /\ loads' \in [Loads -> Load]
        /\ loads'[promise] = r
        /\ \A m \in Loads : m # promise => loads'[m] = loads[m]
    BY <2>1, <2>2, <2>3, OneChanged
  <2>5. ResourceTypeOK'
    BY <1>1, <2>3, <2>4 DEF ResourceTypeOK
  <2>6. ASSUME NEW l \in Loads
        PROVE  LoadInv(l)'
    <3>1. CASE l = promise
      BY <1>1, <2>2, <2>3, <2>4, <3>1 DEF LoadInv, Live
    <3>2. CASE l # promise
      <4>1. loads'[l] = loads[l] /\ ~Live(l)
        BY <2>4, <3>2 DEF LoadInv
      <4>2. QED
        BY <4>1 DEF LoadInv, Live
    <3>3. QED
      BY <3>1, <3>2
  <2>7. PromiseInv'
    BY <2>2, <2>3, <2>4 DEF PromiseInv
  <2>8. WaitInv'
    BY <1>1, <2>2, <2>3, <2>4 DEF WaitInv, Live
  <2>9. QED
    BY <1>2, <2>5, <2>6, <2>7, <2>8
<1>6. QED
  BY <1>3, <1>4, <1>5

\* clearResources() leaves no live request of before behind.
LEMMA ClearInv ==
  ASSUME ResourceInv, Clear
  PROVE  ResourceInv'
<1> USE DEF ResourceInv
<1>1. /\ value' = 0 /\ at' = "never" /\ timer' = (timer /\ mounted # {})
      /\ UNCHANGED <<data, mounted, told, late>>
  BY DEF Clear, Reset
<1>2. VersionInv' /\ FreshSinceUnlessLate'
  BY <1>1 DEF VersionInv, FreshSinceUnlessLate, ResourceTypeOK, Versions
<1>3. 0 \in 0 .. Newest
  BY NewestAssumption
<1>4. CASE ClearIdle /\ mounted # {}
  <2>1. Fetch /\ UNCHANGED cut
    BY <1>4 DEF ClearIdle
  <2>2. ResourceTypeOK'
    BY <1>1, <1>3, <2>1, FetchSends DEF ResourceTypeOK
  <2>3. (\A l \in Loads : LoadInv(l)') /\ PromiseInv' /\ WaitInv'
    BY <1>1, <1>4, <2>1, FetchKeeps
  <2>4. QED
    BY <1>2, <2>2, <2>3
<1>5. CASE ClearIdle /\ mounted = {}
  <2>1. error' = FALSE /\ promise = NoLoad /\ UNCHANGED <<promise, loads, cut>>
    BY <1>5 DEF ClearIdle
  <2>2. \A l \in Loads : ~Live(l)
    BY <2>1, NoLoadAssumption DEF LoadInv
  <2>3. \A l \in Loads : LoadInv(l)'
    BY <2>1, <2>2 DEF LoadInv, Live
  <2>4. ResourceTypeOK' /\ PromiseInv' /\ WaitInv'
    BY <1>1, <1>3, <1>5, <2>1 DEF ResourceTypeOK, PromiseInv, WaitInv
  <2>5. QED
    BY <1>2, <2>3, <2>4
<1>6. CASE promise # NoLoad /\ ClearTo("aborted")
  <2> DEFINE r == ALoad("aborted", loads[promise].snap, mounted = {}, loads[promise].overtaken)
  <2>1. promise \in Loads
    BY <1>6 DEF ResourceTypeOK
  <2>2. r \in Load /\ r.stage = "aborted" /\ r.orphan = (mounted = {})
    <3>1. /\ "aborted" \in Stages /\ (mounted = {}) \in BOOLEAN
          /\ loads[promise].snap \in 0 .. Newest
          /\ loads[promise].overtaken \in BOOLEAN
      BY <2>1, Fields DEF Stages
    <3>2. QED
      BY <3>1 DEF ALoad, Load
  <2>3. loads' = [loads EXCEPT ![promise] = r]
    BY <1>6 DEF ClearTo
  <2>4. /\ loads' \in [Loads -> Load]
        /\ loads'[promise] = r
        /\ \A m \in Loads : m # promise => loads'[m] = loads[m]
    BY <2>1, <2>2, <2>3, OneChanged
  <2>5. promise' = (IF mounted = {} THEN NoLoad ELSE promise) /\ error' = FALSE
        /\ cut' = (cut \/ mounted # {})
    BY <1>6 DEF ClearTo
  <2>6. ResourceTypeOK'
    BY <1>1, <1>3, <2>1, <2>4, <2>5 DEF ResourceTypeOK
  <2>7. ASSUME NEW l \in Loads
        PROVE  LoadInv(l)'
    <3>1. loads'[l].stage \notin {"sent", "answered"}
      BY <2>2, <2>4 DEF LoadInv, Live
    <3>2. QED
      BY <3>1 DEF LoadInv, Live
  <2>8. PromiseInv' /\ WaitInv'
    BY <1>1, <2>2, <2>4, <2>5 DEF PromiseInv, WaitInv
  <2>9. QED
    BY <1>2, <2>6, <2>7, <2>8
<1>7. QED
  BY <1>4, <1>5, <1>6 DEF Clear, ClearIdle

\* Every step of the cache keeps the invariant.
LEMMA ResourceNextInv == ResourceInv /\ [ResourceNext]_resourceVars => ResourceInv'
BY MountInv, UnmountInv, RefreshInv, GraceOverInv, SurroundingsInv, ServerAnswerInv,
   ResolveInv, FailInv, AbortSettlesInv, InvalidateAllInv, ClearInv DEF ResourceNext

\* The invariant holds in every state that the cache reaches.
THEOREM ResourceInvariance == ResourceSpec => []ResourceInv
BY ResourceInitInv, ResourceNextInv, PTL DEF ResourceSpec

-----------------------------------------------------------------------------
(* What follows from it.                                                   *)

\* Every variable keeps its type, and a timestamp never comes without a value.
THEOREM ResourceTypeCorrect == ResourceSpec => []ResourceTypeOK
BY ResourceInvariance, PTL DEF ResourceInv

\* However components come and go and whatever is cleared, the browser has at
\* most one request for the key under way.
THEOREM RequestsAreShared == ResourceSpec => []OneRequest
<1>1. ResourceInv => OneRequest
  BY DEF ResourceInv, LoadInv, OneRequest
<1>2. QED
  BY <1>1, ResourceInvariance, PTL

\* No request runs on without a component that waits for it or an abort that is
\* scheduled.
THEOREM NobodyRunsUnwatched == ResourceSpec => []WatchedOrEnding
<1>1. ResourceInv => WatchedOrEnding
  BY DEF ResourceInv, LoadInv, WatchedOrEnding
<1>2. QED
  BY <1>1, ResourceInvariance, PTL

\* Data that counts as fresh was read after the last invalidation, unless its
\* load was under way when that came.
THEOREM FreshDataIsRecent == ResourceSpec => []FreshSinceUnlessLate
BY ResourceInvariance, PTL DEF ResourceInv

\* A component with nothing to show has a live request, unless a component has
\* been mounted over an aborted one.
THEOREM PendingMeansLoading == ResourceSpec => []PendingIsLoading
<1>1. ResourceInv => PendingIsLoading
  BY DEF ResourceInv, WaitInv, PendingIsLoading
<1>2. QED
  BY <1>1, ResourceInvariance, PTL

\* Data never gives way to older data, short of the cache being cleared.
THEOREM DataNeverGoesBack == ResourceSpec => NeverOlder
<1>1. ResourceInv /\ [ResourceNext]_resourceVars => [value' = 0 \/ value' >= value]_resourceVars
  <2> SUFFICES ASSUME ResourceInv, ResourceNext
               PROVE  value' = 0 \/ value' >= value
    BY DEF resourceVars
  <2>1. ASSUME NEW l \in Loads, Resolve(l)
        PROVE  value' >= value
    BY <2>1 DEF ResourceInv, LoadInv, Resolve, ResourceTypeOK
  <2>2. value' = value => value' >= value
    BY DEF ResourceInv, ResourceTypeOK
  <2>3. QED
    BY <2>1, <2>2
    DEF ResourceNext, Mount, Unmount, Refresh, GraceOver, ExpireEntry, Mutate, Answer, Fail,
        AbortSettles, InvalidateAll, Clear, Reset
<1>2. QED
  BY <1>1, ResourceInvariance, PTL DEF ResourceSpec, NeverOlder
=============================================================================
