------------------------ MODULE InspectorLedger_proofs ------------------------
(***************************************************************************)
(* Inspector implements RecordLedger too, for any requests, backends and   *)
(* faults, any finite set of workers and any queue size: what StoreQueue's *)
(* locks and channel promise survives every database call of the workers.  *)
(***************************************************************************)
EXTENDS Inspector_proofs, QueueCounting

\* What a request's fate says of where it is: the other half of PlaceInv.
NoOrphan ==
  \A q \in Requests :
    /\ fate[q] = "queued" => \E i \in DOMAIN storeCh : storeCh[i] = q
    /\ fate[q] = "storing" => \E w \in Workers : q \in job[w]

\* What storeRequestAsync leaves of the queue: its request is settled and out of
\* the worker's hands, or everything is where it was.
LEMMA RoundEffect ==
  ASSUME IInv, NEW w \in Workers, storeRequestAsync(w)
  PROVE  /\ UNCHANGED storeCh
         /\ \/ UNCHANGED <<job, fate>>
            \/ \E q \in Requests :
                 /\ job[w] = {q} /\ fate[q] = "storing"
                 /\ \A v \in Workers : job'[v] = IF v = w THEN {} ELSE job[v]
                 /\ fate'[q] \in {"recorded", "skipped", "failed"}
                 /\ \A x \in Requests : x # q => fate'[x] = fate[x]
<1> USE DEF IInv
<1>1. PICK q \in job[w] :
        /\ storeCh' = storeCh
        /\ \/ \E result \in {"recorded", "skipped", "failed"} : Return(w, q, result)
           \/ \E pc \in {"ensure", "minimal", "save"} : Goto(w, pc)
  BY WorkerEffect
<1>2. q \in Requests /\ job[w] = {q} /\ fate[q] = "storing"
  BY DEF PlaceInv, TypeOK, PersistTypeOK
<1>3. CASE \E pc \in {"ensure", "minimal", "save"} : Goto(w, pc)
  BY <1>1, <1>3 DEF Goto
<1>4. ASSUME NEW result \in {"recorded", "skipped", "failed"}, Return(w, q, result)
      PROVE  /\ \A v \in Workers : job'[v] = IF v = w THEN {} ELSE job[v]
             /\ fate'[q] = result
             /\ \A x \in Requests : x # q => fate'[x] = fate[x]
  BY <1>2, <1>4 DEF Return, TypeOK, PersistTypeOK
<1> QED BY <1>1, <1>2, <1>3, <1>4

\* A request that is accepted goes to the end of the channel, the first one to a
\* worker, and it leaves the worker's hands only with its fate settled.
LEMMA NoOrphanStep ==
  ASSUME IInv, NoOrphan, [Next]_vars
  PROVE  NoOrphan'
<1> USE DEF IInv
<1>1. ASSUME UNCHANGED <<storeCh, job, fate>> PROVE NoOrphan'
  BY <1>1 DEF NoOrphan
<1>2. ASSUME NEW q \in Requests, QueueStore(q) PROVE NoOrphan'
  <2>1. fate[q] = "new" /\ job' = job
    BY <1>2 DEF QueueStore, PlaceInv
  <2>2. CASE dbDefined /\ Len(storeCh) < QueueSize
    <3>1. storeCh' = Append(storeCh, q) /\ fate' = [fate EXCEPT ![q] = "queued"]
      BY <1>2, <2>2 DEF QueueStore
    <3>2. /\ DOMAIN storeCh' = 1..(Len(storeCh) + 1) /\ DOMAIN storeCh = 1..Len(storeCh)
          /\ Len(storeCh) \in Nat /\ storeCh'[Len(storeCh) + 1] = q
          /\ \A i \in 1..Len(storeCh) : storeCh'[i] = storeCh[i]
      BY <3>1, AppendFacts DEF TypeOK, PersistTypeOK
    <3>3. Len(storeCh) + 1 \in DOMAIN storeCh'
          /\ \A i \in DOMAIN storeCh : i \in DOMAIN storeCh' /\ storeCh'[i] = storeCh[i]
      BY <3>2
    <3>4. \A x \in Requests : fate'[x] = IF x = q THEN "queued" ELSE fate[x]
      BY <3>1 DEF TypeOK, PersistTypeOK
    <3> QED BY <2>1, <3>2, <3>3, <3>4 DEF NoOrphan
  <2>3. CASE ~(dbDefined /\ Len(storeCh) < QueueSize)
    <3>1. storeCh' = storeCh /\ fate' = [fate EXCEPT ![q] = "turnedAway"]
      BY <1>2, <2>3 DEF QueueStore
    <3> QED BY <2>1, <3>1 DEF NoOrphan, TypeOK, PersistTypeOK
  <2> QED BY <2>2, <2>3
<1>3. ASSUME NEW w \in Workers, Take(w) PROVE NoOrphan'
  <2> DEFINE h == Head(storeCh)
  <2>1. /\ h \in Requests /\ h = storeCh[1] /\ Len(storeCh) \in Nat \ {0}
        /\ DOMAIN storeCh = 1..Len(storeCh)
        /\ DOMAIN storeCh' = 1..(Len(storeCh) - 1)
        /\ \A i \in 1..(Len(storeCh) - 1) : storeCh'[i] = storeCh[i + 1]
    BY <1>3, TailFacts DEF Take, TypeOK, PersistTypeOK
  <2>2. /\ \A x \in Requests : fate'[x] = IF x = h THEN "storing" ELSE fate[x]
        /\ \A v \in Workers : job'[v] = IF v = w THEN {h} ELSE job[v]
        /\ job[w] = {}
    BY <1>3, <2>1 DEF Take, PlaceInv, TypeOK, PersistTypeOK
  <2> HIDE DEF h
  <2>3. ASSUME NEW x \in Requests, fate'[x] = "queued"
        PROVE  \E i \in DOMAIN storeCh' : storeCh'[i] = x
    <3>1. x # h /\ fate[x] = "queued"
      BY <2>2, <2>3
    <3>2. PICK i \in DOMAIN storeCh : storeCh[i] = x
      BY <3>1 DEF NoOrphan
    <3>3. i - 1 \in 1..(Len(storeCh) - 1) /\ (i - 1) + 1 = i
      BY <2>1, <3>1, <3>2
    <3> QED BY <2>1, <3>2, <3>3
  <2>4. ASSUME NEW x \in Requests, fate'[x] = "storing"
        PROVE  \E v \in Workers : x \in job'[v]
    BY <2>2, <2>4 DEF NoOrphan
  <2> QED BY <2>3, <2>4 DEF NoOrphan
<1>4. ASSUME NEW w \in Workers, storeRequestAsync(w) PROVE NoOrphan'
  <2>1. CASE UNCHANGED <<job, fate>>
    BY <1>1, <1>4, <2>1, RoundEffect
  <2>2. CASE ~UNCHANGED <<job, fate>>
    <3>1. PICK q \in Requests :
            /\ job[w] = {q} /\ fate[q] = "storing" /\ storeCh' = storeCh
            /\ \A v \in Workers : job'[v] = IF v = w THEN {} ELSE job[v]
            /\ fate'[q] \in {"recorded", "skipped", "failed"}
            /\ \A x \in Requests : x # q => fate'[x] = fate[x]
      BY <1>4, <2>2, RoundEffect
    <3> QED BY <3>1 DEF NoOrphan
  <2> QED BY <2>1, <2>2
<1>5. ASSUME NEW q \in Requests, Arrive(q) \/ Located(q) \/ buildHTTPRequest(q) PROVE NoOrphan'
  BY <1>1, <1>5 DEF Arrive, Located, buildHTTPRequest, persistVars
<1>6. CASE UNCHANGED persistVars
  BY <1>1, <1>6 DEF persistVars
<1> QED BY <1>2, <1>3, <1>4, <1>5, <1>6 DEF Next, Handler, Worker, Finished, vars
-------------------------------------------------------------------------------
(* What the fates of the requests are to the ledger.                       *)

LEMMA StatusOf ==
  ASSUME NEW q \in Requests
  PROVE  /\ fate[q] = "new" => Status(q) = "offered"
         /\ fate[q] = "turnedAway" => Status(q) = "turnedAway"
         /\ fate[q] \in {"queued", "storing"} => Status(q) = "accepted"
         /\ fate[q] \in {"recorded", "skipped", "failed"} => Status(q) = "settled"
<1>1. fate[q] = "new" => Status(q) = "offered"
  BY Zenon DEF Status
<1>2. fate[q] = "turnedAway" => Status(q) = "turnedAway"
  BY Zenon DEF Status
<1>3. fate[q] \in {"queued", "storing"} => Status(q) = "accepted"
  BY Zenon DEF Status
<1>4. fate[q] \in {"recorded", "skipped", "failed"} => Status(q) = "settled"
  BY Zenon DEF Status
<1> QED BY <1>1, <1>2, <1>3, <1>4

LEMMA StatusOfNext ==
  ASSUME NEW q \in Requests
  PROVE  /\ fate'[q] = "turnedAway" => Status(q)' = "turnedAway"
         /\ fate'[q] \in {"queued", "storing"} => Status(q)' = "accepted"
         /\ fate'[q] \in {"recorded", "skipped", "failed"} => Status(q)' = "settled"
<1>1. fate'[q] = "turnedAway" => Status(q)' = "turnedAway"
  BY Zenon DEF Status
<1>2. fate'[q] \in {"queued", "storing"} => Status(q)' = "accepted"
  BY Zenon DEF Status
<1>3. fate'[q] \in {"recorded", "skipped", "failed"} => Status(q)' = "settled"
  BY Zenon DEF Status
<1> QED BY <1>1, <1>2, <1>3

\* A step that leaves a fate alone leaves the status alone.
LEMMA StatusKept ==
  ASSUME NEW q \in Requests, fate'[q] = fate[q]
  PROVE  Status(q)' = Status(q)
BY Zenon DEF Status

Statuses == [q \in Requests |-> Status(q)]

\* One request's status becomes s.
LEMMA StatusTo ==
  ASSUME NEW q \in Requests, NEW s, Status(q)' = s,
         \A x \in Requests : x # q => Status(x)' = Status(x)
  PROVE  Statuses' = [Statuses EXCEPT ![q] = s]
BY DEF Statuses

\* Outstanding requests fill the channel and the workers' hands.
LEMMA LedgerCount ==
  ASSUME IInv, NoOrphan
  PROVE  /\ IsFiniteSet(Ledger!Outstanding)
         /\ {Cardinality(Ledger!Outstanding), Cardinality(Workers)} \subseteq Nat
         /\ Len(storeCh) <= Cardinality(Ledger!Outstanding)
         /\ Cardinality(Ledger!Outstanding) <= Len(storeCh) + Cardinality(Workers)
<1> USE DEF IInv
<1> DEFINE Out == Ledger!Outstanding
<1>1. storeCh \in Seq(Requests) /\ \A i, j \in DOMAIN storeCh : storeCh[i] = storeCh[j] => i = j
  BY DEF TypeOK, PersistTypeOK, PlaceInv
<1>2. job \in [Workers -> SUBSET Requests] /\ \A w \in Workers : \A q, r \in job[w] : q = r
  BY DEF TypeOK, PersistTypeOK, PlaceInv
<1>3. Out = Waiting(storeCh) \cup InHand(Requests, Workers, job)
  <2>1. \A q \in Requests : Status(q) = "accepted" <=> fate[q] \in {"queued", "storing"}
    BY StatusOf DEF TypeOK, PersistTypeOK, Fate
  <2>2. \A q \in Requests : [x \in Requests |-> Status(x)][q] = Status(q)
    OBVIOUS
  <2>3. Out = {q \in Requests : fate[q] \in {"queued", "storing"}}
    BY <2>1, <2>2 DEF Ledger!Outstanding
  <2>4. \A i \in DOMAIN storeCh : storeCh[i] \in Requests
    BY <1>1, ElementType
  <2> HIDE DEF Out
  <2> QED BY <2>3, <2>4 DEF PlaceInv, NoOrphan, Waiting, InHand
<1>4. IsFiniteSet(Workers)
  BY PersistAssumption
<1> HIDE DEF Out
<1>5. /\ IsFiniteSet(Out)
      /\ {Cardinality(Out), Cardinality(Workers)} \subseteq Nat
      /\ Len(storeCh) <= Cardinality(Out)
      /\ Cardinality(Out) <= Len(storeCh) + Cardinality(Workers)
  BY <1>1, <1>2, <1>3, <1>4, OutstandingCount
<1> QED BY <1>5 DEF Out

\* The ledger counts with the same Cardinality as this module.
LEMMA SameCardinality == \A S : Ledger!Cardinality(S) = Cardinality(S)
BY Zenon DEF Ledger!Cardinality, Cardinality
-------------------------------------------------------------------------------
(* Each step is one of the ledger's, or none.                              *)

LEMMA LedgerInit == Init => Ledger!Init
<1> SUFFICES ASSUME Init PROVE Ledger!Init
  OBVIOUS
<1>1. \A q \in Requests : Status(q) = "offered"
  BY StatusOf DEF Init, PersistInit
<1>2. dbDefined \in BOOLEAN
  BY DEF dbDefined
<1> QED BY <1>1, <1>2 DEF Ledger!Init

LEMMA Stutter ==
  ASSUME dbDefined' = dbDefined, \A q \in Requests : Status(q)' = Status(q)
  PROVE  UNCHANGED Ledger!vars
BY DEF Ledger!vars

LEMMA QueueStoreRefines ==
  ASSUME IInv, NoOrphan, dbDefined' = dbDefined, NEW q \in Requests, QueueStore(q)
  PROVE  Ledger!Next
<1> USE DEF IInv
<1>1. fate[q] = "new" /\ Status(q) = "offered"
  BY StatusOf DEF QueueStore, PlaceInv
<1>2. QueueSize \in Nat /\ Len(storeCh) \in Nat /\ Cardinality(Workers) \in Nat
  BY Constants, LedgerCount DEF TypeOK, PersistTypeOK
<1>3. CASE dbDefined /\ Len(storeCh) < QueueSize
  <2>1. \A x \in Requests : fate'[x] = IF x = q THEN "queued" ELSE fate[x]
    BY <1>3 DEF QueueStore, TypeOK, PersistTypeOK
  <2>2. Status(q)' = "accepted" /\ Statuses' = [Statuses EXCEPT ![q] = "accepted"]
    BY <2>1, StatusOfNext, StatusKept, StatusTo
  <2>3. Ledger!Outstanding' = Ledger!Outstanding \cup {q} /\ q \notin Ledger!Outstanding
    BY <1>1, <2>2 DEF Ledger!Outstanding, Statuses
  <2>4. Cardinality(Ledger!Outstanding') = Cardinality(Ledger!Outstanding) + 1
    BY <2>3, LedgerCount, FS_AddElement
  <2>5. Cardinality(Ledger!Outstanding') <= QueueSize + Cardinality(Workers)
    BY <1>2, <1>3, <2>4, LedgerCount
  <2>6. Ledger!Accept(q)
    BY <1>1, <1>3, <2>2, <2>5, SameCardinality DEF Ledger!Accept, Statuses
  <2> QED BY <2>6 DEF Ledger!Next
<1>4. CASE ~(dbDefined /\ Len(storeCh) < QueueSize)
  <2>1. \A x \in Requests : fate'[x] = IF x = q THEN "turnedAway" ELSE fate[x]
    BY <1>4 DEF QueueStore, TypeOK, PersistTypeOK
  <2>2. Statuses' = [Statuses EXCEPT ![q] = "turnedAway"]
    BY <2>1, StatusOfNext, StatusKept, StatusTo
  <2>3. ~dbDefined \/ Cardinality(Ledger!Outstanding) >= QueueSize
    BY <1>2, <1>4, LedgerCount
  <2>4. Ledger!TurnAway(q)
    BY <1>1, <2>2, <2>3, SameCardinality DEF Ledger!TurnAway, Statuses
  <2> QED BY <2>4 DEF Ledger!Next
<1> QED BY <1>3, <1>4

LEMMA TakeRefines ==
  ASSUME IInv, dbDefined' = dbDefined, NEW w \in Workers, Take(w)
  PROVE  UNCHANGED Ledger!vars
<1> USE DEF IInv
<1>1. Head(storeCh) \in Requests /\ Head(storeCh) = storeCh[1] /\ 1 \in DOMAIN storeCh
  BY TailFacts DEF Take, TypeOK, PersistTypeOK
<1>2. fate[Head(storeCh)] = "queued"
  BY <1>1 DEF PlaceInv
<1>3. \A x \in Requests : fate'[x] = IF x = Head(storeCh) THEN "storing" ELSE fate[x]
  BY <1>1 DEF Take, TypeOK, PersistTypeOK
<1>4. \A x \in Requests : Status(x)' = Status(x)
  BY <1>2, <1>3, StatusOf, StatusOfNext, StatusKept
<1> QED BY <1>4, Stutter

LEMMA RoundRefines ==
  ASSUME IInv, dbDefined' = dbDefined, NEW w \in Workers, storeRequestAsync(w)
  PROVE  Ledger!Next \/ UNCHANGED Ledger!vars
<1>1. CASE UNCHANGED <<job, fate>>
  BY <1>1, StatusKept, Stutter
<1>2. CASE ~UNCHANGED <<job, fate>>
  <2>1. PICK q \in Requests :
          /\ fate[q] = "storing" /\ fate'[q] \in {"recorded", "skipped", "failed"}
          /\ \A x \in Requests : x # q => fate'[x] = fate[x]
    BY <1>2, RoundEffect
  <2>2. Status(q) = "accepted" /\ Status(q)' = "settled"
    BY <2>1, StatusOf, StatusOfNext
  <2>3. Statuses' = [Statuses EXCEPT ![q] = "settled"]
    BY <2>1, <2>2, StatusKept, StatusTo
  <2>4. Ledger!Settle(q)
    BY <2>2, <2>3 DEF Ledger!Settle, Statuses
  <2> QED BY <2>4 DEF Ledger!Next
<1> QED BY <1>1, <1>2

LEMMA StepRefines ==
  ASSUME IInv, NoOrphan, [Next]_vars
  PROVE  [Ledger!Next]_(Ledger!vars)
<1>1. dbDefined' = dbDefined
  BY RowStep DEF IInv, dbDefined
<1>2. ASSUME UNCHANGED fate PROVE UNCHANGED Ledger!vars
  BY <1>1, <1>2, StatusKept, Stutter
<1>3. ASSUME NEW q \in Requests, Arrive(q) \/ Located(q) \/ buildHTTPRequest(q) PROVE UNCHANGED fate
  BY <1>3 DEF Arrive, Located, buildHTTPRequest, persistVars
<1>4. CASE UNCHANGED persistVars
  BY <1>2, <1>4 DEF persistVars
<1> QED BY <1>1, <1>2, <1>3, <1>4, QueueStoreRefines, TakeRefines, RoundRefines
        DEF Next, Handler, Worker, Finished, vars

\* What QueueStore promises its callers holds through the workers' database calls,
\* with any backend, dialect and fault: an accepted record is settled exactly once,
\* and none is turned away while a place is free.
THEOREM InspectorImplementsLedger == Spec => ImplementsLedger
<1>1. Init => NoOrphan
  BY DEF Init, PersistInit, NoOrphan
<1>2. IInv /\ NoOrphan /\ [Next]_vars => NoOrphan'
  BY NoOrphanStep
<1>3. IInv /\ NoOrphan /\ [Next]_vars => [Ledger!Next]_(Ledger!vars)
  BY StepRefines
<1> QED
  BY <1>1, <1>2, <1>3, Invariance, LedgerInit, PTL DEF Spec, ImplementsLedger, Ledger!Spec
===============================================================================
