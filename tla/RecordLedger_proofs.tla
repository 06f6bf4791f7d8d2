-------------------------- MODULE RecordLedger_proofs --------------------------
(***************************************************************************)
(* StoreQueue implements RecordLedger, for any sets of requests and        *)
(* closers, any finite set of workers and any queue size.                  *)
(***************************************************************************)
EXTENDS StoreQueue_proofs, QueueCounting

\* A worker holds one request at a time, and only a request with an address gets
\* past the beginning of QueueStore.
SoloInv ==
  /\ \A w \in Workers : \A q, r \in item[w] : q = r
  /\ \A r \in Requests : hpc[r] \notin {"idle", "returned", "unlocking"} => r \in Addressed

LEMMA SoloStep ==
  ASSUME TypeOK, SoloInv, [Next]_vars
  PROVE  SoloInv'
<1> USE DEF TypeOK, SoloInv
<1>1. ASSUME NEW r \in Requests, QueueStore(r) PROVE SoloInv'
  BY <1>1 DEF QueueStore, Offer, RLock, LoadClosed, SendOrDrop, RUnlock, Storable, consumer
<1>2. ASSUME NEW c \in Closers, CallClose(c) \/ CloseSteps(c) PROVE SoloInv'
  BY <1>2 DEF CallClose, CloseSteps, ClaimLock, Locked, SwapClosed, CloseChannel, Unlock,
              WaitWorkers, consumer
<1>3. ASSUME NEW w \in Workers, Worker(w) PROVE SoloInv'
  BY <1>3 DEF Worker, Receive, Finish, Exit
<1>4. CASE UNCHANGED vars
  BY <1>4 DEF vars
<1> QED BY <1>1, <1>2, <1>3, <1>4 DEF Next, Terminated
-------------------------------------------------------------------------------
(* What the fates of the requests are to the ledger.                       *)

LEMMA StatusOf ==
  ASSUME NEW r \in Requests
  PROVE  /\ fate[r] = "new" => Status(r) = "offered"
         /\ fate[r] \in {"ignored", "refused", "dropped"} => Status(r) = "turnedAway"
         /\ fate[r] \in {"queued", "storing"} => Status(r) = "accepted"
         /\ fate[r] = "handled" => Status(r) = "settled"
<1>1. fate[r] = "new" => Status(r) = "offered"
  BY Zenon DEF Status
<1>2. fate[r] \in {"ignored", "refused", "dropped"} => Status(r) = "turnedAway"
  BY Zenon DEF Status
<1>3. fate[r] \in {"queued", "storing"} => Status(r) = "accepted"
  BY Zenon DEF Status
<1>4. fate[r] = "handled" => Status(r) = "settled"
  BY Zenon DEF Status
<1> QED BY <1>1, <1>2, <1>3, <1>4

LEMMA StatusOfNext ==
  ASSUME NEW r \in Requests
  PROVE  /\ fate'[r] = "new" => Status(r)' = "offered"
         /\ fate'[r] \in {"ignored", "refused", "dropped"} => Status(r)' = "turnedAway"
         /\ fate'[r] \in {"queued", "storing"} => Status(r)' = "accepted"
         /\ fate'[r] = "handled" => Status(r)' = "settled"
<1>1. fate'[r] = "new" => Status(r)' = "offered"
  BY Zenon DEF Status
<1>2. fate'[r] \in {"ignored", "refused", "dropped"} => Status(r)' = "turnedAway"
  BY Zenon DEF Status
<1>3. fate'[r] \in {"queued", "storing"} => Status(r)' = "accepted"
  BY Zenon DEF Status
<1>4. fate'[r] = "handled" => Status(r)' = "settled"
  BY Zenon DEF Status
<1> QED BY <1>1, <1>2, <1>3, <1>4

\* A step that leaves the fates alone leaves the statuses alone.
LEMMA StatusKept ==
  ASSUME NEW r \in Requests, fate'[r] = fate[r]
  PROVE  Status(r)' = Status(r)
BY Zenon DEF Status
-------------------------------------------------------------------------------
(* How many requests are outstanding.                                      *)

LEMMA OutstandingIs ==
  ASSUME IInv
  PROVE  Ledger!Outstanding = Waiting(storeCh) \cup InHand(Requests, Workers, item)
<1>1. \A r \in Requests : Status(r) = "accepted" <=> fate[r] \in {"queued", "storing"}
  BY StatusOf DEF IInv, TypeOK, Fate
<1>2. \A r \in Requests : [x \in Requests |-> Status(x)][r] = Status(r)
  OBVIOUS
<1>3. Ledger!Outstanding = {r \in Requests : fate[r] \in {"queued", "storing"}}
  BY <1>1, <1>2 DEF Ledger!Outstanding
<1>4. \A i \in 1..Len(storeCh) : storeCh[i] \in Requests
  BY DEF IInv, TypeOK
<1>5. DOMAIN storeCh = 1..Len(storeCh)
  BY DEF IInv, TypeOK
<1> QED BY <1>3, <1>4, <1>5 DEF IInv, QueueLedger, Waiting, InHand

\* Outstanding requests fill the channel and the workers' hands.
LEMMA LedgerCount ==
  ASSUME IInv, SoloInv
  PROVE  /\ IsFiniteSet(Ledger!Outstanding)
         /\ {Cardinality(Ledger!Outstanding), Cardinality(Workers)} \subseteq Nat
         /\ Len(storeCh) <= Cardinality(Ledger!Outstanding)
         /\ Cardinality(Ledger!Outstanding) <= Len(storeCh) + Cardinality(Workers)
<1> DEFINE Out == Ledger!Outstanding
<1>1. storeCh \in Seq(Requests) /\ \A i, j \in DOMAIN storeCh : storeCh[i] = storeCh[j] => i = j
  BY DEF IInv, TypeOK, QueueLedger
<1>2. item \in [Workers -> SUBSET Requests] /\ \A w \in Workers : \A q, r \in item[w] : q = r
  BY DEF IInv, TypeOK, SoloInv
<1>3. IsFiniteSet(Workers) /\ Out = Waiting(storeCh) \cup InHand(Requests, Workers, item)
  BY StoreQueueAssumption, OutstandingIs
<1> HIDE DEF Out
<1>4. /\ IsFiniteSet(Out)
      /\ {Cardinality(Out), Cardinality(Workers)} \subseteq Nat
      /\ Len(storeCh) <= Cardinality(Out)
      /\ Cardinality(Out) <= Len(storeCh) + Cardinality(Workers)
  BY <1>1, <1>2, <1>3, OutstandingCount
<1> QED BY <1>4 DEF Out
-------------------------------------------------------------------------------
(* Each step is one of the ledger's, or none.                              *)

Statuses == [r \in Requests |-> Status(r)]

LEMMA LedgerInit == Init => Ledger!Init
<1> SUFFICES ASSUME Init PROVE Ledger!Init
  OBVIOUS
<1>1. Gate = "open"
  BY DEF Init, Gate
<1>2. \A r \in Requests : Status(r) = "offered"
  BY StatusOf DEF Init
<1> QED BY <1>1, <1>2 DEF Init, Ledger!Init

\* The ledger counts with the same Cardinality as this module.
LEMMA SameCardinality == \A S : Ledger!Cardinality(S) = Cardinality(S)
BY Zenon DEF Ledger!Cardinality, Cardinality

\* Nobody has returned from Close before the flag was set.
LEMMA GateOf ==
  ASSUME IInv
  PROVE  /\ Gate \in {"open", "shut", "drained"}
         /\ Gate = "drained" <=> \E c \in Closers : cpc[c] = "returned"
         /\ Gate = "open" <=> ~storeClosed
<1>1. \A c \in Closers : cpc[c] = "returned" => storeClosed
  BY DEF IInv, CloseInv
<1> QED BY <1>1 DEF Gate

LEMMA Stutter ==
  ASSUME UNCHANGED dbDefined, Gate' = Gate, \A r \in Requests : Status(r)' = Status(r)
  PROVE  UNCHANGED Ledger!vars
BY DEF Ledger!vars

\* Handlers do not touch the gate.
LEMMA GateKept ==
  ASSUME UNCHANGED <<cpc, storeClosed>>
  PROVE  Gate' = Gate
BY DEF Gate

\* One request's status becomes s.
LEMMA StatusTo ==
  ASSUME NEW r \in Requests, NEW s, Status(r)' = s,
         \A q \in Requests : q # r => Status(q)' = Status(q)
  PROVE  Statuses' = [Statuses EXCEPT ![r] = s]
BY DEF Statuses

LEMMA QueueStoreRefines ==
  ASSUME IInv, SoloInv, NEW r \in Requests, QueueStore(r)
  PROVE  Ledger!Next \/ UNCHANGED Ledger!vars
<1>1. Gate' = Gate /\ UNCHANGED dbDefined
  BY GateKept DEF QueueStore, Offer, RLock, LoadClosed, SendOrDrop, RUnlock
<1>2. ASSUME fate' = fate PROVE UNCHANGED Ledger!vars
  BY <1>1, <1>2, StatusKept, Stutter
<1>3. ASSUME fate[r] = "new", NEW f \in {"ignored", "refused", "dropped"},
             fate' = [fate EXCEPT ![r] = f],
             \/ ~dbDefined \/ r \notin Addressed \/ Gate # "open"
             \/ Cardinality(Ledger!Outstanding) >= QueueSize
      PROVE  Ledger!Next
  <2>1. \A q \in Requests : fate'[q] = IF q = r THEN f ELSE fate[q]
    BY <1>3 DEF IInv, TypeOK
  <2>2. Status(r) = "offered" /\ Status(r)' = "turnedAway"
    BY <1>3, <2>1, StatusOf, StatusOfNext
  <2>3. Statuses' = [Statuses EXCEPT ![r] = "turnedAway"]
    BY <2>1, <2>2, StatusKept, StatusTo
  <2>4. Ledger!TurnAway(r)
    BY <1>1, <1>3, <2>2, <2>3, SameCardinality DEF Ledger!TurnAway, Statuses
  <2> QED BY <2>4 DEF Ledger!Next
<1>4. CASE Offer(r)
  <2>1. CASE Storable(r)
    BY <1>2, <1>4, <2>1 DEF Offer
  <2>2. CASE ~Storable(r)
    <3>1. fate[r] = "new" /\ fate' = [fate EXCEPT ![r] = "ignored"]
      BY <1>4, <2>2 DEF Offer, IInv, FreshInv
    <3> QED BY <1>3, <2>2, <3>1 DEF Storable
  <2> QED BY <2>1, <2>2
<1>5. CASE RLock(r) \/ RUnlock(r)
  BY <1>2, <1>5 DEF RLock, RUnlock
<1>6. CASE LoadClosed(r)
  <2>1. CASE storeClosed
    <3>1. fate[r] = "new" /\ fate' = [fate EXCEPT ![r] = "refused"]
      BY <1>6, <2>1 DEF LoadClosed, IInv, FreshInv
    <3> QED BY <1>3, <2>1, <3>1, GateOf
  <2>2. CASE ~storeClosed
    BY <1>2, <1>6, <2>2 DEF LoadClosed
  <2> QED BY <2>1, <2>2
<1>7. CASE SendOrDrop(r)
  <2>1. fate[r] = "new" /\ dbDefined /\ r \in Addressed /\ Gate = "open"
    BY <1>7, GateOf DEF SendOrDrop, IInv, FreshInv, DrainInv, CloseInv, SoloInv
  <2>2. CASE Len(storeCh) < QueueSize
    <3>1. fate' = [fate EXCEPT ![r] = "queued"]
      BY <1>7, <2>2 DEF SendOrDrop
    <3>2. \A q \in Requests : fate'[q] = IF q = r THEN "queued" ELSE fate[q]
      BY <3>1 DEF IInv, TypeOK
    <3>3. Status(r) = "offered" /\ Status(r)' = "accepted"
      BY <2>1, <3>2, StatusOf, StatusOfNext
    <3>4. Statuses' = [Statuses EXCEPT ![r] = "accepted"]
      BY <3>2, <3>3, StatusKept, StatusTo
    <3>5. Ledger!Outstanding' = Ledger!Outstanding \cup {r} /\ r \notin Ledger!Outstanding
      BY <3>3, <3>4 DEF Ledger!Outstanding, Statuses
    <3>6. Cardinality(Ledger!Outstanding') = Cardinality(Ledger!Outstanding) + 1
      BY <3>5, LedgerCount, FS_AddElement
    <3>7. Cardinality(Ledger!Outstanding') <= QueueSize + Cardinality(Workers)
      <4>1. Cardinality(Workers) \in Nat /\ QueueSize \in Nat /\ Len(storeCh) \in Nat
        BY StoreQueueAssumption, FS_CardinalityType DEF IInv, TypeOK
      <4> QED BY <2>2, <3>6, <4>1, LedgerCount
    <3>8. Ledger!Accept(r)
      BY <1>1, <2>1, <3>3, <3>4, <3>7, SameCardinality DEF Ledger!Accept, Statuses
    <3> QED BY <3>8 DEF Ledger!Next
  <2>3. CASE ~(Len(storeCh) < QueueSize)
    <3>1. fate' = [fate EXCEPT ![r] = "dropped"]
      BY <1>7, <2>3 DEF SendOrDrop
    <3>2. Cardinality(Ledger!Outstanding) >= QueueSize
      <4>1. QueueSize \in Nat /\ Len(storeCh) \in Nat
        BY StoreQueueAssumption DEF IInv, TypeOK
      <4> QED BY <2>3, <4>1, LedgerCount
    <3> QED BY <1>3, <2>1, <3>1, <3>2
  <2> QED BY <2>2, <2>3
<1> QED BY <1>4, <1>5, <1>6, <1>7 DEF QueueStore

LEMMA CloseRefines ==
  ASSUME IInv, SoloInv, NEW c \in Closers, CallClose(c) \/ CloseSteps(c)
  PROVE  Ledger!Next \/ UNCHANGED Ledger!vars
<1>1. UNCHANGED <<dbDefined, fate>> /\ Statuses' = Statuses
  <2>1. UNCHANGED <<dbDefined, fate>>
    BY DEF CallClose, CloseSteps, ClaimLock, Locked, SwapClosed, CloseChannel, Unlock, WaitWorkers
  <2> QED BY <2>1, StatusKept DEF Statuses
<1>2. ASSUME Gate' = Gate PROVE UNCHANGED Ledger!vars
  BY <1>1, <1>2 DEF Ledger!vars, Statuses
<1>3. CASE CallClose(c) \/ ClaimLock(c) \/ Locked(c) \/ CloseChannel(c) \/ Unlock(c)
  <2>1. \A d \in Closers : cpc'[d] = "returned" <=> cpc[d] = "returned"
    BY <1>3 DEF CallClose, ClaimLock, Locked, CloseChannel, Unlock, IInv, TypeOK
  <2>2. storeClosed' = storeClosed
    BY <1>3 DEF CallClose, ClaimLock, Locked, CloseChannel, Unlock
  <2>3. Gate' = Gate
    BY <2>1, <2>2 DEF Gate
  <2> QED BY <1>2, <2>3
<1>4. CASE SwapClosed(c)
  <2>1. storeClosed' = TRUE /\ \A d \in Closers : cpc'[d] = "returned" <=> cpc[d] = "returned"
    BY <1>4 DEF SwapClosed, IInv, TypeOK
  <2>2. CASE storeClosed
    <3>1. Gate' = Gate
      BY <2>1, <2>2 DEF Gate
    <3> QED BY <1>2, <3>1
  <2>3. CASE ~storeClosed
    <3>1. Gate = "open" /\ Gate' = "shut"
      BY <2>1, <2>3, GateOf DEF Gate
    <3>2. Ledger!Shut
      BY <1>1, <3>1 DEF Ledger!Shut, Statuses
    <3> QED BY <3>2 DEF Ledger!Next
  <2> QED BY <2>2, <2>3
<1>5. CASE WaitWorkers(c)
  <2>1. cpc'[c] = "returned" /\ \A d \in Closers : d # c => cpc'[d] = cpc[d]
    BY <1>5 DEF WaitWorkers, IInv, TypeOK
  <2>2. Gate' = "drained"
    BY <2>1 DEF Gate
  <2>3. CASE Gate = "drained"
    BY <1>2, <2>2, <2>3
  <2>4. CASE Gate # "drained"
    <3>1. storeClosed /\ dbDefined
      BY <1>5 DEF WaitWorkers, IInv, CloseInv, DrainInv
    <3>2. Gate = "shut"
      BY <2>4, <3>1, GateOf
    <3>3. storeCh = <<>> /\ \A w \in Workers : item[w] = {}
      BY <1>5, <3>1, StoreQueueAssumption DEF WaitWorkers, IInv, DrainInv
    <3>4. Waiting(storeCh) = {} /\ InHand(Requests, Workers, item) = {}
      BY <3>3 DEF Waiting, InHand
    <3>5. Ledger!Outstanding = {}
      BY <3>4, OutstandingIs
    <3>6. Ledger!Drain
      BY <1>1, <2>2, <3>2, <3>5 DEF Ledger!Drain, Statuses
    <3> QED BY <3>6 DEF Ledger!Next
  <2> QED BY <2>3, <2>4
<1> QED BY <1>3, <1>4, <1>5 DEF CloseSteps

LEMMA WorkerRefines ==
  ASSUME IInv, SoloInv, NEW w \in Workers, Worker(w)
  PROVE  Ledger!Next \/ UNCHANGED Ledger!vars
<1>1. Gate' = Gate /\ UNCHANGED dbDefined
  BY GateKept DEF Worker, Receive, Finish, Exit
<1>2. CASE Receive(w)
  <2>1. Head(storeCh) \in Requests /\ Head(storeCh) = storeCh[1] /\ 1 \in DOMAIN storeCh
    BY <1>2, TailFacts DEF Receive, IInv, TypeOK
  <2>2. fate[Head(storeCh)] = "queued"
    BY <2>1 DEF IInv, QueueLedger
  <2>3. \A q \in Requests : fate'[q] = IF q = Head(storeCh) THEN "storing" ELSE fate[q]
    BY <1>2, <2>1 DEF Receive, IInv, TypeOK
  <2>4. \A q \in Requests : Status(q)' = Status(q)
    BY <2>2, <2>3, StatusOf, StatusOfNext, StatusKept
  <2> QED BY <1>1, <2>4, Stutter
<1>3. CASE Finish(w)
  <2>1. PICK r : r \in item[w]
    BY <1>3 DEF Finish, IInv, DrainInv
  <2>2. item[w] = {r} /\ r \in Requests /\ fate[r] = "storing"
    BY <2>1 DEF SoloInv, IInv, TypeOK, QueueLedger
  <2>3. \A q \in Requests : fate'[q] = IF q = r THEN "handled" ELSE fate[q]
    BY <1>3, <2>2 DEF Finish
  <2>4. Status(r) = "accepted" /\ Status(r)' = "settled"
    BY <2>2, <2>3, StatusOf, StatusOfNext
  <2>5. Statuses' = [Statuses EXCEPT ![r] = "settled"]
    BY <2>2, <2>3, <2>4, StatusKept, StatusTo
  <2>6. Gate # "drained"
    BY <1>3, GateOf DEF Finish, IInv, DrainInv
  <2>7. Ledger!Settle(r)
    BY <1>1, <2>2, <2>4, <2>5, <2>6 DEF Ledger!Settle, Statuses
  <2> QED BY <2>2, <2>7 DEF Ledger!Next
<1>4. CASE Exit(w)
  BY <1>1, <1>4, StatusKept, Stutter DEF Exit
<1> QED BY <1>2, <1>3, <1>4 DEF Worker

LEMMA StepRefines ==
  ASSUME IInv, SoloInv, [Next]_vars
  PROVE  [Ledger!Next]_(Ledger!vars)
<1>1. CASE UNCHANGED vars
  <2>1. UNCHANGED <<cpc, storeClosed, fate, dbDefined>>
    BY <1>1 DEF vars
  <2> QED BY <2>1, GateKept, StatusKept, Stutter
<1> QED BY <1>1, QueueStoreRefines, CloseRefines, WorkerRefines DEF Next, Terminated

\* The queue keeps the promise of RecordLedger: every request QueueStore is given
\* is turned away for a reason or settled once, and Close waits for the last.
THEOREM QueueImplementsLedger == Spec => ImplementsLedger
<1>1. Init => SoloInv
  BY DEF Init, SoloInv
<1>2. IInv /\ SoloInv /\ [Next]_vars => SoloInv'
  BY SoloStep DEF IInv
<1>3. IInv /\ SoloInv /\ [Next]_vars => [Ledger!Next]_(Ledger!vars)
  BY StepRefines
<1> QED
  BY <1>1, <1>2, <1>3, Inductive, LedgerInit, PTL DEF Spec, ImplementsLedger, Ledger!Spec
===============================================================================
