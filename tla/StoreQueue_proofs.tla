--------------------------- MODULE StoreQueue_proofs ---------------------------
(***************************************************************************)
(* Proofs of the safety properties of StoreQueue, for any sets of requests *)
(* and closers, any non-empty set of workers and any queue size.           *)
(***************************************************************************)
EXTENDS StoreQueue, TLAPS

\* Who is inside a critical section of storeMu, read off the program counters.
Reading(r)   == hpc[r] \in {"locked", "sending", "unlocking"}
Claiming(c)  == cpc[c] \in {"pending", "locked", "closing", "yield", "release"}
Exclusive(c) == cpc[c] \in {"locked", "closing", "yield", "release"}

\* The two lock variables say what the program counters say, one writer at a
\* time claims the mutex, and it is granted only with no reader inside.
LockInv ==
  /\ \A r \in Requests : r \in rlocks <=> Reading(r)
  /\ \A c \in Closers : c \in wlock <=> Claiming(c)
  /\ \A c, d \in Closers : c \in wlock /\ d \in wlock => c = d
  /\ \A c \in Closers : Exclusive(c) => rlocks = {}

\* The channel is closed after the flag is set, by the one caller that set it,
\* and a handler past the check still sees the flag unset.
CloseInv ==
  /\ chClosed => storeClosed
  /\ \A c \in Closers : cpc[c] = "closing" => storeClosed /\ ~chClosed
  /\ \A c \in Closers : cpc[c] \in {"release", "waiting", "returned"} => chClosed
  /\ \A r \in Requests : hpc[r] = "sending" => ~storeClosed

\* Workers leave only a closed and empty channel, and nobody touches the
\* channel of a processor that has no database.
DrainInv ==
  /\ \A w \in Workers : dbDefined /\ wpc[w] = "exited" => chClosed /\ storeCh = <<>>
  /\ \A w \in Workers : item[w] # {} <=> wpc[w] = "storing"
  /\ \A c \in Closers : cpc[c] = "returned" => \A w \in Workers : wpc[w] = "exited"
  /\ \A c \in Closers : cpc[c] \notin {"idle", "noop"} => dbDefined
  /\ \A r \in Requests : hpc[r] \notin {"idle", "returned"} => dbDefined

\* A request whose handler has not decided yet is nowhere else.
FreshInv ==
  \A r \in Requests :
    hpc[r] \in {"idle", "rlock", "locked", "sending"} => fate[r] = "new"

IInv ==
  /\ TypeOK
  /\ LockInv
  /\ CloseInv
  /\ DrainInv
  /\ FreshInv
  /\ QueueLedger
-------------------------------------------------------------------------------
\* Sending puts the request behind the others, without disturbing them.
LEMMA AppendFacts ==
  ASSUME NEW S, NEW s \in Seq(S), NEW e \in S
  PROVE  /\ Append(s, e) \in Seq(S)
         /\ Len(Append(s, e)) = Len(s) + 1
         /\ DOMAIN Append(s, e) = 1..(Len(s) + 1)
         /\ DOMAIN s = 1..Len(s)
         /\ \A i \in 1..Len(s) : Append(s, e)[i] = s[i]
         /\ Append(s, e)[Len(s) + 1] = e
  OBVIOUS

\* Receiving takes the first request and moves the others up by one.
LEMMA TailFacts ==
  ASSUME NEW S, NEW s \in Seq(S), s # <<>>
  PROVE  /\ Head(s) \in S
         /\ Head(s) = s[1]
         /\ Tail(s) \in Seq(S)
         /\ Len(s) \in Nat \ {0}
         /\ Len(Tail(s)) = Len(s) - 1
         /\ DOMAIN Tail(s) = 1..(Len(s) - 1)
         /\ DOMAIN s = 1..Len(s)
         /\ \A i \in 1..(Len(s) - 1) : Tail(s)[i] = s[i + 1]
  OBVIOUS

\* Every step keeps every variable in its type.
LEMMA TypeStep ==
  ASSUME TypeOK, [Next]_vars
  PROVE  TypeOK'
<1> USE StoreQueueAssumption DEF TypeOK, HandlerPC, CloserPC, WorkerPC, Fate
<1>1. ASSUME NEW r \in Requests, Offer(r) PROVE TypeOK'
  BY <1>1 DEF Offer, Storable, mutex, channel, consumer
<1>2. ASSUME NEW r \in Requests, RLock(r) PROVE TypeOK'
  BY <1>2 DEF RLock, channel, consumer
<1>3. ASSUME NEW r \in Requests, LoadClosed(r) PROVE TypeOK'
  BY <1>3 DEF LoadClosed, channel, mutex, consumer
<1>4. ASSUME NEW r \in Requests, SendOrDrop(r) PROVE TypeOK'
  <2>1. storeCh' \in Seq(Requests) /\ Len(storeCh') \in 0..QueueSize
    <3>1. CASE storeCh' = Append(storeCh, r) /\ Len(storeCh) < QueueSize
      BY <3>1, AppendFacts
    <3> QED
      BY <1>4, <3>1 DEF SendOrDrop
  <2> QED
    BY <1>4, <2>1 DEF SendOrDrop, mutex, consumer
<1>5. ASSUME NEW r \in Requests, RUnlock(r) PROVE TypeOK'
  BY <1>5 DEF RUnlock, channel, consumer
<1>6. ASSUME NEW c \in Closers, CallClose(c) PROVE TypeOK'
  BY <1>6 DEF CallClose, channel, mutex, consumer
<1>7. ASSUME NEW c \in Closers, ClaimLock(c) PROVE TypeOK'
  BY <1>7 DEF ClaimLock, channel, consumer
<1>8. ASSUME NEW c \in Closers, Locked(c) PROVE TypeOK'
  BY <1>8 DEF Locked, channel, mutex, consumer
<1>9. ASSUME NEW c \in Closers, SwapClosed(c) PROVE TypeOK'
  BY <1>9 DEF SwapClosed, channel, mutex, consumer
<1>10. ASSUME NEW c \in Closers, CloseChannel(c) PROVE TypeOK'
  BY <1>10 DEF CloseChannel, mutex, consumer
<1>11. ASSUME NEW c \in Closers, Unlock(c) PROVE TypeOK'
  BY <1>11 DEF Unlock, channel, consumer
<1>12. ASSUME NEW c \in Closers, WaitWorkers(c) PROVE TypeOK'
  BY <1>12 DEF WaitWorkers, channel, mutex, consumer
<1>13. ASSUME NEW w \in Workers, Receive(w) PROVE TypeOK'
  BY <1>13 DEF Receive, mutex
<1>14. ASSUME NEW w \in Workers, Finish(w) PROVE TypeOK'
  BY <1>14 DEF Finish, channel, mutex
<1>15. ASSUME NEW w \in Workers, Exit(w) PROVE TypeOK'
  BY <1>15 DEF Exit, channel, mutex
<1>16. CASE UNCHANGED vars
  BY <1>16 DEF vars, mutex, channel, consumer
<1> QED
  BY <1>1, <1>2, <1>3, <1>4, <1>5, <1>6, <1>7, <1>8, <1>9, <1>10, <1>11, <1>12, <1>13, <1>14, <1>15, <1>16 DEF Next, QueueStore, CloseSteps, Worker, Terminated

\* Every step keeps the readers-writer discipline of storeMu.
LEMMA LockStep ==
  ASSUME TypeOK, LockInv, [Next]_vars
  PROVE  LockInv'
<1> USE StoreQueueAssumption DEF TypeOK, LockInv, Reading, Claiming, Exclusive, HandlerPC, CloserPC, WorkerPC, Fate
<1>1. ASSUME NEW r \in Requests, Offer(r) PROVE LockInv'
  BY <1>1 DEF Offer, Storable, mutex, channel, consumer
<1>2. ASSUME NEW r \in Requests, RLock(r) PROVE LockInv'
  BY <1>2 DEF RLock, channel, consumer
<1>3. ASSUME NEW r \in Requests, LoadClosed(r) PROVE LockInv'
  BY <1>3 DEF LoadClosed, channel, mutex, consumer
<1>4. ASSUME NEW r \in Requests, SendOrDrop(r) PROVE LockInv'
  BY <1>4 DEF SendOrDrop, mutex, consumer
<1>5. ASSUME NEW r \in Requests, RUnlock(r) PROVE LockInv'
  BY <1>5 DEF RUnlock, channel, consumer
<1>6. ASSUME NEW c \in Closers, CallClose(c) PROVE LockInv'
  BY <1>6 DEF CallClose, channel, mutex, consumer
<1>7. ASSUME NEW c \in Closers, ClaimLock(c) PROVE LockInv'
  BY <1>7 DEF ClaimLock, channel, consumer
<1>8. ASSUME NEW c \in Closers, Locked(c) PROVE LockInv'
  BY <1>8 DEF Locked, channel, mutex, consumer
<1>9. ASSUME NEW c \in Closers, SwapClosed(c) PROVE LockInv'
  BY <1>9 DEF SwapClosed, channel, mutex, consumer
<1>10. ASSUME NEW c \in Closers, CloseChannel(c) PROVE LockInv'
  BY <1>10 DEF CloseChannel, mutex, consumer
<1>11. ASSUME NEW c \in Closers, Unlock(c) PROVE LockInv'
  BY <1>11 DEF Unlock, channel, consumer
<1>12. ASSUME NEW c \in Closers, WaitWorkers(c) PROVE LockInv'
  BY <1>12 DEF WaitWorkers, channel, mutex, consumer
<1>13. ASSUME NEW w \in Workers, Receive(w) PROVE LockInv'
  BY <1>13 DEF Receive, mutex
<1>14. ASSUME NEW w \in Workers, Finish(w) PROVE LockInv'
  BY <1>14 DEF Finish, channel, mutex
<1>15. ASSUME NEW w \in Workers, Exit(w) PROVE LockInv'
  BY <1>15 DEF Exit, channel, mutex
<1>16. CASE UNCHANGED vars
  BY <1>16 DEF vars, mutex, channel, consumer
<1> QED
  BY <1>1, <1>2, <1>3, <1>4, <1>5, <1>6, <1>7, <1>8, <1>9, <1>10, <1>11, <1>12, <1>13, <1>14, <1>15, <1>16 DEF Next, QueueStore, CloseSteps, Worker, Terminated

\* Every step keeps the flag ahead of the channel.
LEMMA CloseStep ==
  ASSUME TypeOK, LockInv, CloseInv, [Next]_vars
  PROVE  CloseInv'
<1> USE StoreQueueAssumption DEF TypeOK, LockInv, CloseInv, Reading, Claiming, Exclusive, HandlerPC, CloserPC, WorkerPC, Fate
<1>1. ASSUME NEW r \in Requests, Offer(r) PROVE CloseInv'
  BY <1>1 DEF Offer, Storable, mutex, channel, consumer
<1>2. ASSUME NEW r \in Requests, RLock(r) PROVE CloseInv'
  BY <1>2 DEF RLock, channel, consumer
<1>3. ASSUME NEW r \in Requests, LoadClosed(r) PROVE CloseInv'
  BY <1>3 DEF LoadClosed, channel, mutex, consumer
<1>4. ASSUME NEW r \in Requests, SendOrDrop(r) PROVE CloseInv'
  BY <1>4 DEF SendOrDrop, mutex, consumer
<1>5. ASSUME NEW r \in Requests, RUnlock(r) PROVE CloseInv'
  BY <1>5 DEF RUnlock, channel, consumer
<1>6. ASSUME NEW c \in Closers, CallClose(c) PROVE CloseInv'
  BY <1>6 DEF CallClose, channel, mutex, consumer
<1>7. ASSUME NEW c \in Closers, ClaimLock(c) PROVE CloseInv'
  BY <1>7 DEF ClaimLock, channel, consumer
<1>8. ASSUME NEW c \in Closers, Locked(c) PROVE CloseInv'
  BY <1>8 DEF Locked, channel, mutex, consumer
<1>9. ASSUME NEW c \in Closers, SwapClosed(c) PROVE CloseInv'
  BY <1>9 DEF SwapClosed, channel, mutex, consumer
<1>10. ASSUME NEW c \in Closers, CloseChannel(c) PROVE CloseInv'
  BY <1>10 DEF CloseChannel, mutex, consumer
<1>11. ASSUME NEW c \in Closers, Unlock(c) PROVE CloseInv'
  BY <1>11 DEF Unlock, channel, consumer
<1>12. ASSUME NEW c \in Closers, WaitWorkers(c) PROVE CloseInv'
  BY <1>12 DEF WaitWorkers, channel, mutex, consumer
<1>13. ASSUME NEW w \in Workers, Receive(w) PROVE CloseInv'
  BY <1>13 DEF Receive, mutex
<1>14. ASSUME NEW w \in Workers, Finish(w) PROVE CloseInv'
  BY <1>14 DEF Finish, channel, mutex
<1>15. ASSUME NEW w \in Workers, Exit(w) PROVE CloseInv'
  BY <1>15 DEF Exit, channel, mutex
<1>16. CASE UNCHANGED vars
  BY <1>16 DEF vars, mutex, channel, consumer
<1> QED
  BY <1>1, <1>2, <1>3, <1>4, <1>5, <1>6, <1>7, <1>8, <1>9, <1>10, <1>11, <1>12, <1>13, <1>14, <1>15, <1>16 DEF Next, QueueStore, CloseSteps, Worker, Terminated

\* Every step keeps the workers in their loop until the channel is closed and empty.
LEMMA DrainStep ==
  ASSUME TypeOK, CloseInv, DrainInv, [Next]_vars
  PROVE  DrainInv'
<1> USE StoreQueueAssumption DEF TypeOK, CloseInv, DrainInv, HandlerPC, CloserPC, WorkerPC, Fate
<1>1. ASSUME NEW r \in Requests, Offer(r) PROVE DrainInv'
  BY <1>1 DEF Offer, Storable, mutex, channel, consumer
<1>2. ASSUME NEW r \in Requests, RLock(r) PROVE DrainInv'
  BY <1>2 DEF RLock, channel, consumer
<1>3. ASSUME NEW r \in Requests, LoadClosed(r) PROVE DrainInv'
  BY <1>3 DEF LoadClosed, channel, mutex, consumer
<1>4. ASSUME NEW r \in Requests, SendOrDrop(r) PROVE DrainInv'
  BY <1>4 DEF SendOrDrop, mutex, consumer
<1>5. ASSUME NEW r \in Requests, RUnlock(r) PROVE DrainInv'
  BY <1>5 DEF RUnlock, channel, consumer
<1>6. ASSUME NEW c \in Closers, CallClose(c) PROVE DrainInv'
  BY <1>6 DEF CallClose, channel, mutex, consumer
<1>7. ASSUME NEW c \in Closers, ClaimLock(c) PROVE DrainInv'
  BY <1>7 DEF ClaimLock, channel, consumer
<1>8. ASSUME NEW c \in Closers, Locked(c) PROVE DrainInv'
  BY <1>8 DEF Locked, channel, mutex, consumer
<1>9. ASSUME NEW c \in Closers, SwapClosed(c) PROVE DrainInv'
  BY <1>9 DEF SwapClosed, channel, mutex, consumer
<1>10. ASSUME NEW c \in Closers, CloseChannel(c) PROVE DrainInv'
  BY <1>10 DEF CloseChannel, mutex, consumer
<1>11. ASSUME NEW c \in Closers, Unlock(c) PROVE DrainInv'
  BY <1>11 DEF Unlock, channel, consumer
<1>12. ASSUME NEW c \in Closers, WaitWorkers(c) PROVE DrainInv'
  BY <1>12 DEF WaitWorkers, channel, mutex, consumer
<1>13. ASSUME NEW w \in Workers, Receive(w) PROVE DrainInv'
  BY <1>13 DEF Receive, mutex
<1>14. ASSUME NEW w \in Workers, Finish(w) PROVE DrainInv'
  BY <1>14 DEF Finish, channel, mutex
<1>15. ASSUME NEW w \in Workers, Exit(w) PROVE DrainInv'
  BY <1>15 DEF Exit, channel, mutex
<1>16. CASE UNCHANGED vars
  BY <1>16 DEF vars, mutex, channel, consumer
<1> QED
  BY <1>1, <1>2, <1>3, <1>4, <1>5, <1>6, <1>7, <1>8, <1>9, <1>10, <1>11, <1>12, <1>13, <1>14, <1>15, <1>16 DEF Next, QueueStore, CloseSteps, Worker, Terminated

\* Every step leaves an undecided request alone.
LEMMA FreshStep ==
  ASSUME TypeOK, DrainInv, FreshInv, QueueLedger, [Next]_vars
  PROVE  FreshInv'
<1> USE StoreQueueAssumption DEF TypeOK, DrainInv, FreshInv, QueueLedger, HandlerPC, CloserPC, WorkerPC, Fate
<1>1. ASSUME NEW r \in Requests, Offer(r) PROVE FreshInv'
  BY <1>1 DEF Offer, Storable, mutex, channel, consumer
<1>2. ASSUME NEW r \in Requests, RLock(r) PROVE FreshInv'
  BY <1>2 DEF RLock, channel, consumer
<1>3. ASSUME NEW r \in Requests, LoadClosed(r) PROVE FreshInv'
  BY <1>3 DEF LoadClosed, channel, mutex, consumer
<1>4. ASSUME NEW r \in Requests, SendOrDrop(r) PROVE FreshInv'
  BY <1>4 DEF SendOrDrop, mutex, consumer
<1>5. ASSUME NEW r \in Requests, RUnlock(r) PROVE FreshInv'
  BY <1>5 DEF RUnlock, channel, consumer
<1>6. ASSUME NEW c \in Closers, CallClose(c) PROVE FreshInv'
  BY <1>6 DEF CallClose, channel, mutex, consumer
<1>7. ASSUME NEW c \in Closers, ClaimLock(c) PROVE FreshInv'
  BY <1>7 DEF ClaimLock, channel, consumer
<1>8. ASSUME NEW c \in Closers, Locked(c) PROVE FreshInv'
  BY <1>8 DEF Locked, channel, mutex, consumer
<1>9. ASSUME NEW c \in Closers, SwapClosed(c) PROVE FreshInv'
  BY <1>9 DEF SwapClosed, channel, mutex, consumer
<1>10. ASSUME NEW c \in Closers, CloseChannel(c) PROVE FreshInv'
  BY <1>10 DEF CloseChannel, mutex, consumer
<1>11. ASSUME NEW c \in Closers, Unlock(c) PROVE FreshInv'
  BY <1>11 DEF Unlock, channel, consumer
<1>12. ASSUME NEW c \in Closers, WaitWorkers(c) PROVE FreshInv'
  BY <1>12 DEF WaitWorkers, channel, mutex, consumer
<1>13. ASSUME NEW w \in Workers, Receive(w) PROVE FreshInv'
  BY <1>13 DEF Receive, mutex
<1>14. ASSUME NEW w \in Workers, Finish(w) PROVE FreshInv'
  BY <1>14 DEF Finish, channel, mutex
<1>15. ASSUME NEW w \in Workers, Exit(w) PROVE FreshInv'
  BY <1>15 DEF Exit, channel, mutex
<1>16. CASE UNCHANGED vars
  BY <1>16 DEF vars, mutex, channel, consumer
<1> QED
  BY <1>1, <1>2, <1>3, <1>4, <1>5, <1>6, <1>7, <1>8, <1>9, <1>10, <1>11, <1>12, <1>13, <1>14, <1>15, <1>16 DEF Next, QueueStore, CloseSteps, Worker, Terminated

\* Every step keeps an accepted request in exactly one place.
LEMMA LedgerStep ==
  ASSUME TypeOK, DrainInv, FreshInv, QueueLedger, [Next]_vars
  PROVE  QueueLedger'
<1> USE StoreQueueAssumption DEF TypeOK, DrainInv, FreshInv, QueueLedger, HandlerPC, CloserPC, WorkerPC, Fate
<1>1. ASSUME NEW r \in Requests, Offer(r) PROVE QueueLedger'
  BY <1>1 DEF Offer, Storable, mutex, channel, consumer
<1>2. ASSUME NEW r \in Requests, RLock(r) PROVE QueueLedger'
  BY <1>2 DEF RLock, channel, consumer
<1>3. ASSUME NEW r \in Requests, LoadClosed(r) PROVE QueueLedger'
  BY <1>3 DEF LoadClosed, channel, mutex, consumer
<1>4. ASSUME NEW r \in Requests, SendOrDrop(r) PROVE QueueLedger'
  <2>1. fate[r] = "new" /\ \A i \in DOMAIN storeCh : storeCh[i] # r
    BY <1>4 DEF SendOrDrop
  <2>2. CASE storeCh' = storeCh
    BY <1>4, <2>1, <2>2 DEF SendOrDrop, mutex, consumer
  <2>3. CASE storeCh' = Append(storeCh, r) /\ fate' = [fate EXCEPT ![r] = "queued"]
    <3>1. /\ DOMAIN storeCh = 1..Len(storeCh)
          /\ DOMAIN storeCh' = 1..(Len(storeCh) + 1)
          /\ \A i \in 1..Len(storeCh) : storeCh'[i] = storeCh[i]
          /\ storeCh'[Len(storeCh) + 1] = r
          /\ Len(storeCh) \in Nat
      BY <2>3, AppendFacts
    <3>2. \A i, j \in DOMAIN storeCh' : storeCh'[i] = storeCh'[j] => i = j
      BY <2>1, <3>1
    <3>3. \A q \in Requests : fate'[q] = "queued" <=> \E i \in DOMAIN storeCh' : storeCh'[i] = q
      BY <2>1, <2>3, <3>1
    <3> QED
      BY <1>4, <2>1, <2>3, <3>2, <3>3 DEF SendOrDrop, mutex, consumer
  <2> QED
    BY <1>4, <2>2, <2>3 DEF SendOrDrop
<1>5. ASSUME NEW r \in Requests, RUnlock(r) PROVE QueueLedger'
  BY <1>5 DEF RUnlock, channel, consumer
<1>6. ASSUME NEW c \in Closers, CallClose(c) PROVE QueueLedger'
  BY <1>6 DEF CallClose, channel, mutex, consumer
<1>7. ASSUME NEW c \in Closers, ClaimLock(c) PROVE QueueLedger'
  BY <1>7 DEF ClaimLock, channel, consumer
<1>8. ASSUME NEW c \in Closers, Locked(c) PROVE QueueLedger'
  BY <1>8 DEF Locked, channel, mutex, consumer
<1>9. ASSUME NEW c \in Closers, SwapClosed(c) PROVE QueueLedger'
  BY <1>9 DEF SwapClosed, channel, mutex, consumer
<1>10. ASSUME NEW c \in Closers, CloseChannel(c) PROVE QueueLedger'
  BY <1>10 DEF CloseChannel, mutex, consumer
<1>11. ASSUME NEW c \in Closers, Unlock(c) PROVE QueueLedger'
  BY <1>11 DEF Unlock, channel, consumer
<1>12. ASSUME NEW c \in Closers, WaitWorkers(c) PROVE QueueLedger'
  BY <1>12 DEF WaitWorkers, channel, mutex, consumer
<1>13. ASSUME NEW w \in Workers, Receive(w) PROVE QueueLedger'
  <2> DEFINE q == Head(storeCh)
  <2>1. /\ q \in Requests /\ q = storeCh[1]
        /\ Len(storeCh) \in Nat \ {0}
        /\ DOMAIN storeCh = 1..Len(storeCh)
        /\ DOMAIN storeCh' = 1..(Len(storeCh) - 1)
        /\ \A i \in 1..(Len(storeCh) - 1) : storeCh'[i] = storeCh[i + 1]
    BY <1>13, TailFacts DEF Receive
  <2>2. fate[q] = "queued" /\ \A v \in Workers : q \notin item[v]
    BY <2>1
  <2>3. /\ fate' = [fate EXCEPT ![q] = "storing"]
        /\ item' = [item EXCEPT ![w] = {q}]
        /\ item[w] = {}
    BY <1>13 DEF Receive
  <2> HIDE DEF q
  <2>4. \A i, j \in DOMAIN storeCh' : storeCh'[i] = storeCh'[j] => i = j
    <3>1. TAKE i, j \in DOMAIN storeCh'
    <3>2. i \in Int /\ j \in Int /\ i + 1 \in DOMAIN storeCh /\ j + 1 \in DOMAIN storeCh
      BY <2>1
    <3>3. storeCh'[i] = storeCh[i + 1] /\ storeCh'[j] = storeCh[j + 1]
      BY <2>1
    <3>4. storeCh[i + 1] = storeCh[j + 1] => i + 1 = j + 1
      BY <3>2
    <3> QED
      BY <3>2, <3>3, <3>4
  <2>5. \A p \in Requests : fate'[p] = "queued" <=> \E i \in DOMAIN storeCh' : storeCh'[i] = p
    <3>1. TAKE p \in Requests
    <3>2. CASE p = q
      <4>1. fate'[p] = "storing"
        BY <2>3, <3>2
      <4>2. ASSUME NEW i \in DOMAIN storeCh' PROVE storeCh'[i] # p
        <5>1. i \in Int /\ i + 1 \in DOMAIN storeCh /\ 1 \in DOMAIN storeCh /\ i + 1 # 1
          BY <2>1
        <5>2. storeCh[i + 1] # storeCh[1]
          BY <5>1
        <5> QED
          BY <2>1, <3>2, <5>2
      <4> QED
        BY <4>1, <4>2
    <3>3. CASE p # q
      <4>1. fate'[p] = fate[p]
        BY <2>3, <3>3
      <4>2. ASSUME NEW i \in DOMAIN storeCh, storeCh[i] = p
            PROVE  i - 1 \in DOMAIN storeCh' /\ storeCh'[i - 1] = p
        BY <2>1, <3>3, <4>2
      <4>3. ASSUME NEW i \in DOMAIN storeCh', storeCh'[i] = p
            PROVE  i + 1 \in DOMAIN storeCh /\ storeCh[i + 1] = p
        BY <2>1, <4>3
      <4> QED
        BY <4>1, <4>2, <4>3
    <3> QED
      BY <3>2, <3>3
  <2>6. \A p \in Requests : fate'[p] = "storing" <=> \E v \in Workers : p \in item'[v]
    BY <2>1, <2>2, <2>3
  <2>7. \A p \in Requests : \A u, v \in Workers : p \in item'[u] \cap item'[v] => u = v
    BY <2>2, <2>3
  <2> QED
    BY <2>4, <2>5, <2>6, <2>7
<1>14. ASSUME NEW w \in Workers, Finish(w) PROVE QueueLedger'
  BY <1>14 DEF Finish, channel, mutex
<1>15. ASSUME NEW w \in Workers, Exit(w) PROVE QueueLedger'
  BY <1>15 DEF Exit, channel, mutex
<1>16. CASE UNCHANGED vars
  BY <1>16 DEF vars, mutex, channel, consumer
<1> QED
  BY <1>1, <1>2, <1>3, <1>4, <1>5, <1>6, <1>7, <1>8, <1>9, <1>10, <1>11, <1>12, <1>13, <1>14, <1>15, <1>16 DEF Next, QueueStore, CloseSteps, Worker, Terminated

-------------------------------------------------------------------------------
\* The inductive invariant holds throughout.
THEOREM Inductive == Spec => []IInv
<1>1. Init => IInv
  <2>1. Init => TypeOK
    <3> SUFFICES ASSUME Init PROVE TypeOK
      OBVIOUS
    <3>1. storeCh \in Seq(Requests) /\ Len(storeCh) \in 0..QueueSize
      BY StoreQueueAssumption DEF Init
    <3>2. wpc \in [Workers -> WorkerPC]
      BY DEF Init, WorkerPC
    <3> QED
      BY <3>1, <3>2 DEF Init, TypeOK, HandlerPC, CloserPC, Fate
  <2>2. Init => LockInv /\ CloseInv
    BY DEF Init, LockInv, CloseInv, Reading, Claiming, Exclusive
  <2>3. Init => DrainInv
    <3> SUFFICES ASSUME Init PROVE DrainInv
      OBVIOUS
    <3>1. \A w \in Workers : wpc[w] # "storing" /\ item[w] = {} /\ (dbDefined => wpc[w] # "exited")
      BY DEF Init
    <3> QED
      BY <3>1 DEF Init, DrainInv
  <2>4. Init => FreshInv
    BY DEF Init, FreshInv
  <2>5. Init => QueueLedger
    <3> SUFFICES ASSUME Init PROVE QueueLedger
      OBVIOUS
    <3>1. storeCh = <<>> /\ DOMAIN storeCh = {}
      BY DEF Init
    <3> QED
      BY <3>1 DEF Init, QueueLedger
  <2> QED
    BY <2>1, <2>2, <2>3, <2>4, <2>5 DEF IInv
<1>2. IInv /\ [Next]_vars => IInv'
  BY TypeStep, LockStep, CloseStep, DrainStep, FreshStep, LedgerStep DEF IInv
<1> QED
  BY <1>1, <1>2, PTL DEF Spec

\* Type correctness of the whole state of the processor.
THEOREM TypeCorrect == Spec => []TypeOK
<1>1. IInv => TypeOK
  BY DEF IInv
<1> QED
  BY <1>1, Inductive, PTL

\* No handler ever sends on the closed storeCh: QueueStore cannot panic, for
\* any number of handlers and of concurrent Close calls.
THEOREM SendIsSafe == Spec => []NoSendOnClosedChannel
<1>1. IInv => NoSendOnClosedChannel
  BY DEF IInv, CloseInv, NoSendOnClosedChannel
<1> QED
  BY <1>1, Inductive, PTL

\* storeCh is closed at most once, whoever calls Close and however often.
THEOREM CloseIsSafe == Spec => []NoDoubleClose
<1>1. IInv => NoDoubleClose
  BY DEF IInv, CloseInv, NoDoubleClose
<1> QED
  BY <1>1, Inductive, PTL

\* No request accepted by QueueStore is lost or taken by two workers.
THEOREM LedgerIsExact == Spec => []QueueLedger
<1>1. IInv => QueueLedger
  BY DEF IInv
<1> QED
  BY <1>1, Inductive, PTL

\* Once the Close call that closed the channel has returned, every accepted request
\* has been handled and every worker has gone, so cleanup may close the database.
\* A call that comes second returns at once, and promises nothing.
THEOREM CloseIsADrain == Spec => []CloseDrains
<1>1. IInv => CloseDrains
  <2> SUFFICES ASSUME IInv, NEW c \in Closers, cpc[c] = "returned"
               PROVE  /\ \A w \in Workers : wpc[w] = "exited"
                      /\ \A r \in Requests : fate[r] \notin {"queued", "storing"}
    BY DEF CloseDrains
  <2>1. dbDefined /\ \A w \in Workers : wpc[w] = "exited"
    BY DEF IInv, DrainInv
  <2>2. storeCh = <<>> /\ \A w \in Workers : item[w] = {}
    BY <2>1, StoreQueueAssumption DEF IInv, DrainInv
  <2>3. \A r \in Requests : fate[r] \notin {"queued", "storing"}
    BY <2>2 DEF IInv, QueueLedger
  <2> QED
    BY <2>1, <2>3
<1> QED
  BY <1>1, Inductive, PTL
\* No goroutine of the queue hangs in a circle of waits: whoever waits for
\* storeMu, for its readers or for the workers waits for someone that goes on by
\* itself, whatever calls are or are not made later.
THEOREM WaitsEnd == Spec => []WaitsAreGrounded
<1>1. IInv => WaitsAreGrounded
  <2> SUFFICES ASSUME IInv PROVE WaitsAreGrounded
    OBVIOUS
  <2>1. ASSUME NEW c \in Closers, c \in wlock PROVE CloserMoves(c) \/ cpc[c] = "pending"
    BY <2>1 DEF IInv, LockInv, Claiming, CloserMoves
  <2>2. ASSUME NEW r \in Requests, r \in rlocks PROVE HandlerMoves(r)
    BY <2>2 DEF IInv, LockInv, Reading, HandlerMoves
  <2>3. ASSUME NEW c \in Closers, cpc[c] = "waiting", NEW w \in Workers
        PROVE  c \notin wlock /\ (wpc[w] = "exited" \/ WorkerMoves(w))
    <3>1. c \notin wlock
      BY <2>3 DEF IInv, LockInv, Claiming
    <3>2. chClosed /\ wpc[w] \in {"receiving", "storing", "exited"}
      BY <2>3 DEF IInv, CloseInv, TypeOK, WorkerPC
    <3> QED
      BY <3>1, <3>2 DEF WorkerMoves
  <2>4. wlock \subseteq Closers /\ rlocks \subseteq Requests
    BY DEF IInv, TypeOK
  <2> QED
    BY <2>1, <2>2, <2>3, <2>4, StoreQueueAssumption DEF WaitsAreGrounded
<1> QED
  BY <1>1, Inductive, PTL
===============================================================================
