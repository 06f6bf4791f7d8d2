------------------------------ MODULE StoreQueue ------------------------------
(***************************************************************************)
(* The bounded asynchronous persistence queue of RequestProcessor          *)
(* (request.go): handler goroutines call QueueStore, storeWorkers          *)
(* goroutines range over storeCh, and Close stops them after a drain.      *)
(*                                                                         *)
(* What a worker does with a request it took (storeRequestAsync) is one    *)
(* step here; module Persist opens it.                                     *)
(***************************************************************************)
EXTENDS Integers, Sequences, FiniteSets

CONSTANTS
  Requests,    \* the *HTTPRequest records handlers offer, one call each
  Addressed,   \* those whose IP field is not ""
  Workers,     \* the goroutines NewRequestProcessor starts (storeWorkers)
  Closers,     \* the goroutines that may call Close
  QueueSize    \* capacity of storeCh (storeQueueSize)

ASSUME StoreQueueAssumption ==
  /\ Addressed \subseteq Requests
  /\ Workers # {} /\ IsFiniteSet(Workers)
  /\ QueueSize \in Nat \ {0}

VARIABLES
  dbDefined,    \* rp.dbDefined; storeCh is nil and no worker exists without it
  storeCh,      \* the buffered channel's content
  chClosed,     \* close(storeCh) has run
  storeClosed,  \* the atomic flag rp.storeClosed
  rlocks,       \* handlers that hold storeMu.RLock
  wlock,        \* the Close call that owns or has claimed storeMu.Lock, if any
  hpc,          \* where each handler is in QueueStore
  cpc,          \* where each caller is in Close
  wpc,          \* where each worker is in its range loop
  item,         \* the request each worker is storing, if any
  fate          \* what has become of each request

vars == <<dbDefined, storeCh, chClosed, storeClosed, rlocks, wlock, hpc, cpc,
          wpc, item, fate>>

mutex   == <<rlocks, wlock>>
channel == <<storeCh, chClosed>>
consumer == <<wpc, item>>

HandlerPC == {"idle", "rlock", "locked", "sending", "unlocking", "returned"}
CloserPC  == {"idle", "lock", "pending", "locked", "closing", "yield",
              "release", "waiting", "returned", "noop"}
WorkerPC  == {"receiving", "storing", "exited"}
Fate      == {"new", "ignored", "refused", "dropped", "queued", "storing",
              "handled"}

TypeOK ==
  /\ dbDefined \in BOOLEAN
  /\ storeCh \in Seq(Requests) /\ Len(storeCh) \in 0..QueueSize
  /\ chClosed \in BOOLEAN
  /\ storeClosed \in BOOLEAN
  /\ rlocks \in SUBSET Requests
  /\ wlock \in SUBSET Closers
  /\ hpc \in [Requests -> HandlerPC]
  /\ cpc \in [Closers -> CloserPC]
  /\ wpc \in [Workers -> WorkerPC]
  /\ item \in [Workers -> SUBSET Requests]
  /\ fate \in [Requests -> Fate]

\* NewRequestProcessor: the channel and the workers exist iff a database does.
Init ==
  /\ dbDefined \in BOOLEAN
  /\ storeCh = <<>>
  /\ chClosed = FALSE
  /\ storeClosed = FALSE
  /\ rlocks = {}
  /\ wlock = {}
  /\ hpc = [r \in Requests |-> "idle"]
  /\ cpc = [c \in Closers |-> "idle"]
  /\ wpc = [w \in Workers |-> IF dbDefined THEN "receiving" ELSE "exited"]
  /\ item = [w \in Workers |-> {}]
  /\ fate = [r \in Requests |-> "new"]
-------------------------------------------------------------------------------
(* Broken forms of definitions below, each with a plausible bug in the code *)
(* it stands for: substituted one at a time, they show that the properties  *)
(* at the end of this module can fail.                                      *)

\* "<=" for "<": one request more than the channel can hold.
SendOrDropOverfilling(r) ==
  /\ hpc[r] = "sending"
  /\ hpc' = [hpc EXCEPT ![r] = "unlocking"]
  /\ IF Len(storeCh) <= QueueSize
       THEN /\ storeCh' = Append(storeCh, r)
            /\ fate' = [fate EXCEPT ![r] = "queued"]
       ELSE /\ fate' = [fate EXCEPT ![r] = "dropped"]
            /\ UNCHANGED storeCh
  /\ UNCHANGED <<dbDefined, chClosed, storeClosed, mutex, cpc, consumer>>

\* Drops when one slot is left.
SendOrDropEarly(r) ==
  /\ hpc[r] = "sending"
  /\ hpc' = [hpc EXCEPT ![r] = "unlocking"]
  /\ IF Len(storeCh) + 1 < QueueSize
       THEN /\ storeCh' = Append(storeCh, r)
            /\ fate' = [fate EXCEPT ![r] = "queued"]
       ELSE /\ fate' = [fate EXCEPT ![r] = "dropped"]
            /\ UNCHANGED storeCh
  /\ UNCHANGED <<dbDefined, chClosed, storeClosed, mutex, cpc, consumer>>

\* Without storeMu.RLock: the check of storeClosed and the send are not atomic.
RLockForgotten(r) ==
  /\ hpc[r] = "rlock"
  /\ hpc' = [hpc EXCEPT ![r] = "locked"]
  /\ UNCHANGED <<dbDefined, channel, storeClosed, mutex, cpc, consumer, fate>>

\* A Store in place of the Swap: every caller goes on to close the channel.
SwapClosedBlind(c) ==
  /\ cpc[c] = "locked"
  /\ cpc' = [cpc EXCEPT ![c] = "closing"]
  /\ storeClosed' = TRUE
  /\ UNCHANGED <<dbDefined, channel, mutex, hpc, consumer, fate>>

\* The early return of Close without its Unlock.
UnlockMissedOnReturn(c) ==
  /\ cpc[c] \in {"yield", "release"}
  /\ wlock' = IF cpc[c] = "yield" THEN wlock ELSE {}
  /\ cpc' = [cpc EXCEPT ![c] = IF @ = "yield" THEN "noop" ELSE "waiting"]
  /\ UNCHANGED <<dbDefined, channel, storeClosed, rlocks, hpc, consumer, fate>>

\* The flag is set but close(storeCh) is forgotten.
CloseChannelForgotten(c) ==
  /\ cpc[c] = "closing"
  /\ cpc' = [cpc EXCEPT ![c] = "release"]
  /\ UNCHANGED <<dbDefined, channel, storeClosed, mutex, hpc, consumer, fate>>

\* Close without storeWG.Wait.
WaitWorkersForgotten(c) ==
  /\ cpc[c] = "waiting"
  /\ cpc' = [cpc EXCEPT ![c] = "returned"]
  /\ UNCHANGED <<dbDefined, channel, storeClosed, mutex, hpc, consumer, fate>>

\* The worker looks at the first request without taking it.
ReceivePeeking(w) ==
  /\ wpc[w] = "receiving"
  /\ storeCh # <<>>
  /\ item' = [item EXCEPT ![w] = {Head(storeCh)}]
  /\ fate' = [fate EXCEPT ![Head(storeCh)] = "storing"]
  /\ wpc' = [wpc EXCEPT ![w] = "storing"]
  /\ UNCHANGED <<dbDefined, channel, storeClosed, mutex, hpc, cpc>>

\* The worker stops at the close, whatever is still buffered.
ExitEarly(w) ==
  /\ wpc[w] = "receiving"
  /\ chClosed
  /\ wpc' = [wpc EXCEPT ![w] = "exited"]
  /\ UNCHANGED <<dbDefined, channel, storeClosed, mutex, hpc, cpc, item, fate>>
-------------------------------------------------------------------------------
(* QueueStore, by the handler of request r.                                *)

Storable(r) == dbDefined /\ r \in Addressed

\* The call: without a database or a client IP it returns at once.
Offer(r) ==
  /\ hpc[r] = "idle"
  /\ IF Storable(r)
       THEN /\ hpc' = [hpc EXCEPT ![r] = "rlock"]
            /\ UNCHANGED fate
       ELSE /\ hpc' = [hpc EXCEPT ![r] = "returned"]
            /\ fate' = [fate EXCEPT ![r] = "ignored"]
  /\ UNCHANGED <<dbDefined, channel, storeClosed, mutex, cpc, consumer>>

\* sync.RWMutex: a claimed write lock holds back new readers.
RLock(r) ==
  /\ hpc[r] = "rlock"
  /\ wlock = {}
  /\ rlocks' = rlocks \cup {r}
  /\ hpc' = [hpc EXCEPT ![r] = "locked"]
  /\ UNCHANGED <<dbDefined, channel, storeClosed, wlock, cpc, consumer, fate>>

LoadClosed(r) ==
  /\ hpc[r] = "locked"
  /\ IF storeClosed
       THEN /\ hpc' = [hpc EXCEPT ![r] = "unlocking"]
            /\ fate' = [fate EXCEPT ![r] = "refused"]
       ELSE /\ hpc' = [hpc EXCEPT ![r] = "sending"]
            /\ UNCHANGED fate
  /\ UNCHANGED <<dbDefined, channel, storeClosed, mutex, cpc, consumer>>

\* The select: a full buffer takes the default branch and drops the request.
SendOrDrop(r) ==
  /\ hpc[r] = "sending"
  /\ hpc' = [hpc EXCEPT ![r] = "unlocking"]
  /\ IF Len(storeCh) < QueueSize
       THEN /\ storeCh' = Append(storeCh, r)
            /\ fate' = [fate EXCEPT ![r] = "queued"]
       ELSE /\ fate' = [fate EXCEPT ![r] = "dropped"]
            /\ UNCHANGED storeCh
  /\ UNCHANGED <<dbDefined, chClosed, storeClosed, mutex, cpc, consumer>>

RUnlock(r) ==
  /\ hpc[r] = "unlocking"
  /\ rlocks' = rlocks \ {r}
  /\ hpc' = [hpc EXCEPT ![r] = "returned"]
  /\ UNCHANGED <<dbDefined, channel, storeClosed, wlock, cpc, consumer, fate>>

QueueStore(r) ==
  \/ Offer(r) \/ RLock(r) \/ LoadClosed(r) \/ SendOrDrop(r) \/ RUnlock(r)
-------------------------------------------------------------------------------
(* Close, by caller c.                                                     *)

CallClose(c) ==
  /\ cpc[c] = "idle"
  /\ cpc' = [cpc EXCEPT ![c] = IF dbDefined THEN "lock" ELSE "noop"]
  /\ UNCHANGED <<dbDefined, channel, storeClosed, mutex, hpc, consumer, fate>>

\* Lock, first half: one writer at a time claims the mutex.
ClaimLock(c) ==
  /\ cpc[c] = "lock"
  /\ wlock = {}
  /\ wlock' = {c}
  /\ cpc' = [cpc EXCEPT ![c] = "pending"]
  /\ UNCHANGED <<dbDefined, channel, storeClosed, rlocks, hpc, consumer, fate>>

\* Lock, second half: it is granted when the last reader has left.
Locked(c) ==
  /\ cpc[c] = "pending"
  /\ rlocks = {}
  /\ cpc' = [cpc EXCEPT ![c] = "locked"]
  /\ UNCHANGED <<dbDefined, channel, storeClosed, mutex, hpc, consumer, fate>>

SwapClosed(c) ==
  /\ cpc[c] = "locked"
  /\ cpc' = [cpc EXCEPT ![c] = IF storeClosed THEN "yield" ELSE "closing"]
  /\ storeClosed' = TRUE
  /\ UNCHANGED <<dbDefined, channel, mutex, hpc, consumer, fate>>

CloseChannel(c) ==
  /\ cpc[c] = "closing"
  /\ chClosed' = TRUE
  /\ cpc' = [cpc EXCEPT ![c] = "release"]
  /\ UNCHANGED <<dbDefined, storeCh, storeClosed, mutex, hpc, consumer, fate>>

Unlock(c) ==
  /\ cpc[c] \in {"yield", "release"}
  /\ wlock' = {}
  /\ cpc' = [cpc EXCEPT ![c] = IF @ = "yield" THEN "noop" ELSE "waiting"]
  /\ UNCHANGED <<dbDefined, channel, storeClosed, rlocks, hpc, consumer, fate>>

\* storeWG.Wait: every worker has left its range loop.
WaitWorkers(c) ==
  /\ cpc[c] = "waiting"
  /\ \A w \in Workers : wpc[w] = "exited"
  /\ cpc' = [cpc EXCEPT ![c] = "returned"]
  /\ UNCHANGED <<dbDefined, channel, storeClosed, mutex, hpc, consumer, fate>>

\* The steps that follow the call, by the goroutine that made it.
CloseSteps(c) ==
  \/ ClaimLock(c) \/ Locked(c) \/ SwapClosed(c) \/ CloseChannel(c)
  \/ Unlock(c) \/ WaitWorkers(c)
-------------------------------------------------------------------------------
(* A worker's "for httpReq := range rp.storeCh".                           *)

Receive(w) ==
  /\ wpc[w] = "receiving"
  /\ storeCh # <<>>
  /\ item' = [item EXCEPT ![w] = {Head(storeCh)}]
  /\ storeCh' = Tail(storeCh)
  /\ fate' = [fate EXCEPT ![Head(storeCh)] = "storing"]
  /\ wpc' = [wpc EXCEPT ![w] = "storing"]
  /\ UNCHANGED <<dbDefined, chClosed, storeClosed, mutex, hpc, cpc>>

\* storeRequestAsync returned, whatever it did with the request.
Finish(w) ==
  /\ wpc[w] = "storing"
  /\ fate' = [r \in Requests |-> IF r \in item[w] THEN "handled" ELSE fate[r]]
  /\ item' = [item EXCEPT ![w] = {}]
  /\ wpc' = [wpc EXCEPT ![w] = "receiving"]
  /\ UNCHANGED <<dbDefined, channel, storeClosed, mutex, hpc, cpc>>

\* A closed channel ends the loop only once its buffer is empty.
Exit(w) ==
  /\ wpc[w] = "receiving"
  /\ storeCh = <<>>
  /\ chClosed
  /\ wpc' = [wpc EXCEPT ![w] = "exited"]
  /\ UNCHANGED <<dbDefined, channel, storeClosed, mutex, hpc, cpc, item, fate>>

Worker(w) == Receive(w) \/ Finish(w) \/ Exit(w)
-------------------------------------------------------------------------------
\* Every goroutine has run to its end: the only place the system may stop.
Quiescent ==
  /\ \A r \in Requests : hpc[r] = "returned"
  /\ \A c \in Closers : cpc[c] \in {"returned", "noop"}
  /\ \A w \in Workers : wpc[w] = "exited"

Terminated == Quiescent /\ UNCHANGED vars

Next ==
  \/ \E r \in Requests : QueueStore(r)
  \/ \E c \in Closers : CallClose(c) \/ CloseSteps(c)
  \/ \E w \in Workers : Worker(w)
  \/ Terminated

\* The Go scheduler runs every goroutine that can move. Nobody is obliged to
\* send a request or to call Close, so those two steps carry no fairness.
Fairness ==
  /\ \A r \in Requests : WF_vars(QueueStore(r) /\ hpc[r] # "idle")
  /\ \A c \in Closers : WF_vars(CloseSteps(c))
  /\ \A w \in Workers : WF_vars(Worker(w))

Spec == Init /\ [][Next]_vars /\ Fairness
-------------------------------------------------------------------------------
(* Properties.                                                             *)

\* A send on a closed channel panics, even in a select with a default: a
\* handler that has passed the storeClosed check must find storeCh open.
NoSendOnClosedChannel == \A r \in Requests : hpc[r] = "sending" => ~chClosed

\* Closing a closed channel panics: concurrent Close calls elect one closer.
NoDoubleClose == \A c \in Closers : cpc[c] = "closing" => ~chClosed

\* A request accepted into the channel is in exactly one place, once: in the
\* buffer or in one worker's hands. Nothing is lost or stored twice between
\* QueueStore and storeRequestAsync.
QueueLedger ==
  /\ \A i, j \in DOMAIN storeCh : storeCh[i] = storeCh[j] => i = j
  /\ \A r \in Requests :
       /\ fate[r] = "queued" <=> \E i \in DOMAIN storeCh : storeCh[i] = r
       /\ fate[r] = "storing" <=> \E w \in Workers : r \in item[w]
       /\ \A v, w \in Workers : r \in item[v] \cap item[w] => v = w

\* main closes the database right after its Close, the only call, returns: by then
\* every accepted request has been handed to the database and no worker is left to
\* use it. A Close that found the flag set ends as "noop" and promises nothing.
CloseDrains ==
  \A c \in Closers : cpc[c] = "returned" =>
    /\ \A w \in Workers : wpc[w] = "exited"
    /\ \A r \in Requests : fate[r] \notin {"queued", "storing"}

\* Who can go on, from where it is, without waiting for anyone.
HandlerMoves(r) == hpc[r] \in {"locked", "sending", "unlocking"}
CloserMoves(c)  == cpc[c] \in {"locked", "closing", "yield", "release"}
WorkerMoves(w)  == wpc[w] = "storing" \/ (wpc[w] = "receiving" /\ (storeCh # <<>> \/ chClosed))

\* Nobody waits in a circle. A handler or a closer that waits for storeMu waits
\* for a closer that goes on by itself, or that itself only waits for handlers
\* which do; a closer that waits for the workers holds no lock, and each worker
\* goes on or is gone. So no goroutine hangs, even if none is ever started again.
WaitsAreGrounded ==
  /\ (\E r \in Requests : hpc[r] = "rlock") \/ (\E c \in Closers : cpc[c] = "lock") =>
       \A c \in wlock : CloserMoves(c) \/ cpc[c] = "pending"
  /\ \A c \in Closers : cpc[c] = "pending" => \A r \in rlocks : HandlerMoves(r)
  /\ \A c \in Closers : cpc[c] = "waiting" =>
       c \notin wlock /\ \A w \in Workers : wpc[w] = "exited" \/ WorkerMoves(w)

\* QueueStore never leaves a handler hanging, whatever the workers do.
QueueStoreReturns ==
  \A r \in Requests : hpc[r] = "rlock" ~> hpc[r] = "returned"

\* An accepted request reaches the end of storeRequestAsync, Close or not.
AcceptedIsHandled == \A r \in Requests : fate[r] = "queued" ~> fate[r] = "handled"

\* Close returns, provided the calls of storeRequestAsync do.
CloseReturns ==
  \A c \in Closers : cpc[c] = "lock" ~> cpc[c] \in {"returned", "noop"}
-------------------------------------------------------------------------------
(* The promise made to the rest of the program (module RecordLedger).      *)

Status(r) ==
  CASE fate[r] = "new" -> "offered"
    [] fate[r] \in {"ignored", "refused", "dropped"} -> "turnedAway"
    [] fate[r] \in {"queued", "storing"} -> "accepted"
    [] fate[r] = "handled" -> "settled"

Gate ==
  IF \E c \in Closers : cpc[c] = "returned" THEN "drained"
  ELSE IF storeClosed THEN "shut" ELSE "open"

Ledger == INSTANCE RecordLedger WITH
            Backlog   <- QueueSize,
            InFlight  <- QueueSize + Cardinality(Workers),
            recording <- dbDefined,
            gate      <- Gate,
            status    <- [r \in Requests |-> Status(r)]

\* Every behaviour of the queue is one the ledger allows.
ImplementsLedger == Ledger!Spec
===============================================================================
