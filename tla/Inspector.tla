------------------------------ MODULE Inspector ------------------------------
(***************************************************************************)
(* The inspection of requests from end to end: handlers geolocate the      *)
(* client (IPInfo), build the record and answer; the record is queued and  *)
(* a worker stores it (Persist). Handlers and workers meet in the table    *)
(* ip_info. The queue is the one of module StoreQueue with its locking     *)
(* abstracted: a request is accepted or turned away in one step.           *)
(*                                                                         *)
(* Which record a request gets depends on how the router treated it:       *)
(*   "root"      HandleRoot, for the inspector page                        *)
(*   "fallback"  HandleRoot again, called by the error handler on a 405    *)
(*   "notFound"  recordNotFound, called by the error handler on a 404      *)
(*   "tooLarge"  recordRejectedBody, called by the body limit on a 413     *)
(***************************************************************************)
EXTENDS IPInfo, Persist

CONSTANTS
  route,       \* the treatment of each request
  QueueSize    \* storeQueueSize

ASSUME InspectorAssumption ==
  /\ route \in [Requests -> {"root", "fallback", "notFound", "tooLarge"}]
  /\ QueueSize \in Nat \ {0}

VARIABLE hpc   \* where each handler is

vars == <<ipInfoVars, persistVars, hpc>>

HandlerPC == {"idle", "locating", "building", "answering", "done"}

TypeOK ==
  /\ IPInfoTypeOK
  /\ PersistTypeOK
  /\ Len(storeCh) <= QueueSize
  /\ hpc \in [Requests -> HandlerPC]

Init ==
  /\ IPInfoInit
  /\ PersistInit
  /\ hpc = [q \in Requests |-> "idle"]

Inspected(q) == route[q] \in {"root", "fallback"}

\* Only HandleRoot geolocates. The error handler runs after ContextTimeout has
\* cancelled its context, which the request still carries.
Arrive(q) ==
  /\ hpc[q] = "idle"
  /\ IF Inspected(q)
       THEN /\ hpc' = [hpc EXCEPT ![q] = "locating"]
            /\ CallLookup(q, route[q] = "fallback")
       ELSE /\ hpc' = [hpc EXCEPT ![q] = "building"]
            /\ UNCHANGED geoVars
  /\ UNCHANGED <<dbVars, persistVars>>

\* getOrFetchIPInfo returned, with or without a geolocation.
Located(q) ==
  /\ hpc[q] = "locating"
  /\ gpc[q] = "answered"
  /\ hpc' = [hpc EXCEPT ![q] = "building"]
  /\ UNCHANGED <<ipInfoVars, persistVars>>

\* buildHTTPRequest stamps the record.
buildHTTPRequest(q) ==
  /\ hpc[q] = "building"
  /\ stamp' = [stamp EXCEPT ![q] = now]
  /\ hpc' = [hpc EXCEPT ![q] = "answering"]
  /\ UNCHANGED <<ipInfoVars, storeCh, ppc, job, fate>>

\* Broken form: the queue takes one record more than it holds.
QueueStoreOverfilling(q) ==
  /\ hpc[q] = "answering"
  /\ hpc' = [hpc EXCEPT ![q] = "done"]
  /\ dbDefined
  /\ storeCh' = Append(storeCh, q)
  /\ fate' = [fate EXCEPT ![q] = "queued"]
  /\ UNCHANGED <<ipInfoVars, stamp, ppc, job>>

\* Broken form: drops when one slot is left.
QueueStoreEarly(q) ==
  /\ hpc[q] = "answering"
  /\ hpc' = [hpc EXCEPT ![q] = "done"]
  /\ IF dbDefined /\ Len(storeCh) + 1 < QueueSize
       THEN /\ storeCh' = Append(storeCh, q)
            /\ fate' = [fate EXCEPT ![q] = "queued"]
       ELSE /\ fate' = [fate EXCEPT ![q] = "turnedAway"]
            /\ UNCHANGED storeCh
  /\ UNCHANGED <<ipInfoVars, stamp, ppc, job>>

\* Broken form: the handler waits for room in the queue.
QueueStoreBlocking(q) ==
  /\ hpc[q] = "answering"
  /\ hpc' = [hpc EXCEPT ![q] = "done"]
  /\ dbDefined /\ Len(storeCh) < QueueSize
  /\ storeCh' = Append(storeCh, q)
  /\ fate' = [fate EXCEPT ![q] = "queued"]
  /\ UNCHANGED <<ipInfoVars, stamp, ppc, job>>

\* The record is handed over without waiting, around the response.
QueueStore(q) ==
  /\ hpc[q] = "answering"
  /\ hpc' = [hpc EXCEPT ![q] = "done"]
  /\ IF dbDefined /\ Len(storeCh) < QueueSize
       THEN /\ storeCh' = Append(storeCh, q)
            /\ fate' = [fate EXCEPT ![q] = "queued"]
       ELSE /\ fate' = [fate EXCEPT ![q] = "turnedAway"]
            /\ UNCHANGED storeCh
  /\ UNCHANGED <<ipInfoVars, stamp, ppc, job>>

Handler(q) ==
  \/ Located(q)
  \/ buildHTTPRequest(q)
  \/ QueueStore(q)

Worker(w) ==
  /\ dbDefined
  /\ Take(w) \/ storeRequestAsync(w)
  /\ UNCHANGED <<geoVars, hpc>>

Finished ==
  /\ \A q \in Requests : hpc[q] = "done" /\ fate[q] \notin {"queued", "storing"}
  /\ UNCHANGED vars

Next ==
  \/ \E q \in Requests : Arrive(q) \/ Handler(q)
  \/ \E q \in Requests : GeoStep(q) /\ UNCHANGED <<persistVars, hpc>>
  \/ \E w \in Workers : Worker(w)
  \/ Tick /\ UNCHANGED <<geoVars, persistVars, hpc>>
  \/ Finished

Geo(A) == A /\ UNCHANGED <<persistVars, hpc>>

\* Handlers and workers keep running, deadlines expire, and the HTTP client ends
\* a call whose context is done. Nothing obliges ipinfo.io to answer, or a token
\* to become free.
Fairness ==
  /\ \A q \in Requests :
       /\ WF_vars(Handler(q))
       /\ WF_vars(Geo(Lookup(q)))
       /\ WF_vars(Geo(GiveUp(q)))
       /\ WF_vars(Geo(SaveFetched(q)))
       /\ WF_vars(Geo(Expire(q)))
       /\ WF_vars(Geo(FetchStep(q) /\ ctxDone[q]))
  /\ \A w \in Workers : WF_vars(Worker(w))

Spec == Init /\ [][Next]_vars /\ Fairness
-------------------------------------------------------------------------------
(* Properties, beside those of IPInfo and Persist, which this specification *)
(* has to keep with both writing ip_info.                                   *)

\* Every request is answered and every record settled: no backend, fault,
\* silent geolocation service or full queue leaves one behind.
EveryRequestSettles ==
  \A q \in Requests :
    hpc[q] = "locating" ~> hpc[q] = "done" /\ fate[q] \notin {"queued", "storing"}

\* Geolocation is what ip_info caches: a row answered from the cache holds one.
CachedIsLocated ==
  \A q \in Requests :
    gpc[q] = "answered" /\ answer[q] # NoRow => answer[q].located

\* The minimal row is for an IP that "doesn't exist": without a database fault it
\* never takes the place of a geolocation.
MinimalRowIsNew ==
  [][\A i \in IPs :
       ~dbFaults /\ ipInfo[i] # NoRow /\ ipInfo[i].located => ipInfo'[i].located]_vars

\* "recordRejectedBody persists a 413 attempt": with a working database and room
\* in the queue the attempt gets a row, or stands behind another attempt's.
RejectedBodyIsRecorded ==
  \A q \in Requests :
    ~dbFaults /\ route[q] = "tooLarge" /\ fate[q] = "skipped" =>
      \E p \in Recorded : route[p] = "tooLarge" /\ print[p] = print[q]

\* A configured database persists: without faults of its own a request that was
\* accepted is stored or represented by a stored one.
ConfiguredDatabasePersists ==
  \A q \in Requests : fate[q] = "failed" => dbFaults \/ spoilt[q] # {}
-------------------------------------------------------------------------------
(* The promise of module RecordLedger, which StoreQueue keeps with every   *)
(* lock and channel operation a step but storeRequestAsync only one: here  *)
(* it is kept with every database call a step, and all their failures.     *)

Status(q) ==
  CASE fate[q] = "new" -> "offered"
    [] fate[q] = "turnedAway" -> "turnedAway"
    [] fate[q] \in {"queued", "storing"} -> "accepted"
    [] fate[q] \in {"recorded", "skipped", "failed"} -> "settled"

\* The server runs: Close has not been called.
Ledger == INSTANCE RecordLedger WITH
            Addressed <- Requests,
            Backlog   <- QueueSize,
            InFlight  <- QueueSize + Cardinality(Workers),
            recording <- dbDefined,
            gate      <- "open",
            status    <- [q \in Requests |-> Status(q)]

\* Whatever the database answers, a record that was accepted is settled once, and
\* none is turned away before a full queue is outstanding.
ImplementsLedger == Ledger!Spec
===============================================================================
