------------------------------- MODULE Persist -------------------------------
(***************************************************************************)
(* storeRequestAsync (request.go): what a store worker does with a request *)
(* it took from storeCh. Several workers run it at once over the same two  *)
(* tables, each database call a step of its own, with no transaction.      *)
(***************************************************************************)
EXTENDS Database

CONSTANTS
  Workers,    \* the store workers
  Window      \* the deduplication window of storeRequestAsync, in clock ticks

ASSUME PersistAssumption == Workers # {} /\ IsFiniteSet(Workers) /\ Window \in Nat

VARIABLES
  storeCh,   \* requests accepted by QueueStore and not yet taken
  stamp,     \* httpReq.Timestamp of each request
  ppc,       \* where each worker is in storeRequestAsync
  job,       \* the request it is storing, if any
  fate       \* what has become of each request

persistVars == <<storeCh, stamp, ppc, job, fate>>

WorkerPC == {"idle", "check", "ensure", "minimal", "save"}
Fate     == {"new", "turnedAway", "queued", "storing", "recorded", "skipped", "failed"}

PersistTypeOK ==
  /\ storeCh \in Seq(Requests)
  /\ stamp \in [Requests -> Time]
  /\ ppc \in [Workers -> WorkerPC]
  /\ job \in [Workers -> SUBSET Requests]
  /\ fate \in [Requests -> Fate]

PersistInit ==
  /\ storeCh = <<>>
  /\ stamp = [q \in Requests |-> 0]
  /\ ppc = [w \in Workers |-> "idle"]
  /\ job = [w \in Workers |-> {}]
  /\ fate = [q \in Requests |-> "new"]

\* Worker w is done with request q.
Return(w, q, result) ==
  /\ fate' = [fate EXCEPT ![q] = result]
  /\ job' = [job EXCEPT ![w] = {}]
  /\ ppc' = [ppc EXCEPT ![w] = "idle"]

Goto(w, pc) ==
  /\ ppc' = [ppc EXCEPT ![w] = pc]
  /\ UNCHANGED <<job, fate>>

Take(w) ==
  /\ ppc[w] = "idle" /\ storeCh # <<>>
  /\ job' = [job EXCEPT ![w] = {Head(storeCh)}]
  /\ storeCh' = Tail(storeCh)
  /\ fate' = [fate EXCEPT ![Head(storeCh)] = "storing"]
  /\ ppc' = [ppc EXCEPT ![w] = "check"]
  /\ UNCHANGED <<dbVars, stamp>>

CheckDuplicate(w) ==
  /\ ppc[w] = "check"
  /\ \E q \in job[w], result \in {"duplicate", "new", "error"} :
       /\ IsDuplicateRequest(q, Window, result)
       /\ CASE result = "error"     -> Return(w, q, "failed")
            [] result = "duplicate" -> Return(w, q, "skipped")
            [] result = "new"       -> Goto(w, "ensure")
  /\ UNCHANGED <<dbVars, storeCh, stamp>>

\* Broken form: the presence of the ip_info row is taken for granted.
EnsureIPInfoSkipped(w) ==
  /\ ppc[w] = "ensure"
  /\ Goto(w, "save")
  /\ UNCHANGED <<dbVars, storeCh, stamp>>

EnsureIPInfo(w) ==
  /\ ppc[w] = "ensure"
  /\ \E q \in job[w], row \in Row \cup {NoRow} :
       /\ GetIPInfo(ip[q], row)
       /\ Goto(w, IF row = NoRow THEN "minimal" ELSE "save")
  /\ UNCHANGED <<dbVars, storeCh, stamp>>

\* Any error of GetIPInfo counts as "IP doesn't exist": a row without
\* geolocation is upserted, stamped with the current time.
SaveMinimalIPInfo(w) ==
  /\ ppc[w] = "minimal"
  /\ \E q \in job[w], ok \in BOOLEAN :
       /\ SaveIPInfo(ip[q], [located |-> FALSE, lastUpdate |-> now], ok)
       /\ IF ok THEN Goto(w, "save") ELSE Return(w, q, "failed")
  /\ UNCHANGED <<dbType, dbFaults, httpRequests, now, storeCh, stamp>>

\* Broken form: the record is inserted again when its answer is late.
SaveRequestTwice(w) ==
  /\ ppc[w] = "save"
  /\ \E q \in job[w], ok \in BOOLEAN :
       /\ SaveHTTPRequest(q, stamp[q], ok)
       /\ \/ Return(w, q, IF ok THEN "recorded" ELSE "failed")
          \/ Goto(w, "save")
  /\ UNCHANGED <<dbType, dbFaults, ipInfo, now, storeCh, stamp>>

SaveRequest(w) ==
  /\ ppc[w] = "save"
  /\ \E q \in job[w], ok \in BOOLEAN :
       /\ SaveHTTPRequest(q, stamp[q], ok)
       /\ Return(w, q, IF ok THEN "recorded" ELSE "failed")
  /\ UNCHANGED <<dbType, dbFaults, ipInfo, now, storeCh, stamp>>

storeRequestAsync(w) ==
  \/ CheckDuplicate(w) \/ EnsureIPInfo(w) \/ SaveMinimalIPInfo(w) \/ SaveRequest(w)
-------------------------------------------------------------------------------
(* Properties.                                                             *)

Recorded == {httpRequests[i].req : i \in DOMAIN httpRequests}

\* Each inserted row is one request that ended as recorded, and no request is
\* inserted twice: a request is recorded, skipped or given up, never two of these.
RecordedOnce ==
  /\ \A i, j \in DOMAIN httpRequests :
       httpRequests[i].req = httpRequests[j].req => i = j
  /\ Recorded = {q \in Requests : fate[q] = "recorded"}

\* Every stored request has its parent row in ip_info, also on SQLite, whose
\* connection does not enforce the foreign key.
ParentRowExists == \A q \in Recorded : ipInfo[ip[q]] # NoRow

\* With a backend that understands the queries a request is given up only for a
\* fault of the database itself or for its own texts, which truncateForLog may
\* have spoilt for PostgreSQL, never for a foreign key the workers missed.
FailureNeedsFault ==
  \A q \in Requests :
    fate[q] = "failed" => dbFaults \/ ~Understands \/ ~TakesTexts(q, Texts)

\* A skipped request is represented: another request with its fingerprint is
\* stored, and is less than Window older than the skipped one.
SkippedHasTwin ==
  \A q \in Requests : fate[q] = "skipped" =>
    \E i \in DOMAIN httpRequests :
      /\ httpRequests[i].req # q
      /\ print[httpRequests[i].req] = print[q]
      /\ httpRequests[i].at > stamp[q] - Window
===============================================================================
