--------------------------- MODULE Inspector_proofs ---------------------------
(***************************************************************************)
(* Proofs of the safety properties of Inspector, IPInfo and Persist: for   *)
(* any requests, clients, workers, backends and bounds.                    *)
(***************************************************************************)
EXTENDS Inspector, FiniteSetTheorems, TLAPS

\* No row is from the future, and an answer that waits to be saved is not older
\* than the row the lookup began with.
GeoInv ==
  /\ \A i \in IPs : ipInfo[i] # NoRow => ipInfo[i].lastUpdate <= now
  /\ \A q \in Requests : cached[q] # NoRow => cached[q].lastUpdate <= now
  /\ \A q \in Requests : gpc[q] = "saving" =>
       /\ answer[q] # NoRow /\ answer[q].lastUpdate <= now
       /\ cached[q] # NoRow => answer[q].lastUpdate >= cached[q].lastUpdate
  /\ NeverWorseThanCached

Fetching == {q \in Requests : gpc[q] = "fetching"}

SemInv == IsFiniteSet(Fetching) /\ SemaphoreExact

\* A request is in one place at a time: with its handler, in the queue, or with
\* one worker, and its fate says which.
PlaceInv ==
  /\ \A q \in Requests : hpc[q] # "done" => fate[q] = "new"
  /\ \A i \in DOMAIN storeCh : fate[storeCh[i]] = "queued"
  /\ \A i, j \in DOMAIN storeCh : storeCh[i] = storeCh[j] => i = j
  /\ \A w \in Workers : ppc[w] = "idle" => job[w] = {}
  /\ \A w \in Workers, q \in Requests : q \in job[w] => job[w] = {q} /\ fate[q] = "storing"
  /\ \A v, w \in Workers, q \in Requests : q \in job[v] /\ q \in job[w] => v = w
  /\ \A q \in Requests : fate[q] # "new" => dbDefined \/ fate[q] = "turnedAway"

\* A worker that has got to the insert has seen or made the parent row, which
\* nobody deletes.
TableInv ==
  /\ \A q \in Requests : stamp[q] <= now
  /\ \A w \in Workers, q \in Requests : q \in job[w] /\ ppc[w] = "save" => ipInfo[ip[q]] # NoRow
  /\ RecordedOnce
  /\ ParentRowExists
  /\ FailureNeedsFault
  /\ SkippedHasTwin

IInv == TypeOK /\ GeoInv /\ SemInv /\ PlaceInv /\ TableInv
-------------------------------------------------------------------------------
(* Types.                                                                  *)

LEMMA Constants ==
  /\ ip \in [Requests -> IPs]
  /\ MaxNow \in Nat /\ TTL \in Nat /\ MaxFetches \in Nat /\ MaxFetches > 0
  /\ QueueSize \in Nat /\ Window \in Nat
  /\ NoRow \notin Row
BY DatabaseAssumption, IPInfoAssumption, PersistAssumption, InspectorAssumption

\* A record goes to the end of a sequence and disturbs none before it.
LEMMA AppendFacts ==
  ASSUME NEW S, NEW s \in Seq(S), NEW e \in S
  PROVE  /\ Append(s, e) \in Seq(S)
         /\ Len(s) \in Nat
         /\ Len(Append(s, e)) = Len(s) + 1
         /\ DOMAIN Append(s, e) = 1..(Len(s) + 1)
         /\ DOMAIN s = 1..Len(s)
         /\ \A i \in 1..Len(s) : Append(s, e)[i] = s[i]
         /\ Append(s, e)[Len(s) + 1] = e
OBVIOUS

LEMMA ElementType ==
  ASSUME NEW S, NEW s \in Seq(S), NEW i \in DOMAIN s
  PROVE  s[i] \in S
OBVIOUS

\* A worker takes the first request; the others move up.
LEMMA TailFacts ==
  ASSUME NEW S, NEW s \in Seq(S), s # <<>>
  PROVE  /\ Head(s) \in S
         /\ Head(s) = s[1]
         /\ 1 \in DOMAIN s
         /\ Tail(s) \in Seq(S)
         /\ Len(s) \in Nat \ {0}
         /\ Len(Tail(s)) = Len(s) - 1
         /\ DOMAIN Tail(s) = 1..(Len(s) - 1)
         /\ DOMAIN s = 1..Len(s)
         /\ \A i \in 1..(Len(s) - 1) : Tail(s)[i] = s[i + 1]
OBVIOUS

\* What the database methods leave in the tables.
LEMMA SaveIPInfoType ==
  ASSUME TypeOK, NEW i \in IPs, NEW row \in Row, NEW ok \in BOOLEAN, SaveIPInfo(i, row, ok)
  PROVE  /\ ipInfo' \in [IPs -> Row \cup {NoRow}]
         /\ \A j \in IPs : ipInfo'[j] = ipInfo[j] \/ (j = i /\ ipInfo'[j] = row)
         /\ ok /\ dbDefined => ipInfo'[i] = row
         /\ ~ok => dbFaults \/ ~Understands
BY DEF TypeOK, IPInfoTypeOK, DatabaseTypeOK, SaveIPInfo, Understands, dbDefined

LEMMA GetIPInfoType ==
  ASSUME TypeOK, NEW i \in IPs, NEW row, GetIPInfo(i, row)
  PROVE  row \in Row \cup {NoRow} /\ (row # NoRow => row = ipInfo[i])
BY DEF TypeOK, IPInfoTypeOK, DatabaseTypeOK, GetIPInfo

\* The semaphore holds no less than one token while a fetch is in flight.
LEMMA TokenHeld ==
  ASSUME TypeOK, SemInv, NEW q \in Requests, gpc[q] = "fetching"
  PROVE  sem - 1 \in 0..MaxFetches
<1>1. Cardinality(Fetching) # 0
  BY FS_EmptySet DEF SemInv, Fetching
<1>2. sem = Cardinality(Fetching)
  BY DEF SemInv, SemaphoreExact, Fetching
<1> QED BY <1>1, <1>2, Constants DEF TypeOK, IPInfoTypeOK

\* The lookup of a handler: its five variables and ip_info.
LEMMA GeoTypeStep ==
  ASSUME TypeOK, SemInv, NEW q \in Requests, GeoStep(q)
  PROVE  IPInfoTypeOK'
<1> USE DEF TypeOK, IPInfoTypeOK, LookupPC
<1>1. CASE Lookup(q)
  <2>1. PICK row \in Row \cup {NoRow} :
          /\ cached' = [cached EXCEPT ![q] = row]
          /\ \/ answer' = [answer EXCEPT ![q] = row] /\ gpc' = [gpc EXCEPT ![q] = "answered"]
             \/ gpc' = [gpc EXCEPT ![q] = "acquire"] /\ UNCHANGED answer
    BY <1>1 DEF Lookup
  <2> QED BY <1>1, <2>1 DEF Lookup, dbVars, tables, DatabaseTypeOK
<1>2. CASE Acquire(q)
  BY <1>2, Constants DEF Acquire, dbVars, tables, DatabaseTypeOK
<1>3. CASE GiveUp(q)
  BY <1>3 DEF GiveUp, dbVars, tables, DatabaseTypeOK
<1>4. CASE FetchFails(q)
  BY <1>4, TokenHeld DEF FetchFails, dbVars, tables, DatabaseTypeOK
<1>5. CASE FetchSucceeds(q)
  <2>1. [located |-> TRUE, lastUpdate |-> now] \in Row
    BY DEF DatabaseTypeOK, Row
  <2>2. sem' \in 0..MaxFetches
    BY <1>5, TokenHeld DEF FetchSucceeds
  <2> QED BY <1>5, <2>1, <2>2 DEF FetchSucceeds, dbVars, tables, DatabaseTypeOK
<1>6. CASE SaveFetched(q)
  <2>1. ipInfo' \in [IPs -> Row \cup {NoRow}]
    BY <1>6 DEF SaveFetched, SaveIPInfo, DatabaseTypeOK
  <2> QED BY <1>6, <2>1 DEF SaveFetched, DatabaseTypeOK
<1>7. CASE Expire(q)
  BY <1>7 DEF Expire, dbVars, tables, DatabaseTypeOK
<1> QED BY <1>1, <1>2, <1>3, <1>4, <1>5, <1>6, <1>7 DEF GeoStep, LookupStep, FetchStep

\* What a worker does with its request ends its round or moves it on.
LEMMA ReturnType ==
  ASSUME TypeOK, NEW w \in Workers, NEW q \in Requests
  PROVE  /\ \A result \in {"recorded", "skipped", "failed"} : Return(w, q, result) =>
              /\ fate' \in [Requests -> Fate] /\ job' \in [Workers -> SUBSET Requests]
              /\ ppc' \in [Workers -> WorkerPC]
         /\ \A pc \in {"ensure", "minimal", "save"} : Goto(w, pc) =>
              /\ fate' \in [Requests -> Fate] /\ job' \in [Workers -> SUBSET Requests]
              /\ ppc' \in [Workers -> WorkerPC]
BY DEF TypeOK, PersistTypeOK, Return, Goto, Fate, WorkerPC

LEMMA StoreTypeStep ==
  ASSUME TypeOK, NEW w \in Workers, storeRequestAsync(w)
  PROVE  DatabaseTypeOK' /\ PersistTypeOK'
<1> USE DEF TypeOK, IPInfoTypeOK
<1>0. job[w] \subseteq Requests
  BY DEF PersistTypeOK
<1>1. CASE CheckDuplicate(w)
  <2>1. PICK q \in job[w], result \in {"duplicate", "new", "error"} :
          CASE result = "error"     -> Return(w, q, "failed")
            [] result = "duplicate" -> Return(w, q, "skipped")
            [] result = "new"       -> Goto(w, "ensure")
    BY <1>1 DEF CheckDuplicate
  <2>2. Return(w, q, "failed") \/ Return(w, q, "skipped") \/ Goto(w, "ensure")
    BY <2>1, Zenon
  <2> QED BY <1>0, <1>1, <2>2, ReturnType DEF CheckDuplicate, dbVars, tables, DatabaseTypeOK, PersistTypeOK
<1>2. CASE EnsureIPInfo(w)
  <2>1. Goto(w, "minimal") \/ Goto(w, "save")
    BY <1>2 DEF EnsureIPInfo
  <2> QED BY <1>0, <1>2, <2>1, ReturnType DEF EnsureIPInfo, dbVars, tables, DatabaseTypeOK, PersistTypeOK
<1>3. CASE SaveMinimalIPInfo(w)
  <2>1. PICK q \in job[w], ok \in BOOLEAN :
          /\ SaveIPInfo(ip[q], [located |-> FALSE, lastUpdate |-> now], ok)
          /\ IF ok THEN Goto(w, "save") ELSE Return(w, q, "failed")
    BY <1>3 DEF SaveMinimalIPInfo
  <2>2. ipInfo' \in [IPs -> Row \cup {NoRow}]
    <3>1. [located |-> FALSE, lastUpdate |-> now] \in Row
      BY DEF Row, DatabaseTypeOK
    <3> QED BY <1>0, <2>1, <3>1, SaveIPInfoType, Constants
  <2>3. Goto(w, "save") \/ Return(w, q, "failed")
    BY <2>1
  <2> QED BY <1>0, <1>3, <2>2, <2>3, ReturnType DEF SaveMinimalIPInfo, DatabaseTypeOK, PersistTypeOK
<1>4. CASE SaveRequest(w)
  <2>1. PICK q \in job[w], ok \in BOOLEAN :
          SaveHTTPRequest(q, stamp[q], ok) /\ Return(w, q, IF ok THEN "recorded" ELSE "failed")
    BY <1>4 DEF SaveRequest
  <2>2. httpRequests' \in Seq([req : Requests, at : Time])
    <3>1. [req |-> q, at |-> stamp[q]] \in [req : Requests, at : Time]
      BY <1>0 DEF PersistTypeOK
    <3>2. Append(httpRequests, [req |-> q, at |-> stamp[q]]) \in Seq([req : Requests, at : Time])
      BY <3>1, AppendFacts DEF DatabaseTypeOK
    <3> QED BY <2>1, <3>2 DEF SaveHTTPRequest, DatabaseTypeOK
  <2>3. Return(w, q, "recorded") \/ Return(w, q, "failed")
    BY <2>1
  <2> QED BY <1>0, <1>4, <2>2, <2>3, ReturnType DEF SaveRequest, DatabaseTypeOK, PersistTypeOK
<1> QED BY <1>1, <1>2, <1>3, <1>4 DEF storeRequestAsync

LEMMA TypeInit == Init => TypeOK
<1> SUFFICES ASSUME Init PROVE TypeOK
  OBVIOUS
<1>1. DatabaseTypeOK
  <2>1. httpRequests \in Seq([req : Requests, at : Time])
    BY DEF Init, IPInfoInit, DatabaseInit
  <2> QED BY <2>1, Constants DEF Init, IPInfoInit, DatabaseInit, DatabaseTypeOK, Time
<1>2. IPInfoTypeOK
  BY <1>1, Constants DEF Init, IPInfoInit, IPInfoTypeOK, LookupPC
<1>3. PersistTypeOK /\ Len(storeCh) <= QueueSize
  <2>1. storeCh \in Seq(Requests) /\ Len(storeCh) = 0
    BY DEF Init, PersistInit
  <2>2. stamp \in [Requests -> Time] /\ ppc \in [Workers -> WorkerPC] /\ fate \in [Requests -> Fate]
    BY Constants DEF Init, PersistInit, WorkerPC, Fate, Time
  <2>3. job \in [Workers -> SUBSET Requests]
    BY DEF Init, PersistInit
  <2> QED BY <2>1, <2>2, <2>3, Constants DEF PersistTypeOK
<1> QED BY <1>2, <1>3 DEF Init, TypeOK, HandlerPC

LEMMA TypeStep ==
  ASSUME TypeOK, SemInv, [Next]_vars
  PROVE  TypeOK'
<1> USE DEF TypeOK
<1>1. ASSUME NEW q \in Requests, Arrive(q) PROVE TypeOK'
  <2>1. hpc' \in [Requests -> HandlerPC]
    BY <1>1 DEF Arrive, HandlerPC
  <2>2. IPInfoTypeOK'
    BY <1>1 DEF Arrive, CallLookup, IPInfoTypeOK, geoVars, dbVars, tables, DatabaseTypeOK, LookupPC
  <2> QED BY <1>1, <2>1, <2>2 DEF Arrive, persistVars, PersistTypeOK
<1>2. ASSUME NEW q \in Requests, Located(q) PROVE TypeOK'
  BY <1>2 DEF Located, HandlerPC, persistVars, PersistTypeOK, ipInfoVars, geoVars, dbVars, tables,
              IPInfoTypeOK, DatabaseTypeOK
<1>3. ASSUME NEW q \in Requests, buildHTTPRequest(q) PROVE TypeOK'
  BY <1>3 DEF buildHTTPRequest, HandlerPC, PersistTypeOK, ipInfoVars, geoVars, dbVars, tables,
              IPInfoTypeOK, DatabaseTypeOK
<1>4. ASSUME NEW q \in Requests, QueueStore(q) PROVE TypeOK'
  <2>1. storeCh' \in Seq(Requests) /\ Len(storeCh') <= QueueSize
    <3>1. storeCh \in Seq(Requests) /\ Len(storeCh) \in Nat
      BY DEF PersistTypeOK
    <3>2. Append(storeCh, q) \in Seq(Requests) /\ Len(Append(storeCh, q)) = Len(storeCh) + 1
      BY <3>1, AppendFacts
    <3>3. storeCh' = storeCh \/ (Len(storeCh) < QueueSize /\ storeCh' = Append(storeCh, q))
      BY <1>4 DEF QueueStore
    <3> QED BY <3>1, <3>2, <3>3, Constants
  <2>2. fate' \in [Requests -> Fate]
    BY <1>4 DEF QueueStore, PersistTypeOK, Fate
  <2> QED BY <1>4, <2>1, <2>2 DEF QueueStore, HandlerPC, PersistTypeOK, ipInfoVars, geoVars, dbVars,
             tables, IPInfoTypeOK, DatabaseTypeOK
<1>5. ASSUME NEW q \in Requests, GeoStep(q), UNCHANGED <<persistVars, hpc>> PROVE TypeOK'
  BY <1>5, GeoTypeStep DEF persistVars, PersistTypeOK
<1>6. ASSUME NEW w \in Workers, Take(w), UNCHANGED <<geoVars, hpc>> PROVE TypeOK'
  <2>1. /\ Head(storeCh) \in Requests /\ Tail(storeCh) \in Seq(Requests)
        /\ Len(Tail(storeCh)) <= QueueSize
    BY <1>6, TailFacts, Constants DEF Take, PersistTypeOK
  <2>2. PersistTypeOK'
    BY <1>6, <2>1 DEF Take, PersistTypeOK, WorkerPC, Fate
  <2> QED BY <1>6, <2>1, <2>2 DEF Take, geoVars, dbVars, tables, IPInfoTypeOK, DatabaseTypeOK
<1>7. ASSUME NEW w \in Workers, storeRequestAsync(w), UNCHANGED <<geoVars, hpc>> PROVE TypeOK'
  <2>1. DatabaseTypeOK' /\ PersistTypeOK'
    BY <1>7, StoreTypeStep
  <2>2. storeCh' = storeCh
    BY <1>7 DEF storeRequestAsync, CheckDuplicate, EnsureIPInfo, SaveMinimalIPInfo, SaveRequest
  <2> QED BY <1>7, <2>1, <2>2 DEF geoVars, IPInfoTypeOK
<1>8. CASE Tick /\ UNCHANGED <<geoVars, persistVars, hpc>>
  BY <1>8, Constants DEF Tick, geoVars, persistVars, tables, IPInfoTypeOK, DatabaseTypeOK, Time, PersistTypeOK
<1>9. CASE UNCHANGED vars
  BY <1>9 DEF vars, ipInfoVars, geoVars, dbVars, tables, persistVars, IPInfoTypeOK, DatabaseTypeOK,
              PersistTypeOK
<1> QED BY <1>1, <1>2, <1>3, <1>4, <1>5, <1>6, <1>7, <1>8, <1>9 DEF Next, Handler, Worker, Finished
-------------------------------------------------------------------------------
(* Geolocation.                                                            *)

LEMMA Numbers ==
  ASSUME TypeOK
  PROVE  /\ now \in Nat /\ now \in Time
         /\ \A i \in IPs : ipInfo[i] # NoRow => ipInfo[i] \in Row /\ ipInfo[i].lastUpdate \in Nat
         /\ \A q \in Requests : cached[q] # NoRow => cached[q].lastUpdate \in Nat
         /\ \A q \in Requests : answer[q] # NoRow => answer[q] \in Row /\ answer[q].lastUpdate \in Nat
         /\ \A q \in Requests : stamp[q] \in Nat
BY Constants DEF TypeOK, IPInfoTypeOK, DatabaseTypeOK, PersistTypeOK, Row, Time

\* Only two steps write ip_info, and they replace a row by one of the present or
\* the recent past. The clock only moves forward.
LEMMA RowStep ==
  ASSUME TypeOK, GeoInv, [Next]_vars
  PROVE  /\ now' \in Nat /\ now' >= now
         /\ \A i \in IPs : ipInfo[i] # NoRow => ipInfo'[i] # NoRow
         /\ \A i \in IPs : ipInfo'[i] # NoRow => ipInfo'[i].lastUpdate <= now'
         /\ dbType' = dbType /\ dbFaults' = dbFaults
<1> DEFINE Claim ==
      /\ now' \in Nat /\ now' >= now
      /\ \A i \in IPs : ipInfo[i] # NoRow => ipInfo'[i] # NoRow
      /\ \A i \in IPs : ipInfo'[i] # NoRow => ipInfo'[i].lastUpdate <= now'
      /\ dbType' = dbType /\ dbFaults' = dbFaults
<1>1. ASSUME ipInfo' = ipInfo, now' = now, dbType' = dbType, dbFaults' = dbFaults PROVE Claim
  BY <1>1, Numbers DEF GeoInv
<1>2. ASSUME NEW i \in IPs, NEW row \in Row, row.lastUpdate <= now, NEW ok \in BOOLEAN,
             SaveIPInfo(i, row, ok), now' = now, dbType' = dbType, dbFaults' = dbFaults
      PROVE  Claim
  BY <1>2, SaveIPInfoType, Constants, Numbers DEF GeoInv
<1>3. ASSUME NEW q \in Requests, SaveFetched(q) PROVE Claim
  <2>1. PICK ok \in BOOLEAN : SaveIPInfo(ip[q], answer[q], ok)
    BY <1>3 DEF SaveFetched
  <2>2. answer[q] \in Row /\ answer[q].lastUpdate <= now
    BY <1>3, Numbers DEF SaveFetched, GeoInv
  <2>3. now' = now /\ dbType' = dbType /\ dbFaults' = dbFaults /\ ip[q] \in IPs
    BY <1>3, Constants DEF SaveFetched
  <2> QED BY <1>2, <2>1, <2>2, <2>3
<1>4. ASSUME NEW w \in Workers, SaveMinimalIPInfo(w) PROVE Claim
  <2>1. PICK q \in job[w], ok \in BOOLEAN :
          SaveIPInfo(ip[q], [located |-> FALSE, lastUpdate |-> now], ok)
    BY <1>4 DEF SaveMinimalIPInfo
  <2>2. [located |-> FALSE, lastUpdate |-> now] \in Row
    BY Numbers DEF Row
  <2>3. now' = now /\ dbType' = dbType /\ dbFaults' = dbFaults /\ ip[q] \in IPs
    BY <1>4, Constants DEF SaveMinimalIPInfo, TypeOK, PersistTypeOK
  <2> QED BY <1>2, <2>1, <2>2, <2>3, Numbers
<1>5. CASE Tick
  BY <1>5, Numbers DEF Tick, tables, GeoInv
<1>6. ASSUME NEW q \in Requests, Arrive(q) \/ Handler(q) PROVE Claim
  BY <1>1, <1>6 DEF Arrive, Handler, Located, buildHTTPRequest, QueueStore, ipInfoVars, dbVars, tables
<1>7. ASSUME NEW q \in Requests, GeoStep(q) PROVE Claim
  BY <1>1, <1>3, <1>7 DEF GeoStep, LookupStep, FetchStep, Lookup, Acquire, GiveUp, FetchFails,
     FetchSucceeds, Expire, dbVars, tables
<1>8. ASSUME NEW w \in Workers, Take(w) \/ storeRequestAsync(w) PROVE Claim
  <2>1. CASE Take(w) \/ CheckDuplicate(w) \/ EnsureIPInfo(w)
    BY <1>1, <2>1 DEF Take, CheckDuplicate, EnsureIPInfo, dbVars, tables
  <2>2. CASE SaveRequest(w)
    BY <1>1, <2>2 DEF SaveRequest
  <2> QED BY <1>4, <1>8, <2>1, <2>2 DEF storeRequestAsync
<1>9. CASE UNCHANGED vars
  BY <1>1, <1>9 DEF vars, ipInfoVars, dbVars, tables
<1> QED BY <1>5, <1>6, <1>7, <1>8, <1>9 DEF Next, Worker, Finished

LEMMA GeoStepInv ==
  ASSUME TypeOK, GeoInv, [Next]_vars
  PROVE  GeoInv'
<1> USE Numbers, RowStep, Constants
<1> DEFINE Good(q) ==
      /\ cached[q] # NoRow => cached[q].lastUpdate <= now
      /\ gpc[q] = "saving" =>
           /\ answer[q] # NoRow /\ answer[q].lastUpdate <= now
           /\ cached[q] # NoRow => answer[q].lastUpdate >= cached[q].lastUpdate
      /\ gpc[q] = "answered" /\ cached[q] # NoRow =>
           answer[q] # NoRow /\ answer[q].lastUpdate >= cached[q].lastUpdate
<1>0. \A q \in Requests : Good(q)
  BY DEF GeoInv, NeverWorseThanCached
<1> SUFFICES ASSUME NEW x \in Requests PROVE Good(x)'
  BY DEF GeoInv, NeverWorseThanCached
<1>1. ASSUME \/ gpc'[x] = gpc[x]
             \/ gpc'[x] \notin {"saving", "answered"},
             cached'[x] = cached[x], answer'[x] = answer[x]
      PROVE  Good(x)'
  BY <1>0, <1>1
<1>2. ASSUME NEW q \in Requests, GeoStep(q) PROVE Good(x)'
  <2>1. CASE x # q
    BY <1>0, <1>1, <1>2, <2>1 DEF GeoStep, LookupStep, FetchStep, Lookup, Acquire, GiveUp, SaveFetched,
       FetchFails, FetchSucceeds, Expire, TypeOK, IPInfoTypeOK
  <2>2. CASE x = q
    <3>1. CASE Lookup(q)
      <4>1. PICK row \in Row \cup {NoRow} :
              /\ GetIPInfo(ip[q], row)
              /\ cached' = [cached EXCEPT ![q] = row]
              /\ \/ answer' = [answer EXCEPT ![q] = row] /\ gpc' = [gpc EXCEPT ![q] = "answered"]
                 \/ gpc' = [gpc EXCEPT ![q] = "acquire"] /\ UNCHANGED answer
        BY <3>1 DEF Lookup
      <4>2. row # NoRow => row.lastUpdate <= now /\ row.lastUpdate \in Nat
        BY <4>1, GetIPInfoType DEF GeoInv
      <4>3. cached'[q] = row /\ ((gpc'[q] = "answered" /\ answer'[q] = row) \/ gpc'[q] = "acquire") /\ now' = now
        BY <3>1, <4>1 DEF Lookup, dbVars, TypeOK, IPInfoTypeOK
      <4> QED BY <2>2, <4>2, <4>3
    <3>2. CASE Acquire(q) \/ Expire(q)
      BY <1>0, <1>1, <2>2, <3>2 DEF Acquire, Expire, TypeOK, IPInfoTypeOK
    <3>3. CASE GiveUp(q) \/ FetchFails(q)
      BY <1>0, <2>2, <3>3 DEF GiveUp, FetchFails, TypeOK, IPInfoTypeOK
    <3>4. CASE FetchSucceeds(q)
      <4>1. /\ cached' = cached /\ gpc'[q] = "saving" /\ now' = now
            /\ answer'[q] = [located |-> TRUE, lastUpdate |-> now]
        BY <3>4 DEF FetchSucceeds, dbVars, TypeOK, IPInfoTypeOK
      <4>2. answer'[q] \in Row /\ answer'[q].lastUpdate = now
        BY <4>1 DEF Row
      <4>3. answer'[q] # NoRow /\ (cached[q] # NoRow => cached[q].lastUpdate <= now)
        BY <1>0, <4>2
      <4> QED BY <2>2, <4>1, <4>2, <4>3
    <3>5. CASE SaveFetched(q)
      BY <1>0, <2>2, <3>5 DEF SaveFetched, TypeOK, IPInfoTypeOK
    <3> QED BY <1>2, <3>1, <3>2, <3>3, <3>4, <3>5 DEF GeoStep, LookupStep, FetchStep
  <2> QED BY <2>1, <2>2
<1>3. ASSUME NEW q \in Requests, Arrive(q) PROVE Good(x)'
  BY <1>1, <1>3 DEF Arrive, CallLookup, geoVars, TypeOK, IPInfoTypeOK
<1>4. CASE UNCHANGED geoVars
  BY <1>1, <1>4 DEF geoVars
<1>5. ASSUME NEW q \in Requests, Handler(q) PROVE UNCHANGED geoVars
  BY <1>5 DEF Handler, Located, buildHTTPRequest, QueueStore, ipInfoVars
<1> QED BY <1>2, <1>3, <1>4, <1>5 DEF Next, Worker, Finished, vars, ipInfoVars

\* Acquire puts the handler among those that fetch and a token in the channel;
\* both ends of the fetch take them out.
LEMMA SemStep ==
  ASSUME TypeOK, SemInv, [Next]_vars
  PROVE  SemInv'
<1>0. IsFiniteSet(Fetching) /\ sem = Cardinality(Fetching) /\ Cardinality(Fetching) \in Nat
  BY FS_CardinalityType DEF SemInv, SemaphoreExact, Fetching
<1>1. ASSUME Fetching' = Fetching, sem' = sem PROVE SemInv'
  BY <1>0, <1>1 DEF SemInv, SemaphoreExact, Fetching
<1>2. ASSUME NEW q \in Requests, Acquire(q) PROVE SemInv'
  <2>1. Fetching' = Fetching \cup {q} /\ q \notin Fetching /\ sem' = sem + 1
    BY <1>2 DEF Acquire, Fetching, TypeOK, IPInfoTypeOK
  <2>2. IsFiniteSet(Fetching') /\ sem' = Cardinality(Fetching')
    BY <1>0, <2>1, FS_AddElement
  <2> QED BY <2>2 DEF SemInv, SemaphoreExact, Fetching
<1>3. ASSUME NEW q \in Requests, FetchStep(q) PROVE SemInv'
  <2>1. Fetching' = Fetching \ {q} /\ q \in Fetching /\ sem' = sem - 1
    BY <1>3 DEF FetchStep, FetchFails, FetchSucceeds, Fetching, TypeOK, IPInfoTypeOK
  <2>2. IsFiniteSet(Fetching') /\ sem' = Cardinality(Fetching')
    BY <1>0, <2>1, FS_RemoveElement
  <2> QED BY <2>2 DEF SemInv, SemaphoreExact, Fetching
<1>4. ASSUME NEW q \in Requests, Lookup(q) \/ GiveUp(q) \/ SaveFetched(q) \/ Expire(q)
      PROVE  SemInv'
  <2>1. \A x \in Requests : gpc'[x] = "fetching" <=> gpc[x] = "fetching"
    <3>1. CASE Lookup(q)
      BY <3>1 DEF Lookup, TypeOK, IPInfoTypeOK
    <3>2. CASE GiveUp(q) \/ SaveFetched(q) \/ Expire(q)
      BY <3>2 DEF GiveUp, SaveFetched, Expire, TypeOK, IPInfoTypeOK
    <3> QED BY <1>4, <3>1, <3>2
  <2>2. Fetching' = Fetching /\ sem' = sem
    BY <1>4, <2>1 DEF Lookup, GiveUp, SaveFetched, Expire, Fetching
  <2> QED BY <1>1, <2>2
<1>5. ASSUME NEW q \in Requests, Arrive(q) PROVE SemInv'
  <2>1. Fetching' = Fetching /\ sem' = sem
    BY <1>5 DEF Arrive, CallLookup, geoVars, Fetching, TypeOK, IPInfoTypeOK
  <2> QED BY <1>1, <2>1
<1>6. CASE UNCHANGED geoVars
  BY <1>1, <1>6 DEF geoVars, Fetching
<1>7. ASSUME NEW q \in Requests, Handler(q) PROVE UNCHANGED geoVars
  BY <1>7 DEF Handler, Located, buildHTTPRequest, QueueStore, ipInfoVars
<1> QED BY <1>2, <1>3, <1>4, <1>5, <1>6, <1>7
        DEF Next, GeoStep, LookupStep, FetchStep, Worker, Finished, vars, ipInfoVars
-------------------------------------------------------------------------------
(* The queue and the workers.                                              *)

\* A worker's call of storeRequestAsync ends with its request settled, or goes on.
LEMMA WorkerEffect ==
  ASSUME TypeOK, PlaceInv, NEW w \in Workers, storeRequestAsync(w)
  PROVE  \E q \in job[w] :
           /\ storeCh' = storeCh /\ stamp' = stamp /\ now' = now
           /\ \/ \E result \in {"recorded", "skipped", "failed"} : Return(w, q, result)
              \/ \E pc \in {"ensure", "minimal", "save"} : Goto(w, pc)
<1>1. CASE CheckDuplicate(w)
  <2>1. PICK q \in job[w], result \in {"duplicate", "new", "error"} :
          CASE result = "error"     -> Return(w, q, "failed")
            [] result = "duplicate" -> Return(w, q, "skipped")
            [] result = "new"       -> Goto(w, "ensure")
    BY <1>1 DEF CheckDuplicate
  <2>2. Return(w, q, "failed") \/ Return(w, q, "skipped") \/ Goto(w, "ensure")
    BY <2>1, Zenon
  <2> QED BY <1>1, <2>2 DEF CheckDuplicate, dbVars
<1>2. CASE EnsureIPInfo(w)
  <2>1. PICK q \in job[w] : Goto(w, "minimal") \/ Goto(w, "save")
    BY <1>2 DEF EnsureIPInfo
  <2> QED BY <1>2, <2>1 DEF EnsureIPInfo, dbVars
<1>3. CASE SaveMinimalIPInfo(w)
  <2>1. PICK q \in job[w] : Goto(w, "save") \/ Return(w, q, "failed")
    BY <1>3 DEF SaveMinimalIPInfo
  <2> QED BY <1>3, <2>1 DEF SaveMinimalIPInfo
<1>4. CASE SaveRequest(w)
  <2>1. PICK q \in job[w] : Return(w, q, "recorded") \/ Return(w, q, "failed")
    BY <1>4 DEF SaveRequest
  <2> QED BY <1>4, <2>1 DEF SaveRequest
<1> QED BY <1>1, <1>2, <1>3, <1>4 DEF storeRequestAsync

LEMMA PlaceStep ==
  ASSUME TypeOK, GeoInv, PlaceInv, [Next]_vars
  PROVE  PlaceInv'
<1>0. \A i \in DOMAIN storeCh : storeCh[i] \in Requests
  BY DEF TypeOK, PersistTypeOK
<1>10. dbDefined' = dbDefined
  BY RowStep DEF dbDefined
<1>1. ASSUME NEW q \in Requests, hpc[q] # "done", UNCHANGED <<storeCh, ppc, job, fate>>,
             hpc' \in [Requests -> HandlerPC],
             \A x \in Requests : x # q => hpc'[x] = hpc[x]
      PROVE  PlaceInv'
  BY <1>10, <1>1 DEF PlaceInv
<1>2. ASSUME NEW q \in Requests, Arrive(q) \/ Located(q) \/ buildHTTPRequest(q) PROVE PlaceInv'
  <2>1. hpc[q] # "done" /\ \A x \in Requests : x # q => hpc'[x] = hpc[x]
    BY <1>2 DEF Arrive, Located, buildHTTPRequest, TypeOK
  <2>2. UNCHANGED <<storeCh, ppc, job, fate>> /\ hpc' \in [Requests -> HandlerPC]
    BY <1>2 DEF Arrive, Located, buildHTTPRequest, persistVars, TypeOK, HandlerPC
  <2> QED BY <1>1, <2>1, <2>2
<1>3. ASSUME NEW q \in Requests, QueueStore(q) PROVE PlaceInv'
  <2>1. /\ fate[q] = "new" /\ ppc' = ppc /\ job' = job
        /\ hpc' = [hpc EXCEPT ![q] = "done"]
    BY <1>3 DEF QueueStore, PlaceInv
  <2>2. \A x \in Requests : hpc'[x] = IF x = q THEN "done" ELSE hpc[x]
    BY <2>1 DEF TypeOK
  <2>3. \A i \in DOMAIN storeCh : storeCh[i] # q
    BY <2>1 DEF PlaceInv
  <2>4. \A w \in Workers : q \notin job[w]
    BY <2>1 DEF PlaceInv
  <2>5. CASE dbDefined /\ Len(storeCh) < QueueSize
    <3>1. storeCh' = Append(storeCh, q) /\ fate' = [fate EXCEPT ![q] = "queued"]
      BY <1>3, <2>5 DEF QueueStore
    <3>2. \A x \in Requests : fate'[x] = IF x = q THEN "queued" ELSE fate[x]
      BY <3>1 DEF TypeOK, PersistTypeOK
    <3>3. /\ DOMAIN storeCh' = 1..(Len(storeCh) + 1) /\ DOMAIN storeCh = 1..Len(storeCh)
          /\ Len(storeCh) \in Nat /\ storeCh'[Len(storeCh) + 1] = q
          /\ \A i \in 1..Len(storeCh) : storeCh'[i] = storeCh[i]
      BY <3>1, AppendFacts DEF TypeOK, PersistTypeOK
    <3>4. \A i \in DOMAIN storeCh' : i \in DOMAIN storeCh \/ i = Len(storeCh) + 1
      BY <3>3
    <3>5. \A i \in DOMAIN storeCh' : fate'[storeCh'[i]] = "queued"
      BY <1>0, <2>3, <3>2, <3>3, <3>4 DEF PlaceInv
    <3>6. \A i, j \in DOMAIN storeCh' : storeCh'[i] = storeCh'[j] => i = j
      BY <1>0, <2>3, <3>3, <3>4 DEF PlaceInv
    <3>7. \A x \in Requests : /\ hpc'[x] # "done" => fate'[x] = "new"
                              /\ fate'[x] # "new" => dbDefined' \/ fate'[x] = "turnedAway"
      BY <1>10, <2>2, <2>5, <3>2 DEF PlaceInv
    <3>8. \A w \in Workers, x \in Requests : x \in job'[w] => fate'[x] = fate[x]
      BY <2>1, <2>4, <3>2
    <3> QED BY <2>1, <3>5, <3>6, <3>7, <3>8 DEF PlaceInv
  <2>6. CASE ~(dbDefined /\ Len(storeCh) < QueueSize)
    <3>1. storeCh' = storeCh /\ fate' = [fate EXCEPT ![q] = "turnedAway"]
      BY <1>3, <2>6 DEF QueueStore
    <3>2. \A x \in Requests : fate'[x] = IF x = q THEN "turnedAway" ELSE fate[x]
      BY <3>1 DEF TypeOK, PersistTypeOK
    <3> QED BY <1>0, <1>10, <2>1, <2>2, <2>3, <2>4, <3>1, <3>2 DEF PlaceInv
  <2> QED BY <2>5, <2>6
<1>4. ASSUME NEW w \in Workers, dbDefined, Take(w), hpc' = hpc PROVE PlaceInv'
  <2> DEFINE q == Head(storeCh)
  <2>1. /\ q \in Requests /\ q = storeCh[1] /\ 1 \in DOMAIN storeCh /\ Len(storeCh) \in Nat
        /\ DOMAIN storeCh = 1..Len(storeCh)
        /\ DOMAIN storeCh' = 1..(Len(storeCh) - 1)
        /\ \A i \in 1..(Len(storeCh) - 1) : storeCh'[i] = storeCh[i + 1]
    BY <1>4, TailFacts DEF Take, TypeOK, PersistTypeOK
  <2>2. /\ job' = [job EXCEPT ![w] = {q}] /\ ppc[w] = "idle"
        /\ fate' = [fate EXCEPT ![q] = "storing"]
        /\ ppc' = [ppc EXCEPT ![w] = "check"]
    BY <1>4 DEF Take
  <2>3. fate[q] = "queued" /\ job[w] = {}
    BY <2>1, <2>2 DEF PlaceInv
  <2>4. \A x \in Requests : fate'[x] = IF x = q THEN "storing" ELSE fate[x]
    BY <2>1, <2>2 DEF TypeOK, PersistTypeOK
  <2>5. \A v \in Workers : /\ job'[v] = IF v = w THEN {q} ELSE job[v]
                           /\ ppc'[v] = IF v = w THEN "check" ELSE ppc[v]
    BY <2>2 DEF TypeOK, PersistTypeOK
  <2> HIDE DEF q
  <2>6. \A i \in DOMAIN storeCh' :
          i \in DOMAIN storeCh /\ i + 1 \in DOMAIN storeCh /\ i + 1 # 1 /\ storeCh'[i] = storeCh[i + 1]
    BY <2>1
  <2>7. \A i \in DOMAIN storeCh' : storeCh'[i] # q /\ storeCh'[i] \in Requests
    BY <1>0, <2>1, <2>6 DEF PlaceInv
  <2>8. \A i \in DOMAIN storeCh' : fate'[storeCh'[i]] = "queued"
    BY <2>4, <2>6, <2>7 DEF PlaceInv
  <2>9. \A i, j \in DOMAIN storeCh' : storeCh'[i] = storeCh'[j] => i = j
    <3>1. \A i, j \in DOMAIN storeCh' : storeCh'[i] = storeCh'[j] => i + 1 = j + 1
      BY <2>6 DEF PlaceInv
    <3> QED BY <2>1, <3>1
  <2>10. \A v \in Workers : q \in job[v] => FALSE
    BY <2>1, <2>3 DEF PlaceInv
  <2>11. \A x \in Requests : /\ hpc'[x] # "done" => fate'[x] = "new"
                             /\ fate'[x] # "new" => dbDefined' \/ fate'[x] = "turnedAway"
    BY <1>10, <1>4, <2>3, <2>4 DEF PlaceInv
  <2>12. \A v \in Workers, x \in Requests : x \in job'[v] =>
           job'[v] = {x} /\ fate'[x] = "storing"
    BY <2>3, <2>4, <2>5, <2>10 DEF PlaceInv
  <2>13. \A u, v \in Workers, x \in Requests : x \in job'[u] /\ x \in job'[v] => u = v
    BY <2>5, <2>10 DEF PlaceInv
  <2>14. \A v \in Workers : ppc'[v] = "idle" => job'[v] = {}
    BY <2>5 DEF PlaceInv
  <2> QED BY <2>8, <2>9, <2>11, <2>12, <2>13, <2>14 DEF PlaceInv
<1>5. ASSUME NEW w \in Workers, dbDefined, storeRequestAsync(w), hpc' = hpc PROVE PlaceInv'
  <2>1. PICK q \in job[w] :
           /\ storeCh' = storeCh
           /\ \/ \E result \in {"recorded", "skipped", "failed"} : Return(w, q, result)
              \/ \E pc \in {"ensure", "minimal", "save"} : Goto(w, pc)
    BY <1>5, WorkerEffect
  <2>2. q \in Requests /\ fate[q] = "storing" /\ job[w] = {q}
    BY DEF PlaceInv, TypeOK, PersistTypeOK
  <2>3. CASE \E result \in {"recorded", "skipped", "failed"} : Return(w, q, result)
    <3>1. PICK result \in {"recorded", "skipped", "failed"} : Return(w, q, result)
      BY <2>3
    <3>2. \A x \in Requests : fate'[x] = IF x = q THEN result ELSE fate[x]
      BY <2>2, <3>1 DEF Return, TypeOK, PersistTypeOK
    <3>3. \A v \in Workers : /\ job'[v] = IF v = w THEN {} ELSE job[v]
                             /\ ppc'[v] = IF v = w THEN "idle" ELSE ppc[v]
      BY <3>1 DEF Return, TypeOK, PersistTypeOK
    <3>4. \A i \in DOMAIN storeCh : storeCh[i] # q
      BY <2>2 DEF PlaceInv
    <3>5. hpc[q] = "done"
      BY <2>2 DEF PlaceInv
    <3>6. \A v \in Workers : v # w => q \notin job[v]
      BY <2>2 DEF PlaceInv
    <3> QED BY <1>0, <1>10, <1>5, <2>1, <2>2, <3>2, <3>3, <3>4, <3>5, <3>6 DEF PlaceInv
  <2>4. CASE \E pc \in {"ensure", "minimal", "save"} : Goto(w, pc)
    <3>1. PICK pc \in {"ensure", "minimal", "save"} : Goto(w, pc)
      BY <2>4
    <3>2. \A v \in Workers : ppc'[v] = IF v = w THEN pc ELSE ppc[v]
      BY <3>1 DEF Goto, TypeOK, PersistTypeOK
    <3> QED BY <1>10, <1>5, <2>1, <2>2, <3>1, <3>2 DEF Goto, PlaceInv
  <2> QED BY <2>1, <2>3, <2>4
<1>6. CASE UNCHANGED <<persistVars, hpc>>
  BY <1>10, <1>6 DEF persistVars, PlaceInv
<1> QED BY <1>2, <1>3, <1>4, <1>5, <1>6 DEF Next, Handler, Worker, Finished, vars, persistVars
-------------------------------------------------------------------------------
(* The tables.                                                             *)

Settled == {"recorded", "skipped", "failed"}

\* A step that settles no request and inserts no record keeps what the tables
\* and the fates say of each other.
LEMMA TablesKept ==
  ASSUME TypeOK, TableInv, [Next]_vars, GeoInv, httpRequests' = httpRequests,
         \A x \in Requests : stamp'[x] <= now',
         \A x \in Requests : fate[x] \in Settled => stamp'[x] = stamp[x],
         \A x \in Requests : fate'[x] = fate[x] \/ {fate[x], fate'[x]} \cap Settled = {},
         \A w \in Workers, x \in Requests :
           x \in job'[w] /\ ppc'[w] = "save" => ipInfo'[ip[x]] # NoRow
  PROVE  TableInv'
<1>1. Recorded' = Recorded
  BY DEF Recorded
<1>2. RecordedOnce'
  BY <1>1 DEF TableInv, RecordedOnce, Settled
<1>3. ParentRowExists'
  <2>1. \A x \in Recorded : x \in Requests
    BY DEF TableInv, RecordedOnce
  <2> QED BY <1>1, <2>1, RowStep, Constants DEF TableInv, ParentRowExists
<1>4. \A x \in Requests : fate'[x] \in {"failed", "skipped"} => fate'[x] = fate[x] /\ stamp'[x] = stamp[x]
  BY DEF Settled
<1>5. FailureNeedsFault'
  BY <1>4, RowStep DEF TableInv, FailureNeedsFault, Understands, TakesTexts, Texts
<1>6. SkippedHasTwin'
  <2>1. \A x \in Requests : fate'[x] = "skipped" => fate[x] = "skipped" /\ stamp'[x] = stamp[x]
    BY <1>4
  <2> QED BY <2>1 DEF TableInv, SkippedHasTwin
<1> QED BY <1>2, <1>3, <1>5, <1>6 DEF TableInv

\* The new fate of one request, and the others' that stay.
LEMMA ReturnAt ==
  ASSUME TypeOK, NEW w \in Workers, NEW q \in Requests, NEW result, Return(w, q, result)
  PROVE  /\ \A x \in Requests : fate'[x] = IF x = q THEN result ELSE fate[x]
         /\ \A v \in Workers : /\ job'[v] = IF v = w THEN {} ELSE job[v]
                               /\ ppc'[v] = IF v = w THEN "idle" ELSE ppc[v]
BY DEF Return, TypeOK, PersistTypeOK

LEMMA GotoAt ==
  ASSUME TypeOK, NEW w \in Workers, NEW pc, Goto(w, pc)
  PROVE  /\ fate' = fate /\ job' = job
         /\ \A v \in Workers : ppc'[v] = IF v = w THEN pc ELSE ppc[v]
BY DEF Goto, TypeOK, PersistTypeOK

\* The worker gives a request up, and there is a reason for it.
LEMMA TablesFail ==
  ASSUME TypeOK, GeoInv, PlaceInv, TableInv, [Next]_vars, NEW w \in Workers, NEW q \in job[w],
         Return(w, q, "failed"), dbFaults \/ ~Understands \/ ~TakesTexts(q, Texts),
         httpRequests' = httpRequests, stamp' = stamp, now' = now
  PROVE  TableInv'
<1>1. q \in Requests /\ fate[q] = "storing"
  BY DEF PlaceInv, TypeOK, PersistTypeOK
<1>2. \A x \in Requests : fate'[x] = IF x = q THEN "failed" ELSE fate[x]
  BY <1>1, ReturnAt
<1>3. \A v \in Workers : /\ job'[v] = IF v = w THEN {} ELSE job[v]
                         /\ ppc'[v] = IF v = w THEN "idle" ELSE ppc[v]
  BY <1>1, ReturnAt
<1>4. \A v \in Workers, x \in Requests : x \in job'[v] /\ ppc'[v] = "save" => ipInfo'[ip[x]] # NoRow
  BY <1>3, RowStep, Constants DEF TableInv
<1>5. Recorded' = Recorded
  BY DEF Recorded
<1>6. RecordedOnce'
  BY <1>1, <1>2, <1>5 DEF TableInv, RecordedOnce
<1>7. ParentRowExists'
  <2>1. \A x \in Recorded : x \in Requests
    BY DEF TableInv, RecordedOnce
  <2> QED BY <1>5, <2>1, RowStep, Constants DEF TableInv, ParentRowExists
<1>8. FailureNeedsFault'
  BY <1>2, RowStep DEF TableInv, FailureNeedsFault, Understands, TakesTexts, Texts
<1>9. SkippedHasTwin'
  BY <1>2 DEF TableInv, SkippedHasTwin
<1> QED BY <1>4, <1>6, <1>7, <1>8, <1>9 DEF TableInv

LEMMA TableCheck ==
  ASSUME TypeOK, GeoInv, PlaceInv, TableInv, [Next]_vars, NEW w \in Workers, CheckDuplicate(w)
  PROVE  TableInv'
<1>1. PICK q \in job[w], result \in {"duplicate", "new", "error"} :
        /\ IsDuplicateRequest(q, Window, result)
        /\ CASE result = "error"     -> Return(w, q, "failed")
             [] result = "duplicate" -> Return(w, q, "skipped")
             [] result = "new"       -> Goto(w, "ensure")
  BY DEF CheckDuplicate
<1>2. httpRequests' = httpRequests /\ stamp' = stamp /\ now' = now
  BY DEF CheckDuplicate, dbVars, tables
<1>3. q \in Requests /\ fate[q] = "storing"
  BY DEF PlaceInv, TypeOK, PersistTypeOK
<1>4. CASE result = "error"
  <2>1. Return(w, q, "failed")
    BY <1>1, <1>4, Zenon
  <2>2. dbFaults \/ ~Understands \/ ~TakesTexts(q, {"key"})
    BY <1>1, <1>4 DEF IsDuplicateRequest
  <2>3. ~TakesTexts(q, {"key"}) => ~TakesTexts(q, Texts)
    BY DEF TakesTexts, Texts
  <2> QED BY <1>2, <2>1, <2>2, <2>3, TablesFail
<1>5. CASE result = "duplicate"
  <2>1. Return(w, q, "skipped")
    BY <1>1, <1>5, Zenon
  <2>2. Duplicated(q, Window)
    BY <1>1, <1>5 DEF IsDuplicateRequest
  <2>3. PICK i \in DOMAIN httpRequests :
          print[httpRequests[i].req] = print[q] /\ httpRequests[i].at > now - Window
    BY <2>2 DEF Duplicated
  <2>4. \A x \in Requests : fate'[x] = IF x = q THEN "skipped" ELSE fate[x]
    BY <1>3, <2>1, ReturnAt
  <2>5. \A v \in Workers : /\ job'[v] = IF v = w THEN {} ELSE job[v]
                           /\ ppc'[v] = IF v = w THEN "idle" ELSE ppc[v]
    BY <1>3, <2>1, ReturnAt
  <2>6. Recorded' = Recorded /\ q \notin Recorded /\ httpRequests[i].req \in Recorded
    BY <1>2, <1>3 DEF Recorded, TableInv, RecordedOnce
  <2>7. RecordedOnce'
    BY <1>2, <2>4, <2>6 DEF TableInv, RecordedOnce
  <2>8. ParentRowExists'
    <3>1. \A x \in Recorded : x \in Requests
      BY DEF TableInv, RecordedOnce
    <3> QED BY <2>6, <3>1, RowStep, Constants DEF TableInv, ParentRowExists
  <2>9. FailureNeedsFault'
    BY <2>4, RowStep DEF TableInv, FailureNeedsFault, Understands, TakesTexts, Texts
  <2>10. httpRequests[i].at > stamp[q] - Window /\ httpRequests[i].req # q
    <3>1. httpRequests[i].at \in Nat /\ stamp[q] \in Nat /\ now \in Nat /\ stamp[q] <= now
      <4>1. stamp[q] \in Nat /\ now \in Nat /\ stamp[q] <= now
        BY <1>3, Numbers DEF TableInv
      <4>2. httpRequests[i] \in [req : Requests, at : Time]
        BY ElementType DEF TypeOK, IPInfoTypeOK, DatabaseTypeOK
      <4>3. httpRequests[i].at \in Nat
        BY <4>2, Constants DEF Time
      <4> QED BY <4>1, <4>3
    <3> QED BY <2>3, <2>6, <3>1, Constants
  <2>11. SkippedHasTwin'
    BY <1>2, <2>3, <2>4, <2>10 DEF TableInv, SkippedHasTwin
  <2>12. \A v \in Workers, x \in Requests : x \in job'[v] /\ ppc'[v] = "save" => ipInfo'[ip[x]] # NoRow
    BY <2>5, RowStep, Constants DEF TableInv
  <2> QED BY <1>2, <2>7, <2>8, <2>9, <2>11, <2>12 DEF TableInv
<1>6. CASE result = "new"
  <2>1. Goto(w, "ensure")
    BY <1>1, <1>6, Zenon
  <2>2. /\ fate' = fate /\ job' = job
        /\ \A v \in Workers : ppc'[v] = IF v = w THEN "ensure" ELSE ppc[v]
    BY <2>1, GotoAt
  <2>3. \A v \in Workers, x \in Requests : x \in job'[v] /\ ppc'[v] = "save" => ipInfo'[ip[x]] # NoRow
    BY <2>2, RowStep, Constants DEF TableInv
  <2> QED BY <1>2, <2>2, <2>3, TablesKept DEF TableInv
<1> QED BY <1>1, <1>4, <1>5, <1>6

LEMMA TableEnsure ==
  ASSUME TypeOK, GeoInv, PlaceInv, TableInv, [Next]_vars, NEW w \in Workers, EnsureIPInfo(w)
  PROVE  TableInv'
<1>1. PICK q \in job[w], row \in Row \cup {NoRow} :
        GetIPInfo(ip[q], row) /\ Goto(w, IF row = NoRow THEN "minimal" ELSE "save")
  BY DEF EnsureIPInfo
<1>2. /\ httpRequests' = httpRequests /\ stamp' = stamp /\ now' = now /\ ipInfo' = ipInfo
  BY DEF EnsureIPInfo, dbVars, tables
<1>3. q \in Requests /\ job[w] = {q}
  BY DEF PlaceInv, TypeOK, PersistTypeOK
<1>4. row # NoRow => ipInfo[ip[q]] # NoRow
  BY <1>1, <1>3, GetIPInfoType, Constants
<1>5. /\ fate' = fate /\ job' = job
      /\ \A v \in Workers : v # w => ppc'[v] = ppc[v]
      /\ ppc'[w] = "save" => row # NoRow
  BY <1>1, GotoAt
<1>6. \A v \in Workers, x \in Requests : x \in job'[v] /\ ppc'[v] = "save" => ipInfo'[ip[x]] # NoRow
  BY <1>2, <1>3, <1>4, <1>5 DEF TableInv
<1> QED BY <1>2, <1>5, <1>6, TablesKept DEF TableInv

LEMMA TableMinimal ==
  ASSUME TypeOK, GeoInv, PlaceInv, TableInv, [Next]_vars, NEW w \in Workers, SaveMinimalIPInfo(w),
         dbDefined
  PROVE  TableInv'
<1>1. PICK q \in job[w], ok \in BOOLEAN :
        /\ SaveIPInfo(ip[q], [located |-> FALSE, lastUpdate |-> now], ok)
        /\ IF ok THEN Goto(w, "save") ELSE Return(w, q, "failed")
  BY DEF SaveMinimalIPInfo
<1>2. httpRequests' = httpRequests /\ stamp' = stamp /\ now' = now
  BY DEF SaveMinimalIPInfo
<1>3. q \in Requests /\ job[w] = {q}
  BY DEF PlaceInv, TypeOK, PersistTypeOK
<1>4. [located |-> FALSE, lastUpdate |-> now] \in Row
  BY Numbers DEF Row
<1>5. /\ ok => ipInfo'[ip[q]] # NoRow
      /\ ~ok => dbFaults \/ ~Understands
  BY <1>1, <1>3, <1>4, SaveIPInfoType, Constants
<1>6. CASE ok
  <2>1. /\ fate' = fate /\ job' = job
        /\ \A v \in Workers : ppc'[v] = IF v = w THEN "save" ELSE ppc[v]
    BY <1>1, <1>6, GotoAt
  <2>2. \A v \in Workers, x \in Requests : x \in job'[v] /\ ppc'[v] = "save" => ipInfo'[ip[x]] # NoRow
    BY <1>3, <1>5, <1>6, <2>1, RowStep, Constants DEF TableInv
  <2> QED BY <1>2, <2>1, <2>2, TablesKept DEF TableInv
<1>7. CASE ~ok
  BY <1>1, <1>2, <1>5, <1>7, TablesFail
<1> QED BY <1>6, <1>7

LEMMA TableSave ==
  ASSUME TypeOK, GeoInv, PlaceInv, TableInv, [Next]_vars, NEW w \in Workers, SaveRequest(w)
  PROVE  TableInv'
<1>1. PICK q \in job[w], ok \in BOOLEAN :
        SaveHTTPRequest(q, stamp[q], ok) /\ Return(w, q, IF ok THEN "recorded" ELSE "failed")
  BY DEF SaveRequest
<1>2. ipInfo' = ipInfo /\ stamp' = stamp /\ now' = now /\ ppc[w] = "save"
  BY DEF SaveRequest
<1>3. q \in Requests /\ fate[q] = "storing" /\ job[w] = {q} /\ ipInfo[ip[q]] # NoRow
  BY <1>2 DEF PlaceInv, TableInv, TypeOK, PersistTypeOK
<1>4. CASE ~ok
  <2>1. httpRequests' = httpRequests /\ (dbFaults \/ ~TakesTexts(q, Texts))
    BY <1>1, <1>3, <1>4 DEF SaveHTTPRequest
  <2>2. Return(w, q, "failed")
    BY <1>1, <1>4
  <2> QED BY <1>2, <2>1, <2>2, TablesFail
<1>5. CASE ok
  <2> DEFINE new == [req |-> q, at |-> stamp[q]]
  <2>1. httpRequests' = Append(httpRequests, new)
    BY <1>1, <1>5 DEF SaveHTTPRequest
  <2>2. new \in [req : Requests, at : Time] /\ new.req = q
    BY <1>3 DEF TypeOK, PersistTypeOK
  <2>3. httpRequests \in Seq([req : Requests, at : Time])
    BY DEF TypeOK, IPInfoTypeOK, DatabaseTypeOK
  <2> HIDE DEF new
  <2>4. /\ DOMAIN httpRequests' = 1..(Len(httpRequests) + 1) /\ Len(httpRequests) \in Nat
        /\ DOMAIN httpRequests = 1..Len(httpRequests)
        /\ \A i \in 1..Len(httpRequests) : httpRequests'[i] = httpRequests[i]
        /\ httpRequests'[Len(httpRequests) + 1] = new
    BY <2>1, <2>2, <2>3, AppendFacts
  <2>5. \A i \in DOMAIN httpRequests' : i \in DOMAIN httpRequests \/ i = Len(httpRequests) + 1
    BY <2>4
  <2>6. /\ \A i \in DOMAIN httpRequests : i \in DOMAIN httpRequests' /\ httpRequests'[i] = httpRequests[i]
        /\ Len(httpRequests) + 1 \in DOMAIN httpRequests'
    BY <2>4
  <2>7. Recorded' = Recorded \cup {q} /\ q \notin Recorded
    <3>1. q \notin Recorded
      BY <1>3 DEF TableInv, RecordedOnce
    <3>2. \A x : x \in Recorded' <=> x \in Recorded \/ x = q
      BY <2>2, <2>4, <2>5, <2>6 DEF Recorded
    <3> QED BY <3>1, <3>2
  <2>8. \A x \in Requests : fate'[x] = IF x = q THEN "recorded" ELSE fate[x]
    BY <1>1, <1>3, <1>5, ReturnAt
  <2>9. \A v \in Workers : /\ job'[v] = IF v = w THEN {} ELSE job[v]
                           /\ ppc'[v] = IF v = w THEN "idle" ELSE ppc[v]
    BY <1>1, <1>3, <1>5, ReturnAt
  <2>10. RecordedOnce'
    <3>1. \A i \in DOMAIN httpRequests : httpRequests[i].req # q
      BY <2>7 DEF Recorded
    <3>2. \A i, j \in DOMAIN httpRequests' : httpRequests'[i].req = httpRequests'[j].req => i = j
      BY <2>2, <2>4, <2>5, <2>6, <3>1 DEF TableInv, RecordedOnce
    <3>3. Recorded' = {x \in Requests : fate'[x] = "recorded"}
      BY <1>3, <2>7, <2>8 DEF TableInv, RecordedOnce
    <3> QED BY <3>2, <3>3 DEF RecordedOnce
  <2>11. ParentRowExists'
    BY <1>2, <1>3, <2>7 DEF TableInv, ParentRowExists
  <2>12. FailureNeedsFault'
    BY <2>8, RowStep DEF TableInv, FailureNeedsFault, Understands, TakesTexts, Texts
  <2>13. SkippedHasTwin'
    BY <1>2, <2>6, <2>8 DEF TableInv, SkippedHasTwin
  <2>14. \A v \in Workers, x \in Requests : x \in job'[v] /\ ppc'[v] = "save" => ipInfo'[ip[x]] # NoRow
    BY <1>2, <2>9 DEF TableInv
  <2> QED BY <1>2, <2>10, <2>11, <2>12, <2>13, <2>14 DEF TableInv
<1> QED BY <1>4, <1>5

LEMMA TableStep ==
  ASSUME TypeOK, GeoInv, PlaceInv, TableInv, [Next]_vars
  PROVE  TableInv'
<1>1. ASSUME UNCHANGED <<httpRequests, persistVars>> PROVE TableInv'
  <2>1. \A x \in Requests : stamp[x] <= now'
    BY Numbers, RowStep DEF TableInv
  <2>2. \A v \in Workers, x \in Requests : x \in job'[v] /\ ppc'[v] = "save" => ipInfo'[ip[x]] # NoRow
    BY <1>1, RowStep, Constants DEF TableInv, persistVars
  <2> QED BY <1>1, <2>1, <2>2, TablesKept DEF persistVars
<1>2. ASSUME NEW q \in Requests, Arrive(q) \/ Located(q) PROVE TableInv'
  BY <1>1, <1>2 DEF Arrive, Located, dbVars, tables, ipInfoVars
<1>3. ASSUME NEW q \in Requests, buildHTTPRequest(q) PROVE TableInv'
  <2>1. fate[q] = "new" /\ now' = now /\ UNCHANGED <<httpRequests, ipInfo, ppc, job, fate>>
    BY <1>3 DEF buildHTTPRequest, PlaceInv, ipInfoVars, dbVars, tables
  <2>2. \A x \in Requests : stamp'[x] = IF x = q THEN now ELSE stamp[x]
    BY <1>3 DEF buildHTTPRequest, TypeOK, PersistTypeOK
  <2>3. \A x \in Requests : fate[x] \in Settled => stamp'[x] = stamp[x]
    BY <2>1, <2>2 DEF Settled
  <2>4. \A x \in Requests : stamp'[x] <= now'
    BY <2>1, <2>2, Numbers DEF TableInv
  <2>5. \A v \in Workers, x \in Requests : x \in job'[v] /\ ppc'[v] = "save" => ipInfo'[ip[x]] # NoRow
    BY <2>1 DEF TableInv
  <2> QED BY <2>1, <2>3, <2>4, <2>5, TablesKept
<1>4. ASSUME NEW q \in Requests, QueueStore(q) PROVE TableInv'
  <2>1. /\ now' = now /\ UNCHANGED <<httpRequests, ipInfo, ppc, job, stamp>>
        /\ fate[q] = "new"
        /\ \A x \in Requests : fate'[x] = fate[x] \/ (x = q /\ fate'[x] \in {"queued", "turnedAway"})
    BY <1>4 DEF QueueStore, PlaceInv, ipInfoVars, dbVars, tables, TypeOK, PersistTypeOK
  <2>2. \A x \in Requests : fate'[x] = fate[x] \/ {fate[x], fate'[x]} \cap Settled = {}
    BY <2>1 DEF Settled
  <2>3. \A v \in Workers, x \in Requests : x \in job'[v] /\ ppc'[v] = "save" => ipInfo'[ip[x]] # NoRow
    BY <2>1 DEF TableInv
  <2> QED BY <2>1, <2>2, <2>3, TablesKept DEF TableInv
<1>5. ASSUME NEW w \in Workers, Take(w) PROVE TableInv'
  <2>1. Head(storeCh) \in Requests /\ fate[Head(storeCh)] = "queued"
    BY <1>5, TailFacts DEF Take, PlaceInv, TypeOK, PersistTypeOK
  <2>2. /\ now' = now /\ UNCHANGED <<httpRequests, ipInfo, stamp>>
        /\ \A x \in Requests : fate'[x] = IF x = Head(storeCh) THEN "storing" ELSE fate[x]
        /\ \A v \in Workers : v # w => job'[v] = job[v] /\ ppc'[v] = ppc[v]
        /\ ppc'[w] = "check"
    BY <1>5, <2>1 DEF Take, dbVars, tables, TypeOK, PersistTypeOK
  <2>3. \A x \in Requests : fate'[x] = fate[x] \/ {fate[x], fate'[x]} \cap Settled = {}
    BY <2>1, <2>2 DEF Settled
  <2>4. \A v \in Workers, x \in Requests : x \in job'[v] /\ ppc'[v] = "save" => ipInfo'[ip[x]] # NoRow
    BY <2>2 DEF TableInv
  <2> QED BY <2>2, <2>3, <2>4, TablesKept DEF TableInv
<1>6. ASSUME NEW w \in Workers, Worker(w) PROVE TableInv'
  BY <1>5, <1>6, TableCheck, TableEnsure, TableMinimal, TableSave DEF Worker, storeRequestAsync
<1>7. ASSUME NEW q \in Requests, GeoStep(q), UNCHANGED <<persistVars, hpc>> PROVE TableInv'
  <2>1. httpRequests' = httpRequests
    BY <1>7 DEF GeoStep, LookupStep, FetchStep, Lookup, Acquire, GiveUp, SaveFetched, FetchFails,
       FetchSucceeds, Expire, dbVars, tables
  <2> QED BY <1>1, <1>7, <2>1
<1>8. CASE Tick /\ UNCHANGED <<geoVars, persistVars, hpc>>
  BY <1>1, <1>8 DEF Tick, tables
<1>9. CASE UNCHANGED vars
  BY <1>1, <1>9 DEF vars, ipInfoVars, dbVars, tables
<1> QED BY <1>2, <1>3, <1>4, <1>6, <1>7, <1>8, <1>9 DEF Next, Handler, Finished

LEMMA InvInit == Init => IInv
<1> SUFFICES ASSUME Init PROVE IInv
  OBVIOUS
<1>1. TypeOK
  BY TypeInit
<1>2. GeoInv
  BY DEF Init, IPInfoInit, DatabaseInit, GeoInv, NeverWorseThanCached
<1>3. SemInv
  <2>1. Fetching = {} /\ sem = 0
    BY DEF Init, IPInfoInit, Fetching
  <2>2. IsFiniteSet(Fetching) /\ Cardinality(Fetching) = 0
    BY <2>1, FS_EmptySet
  <2> QED BY <2>1, <2>2 DEF SemInv, SemaphoreExact, Fetching
<1>4. PlaceInv
  BY DEF Init, PersistInit, PlaceInv
<1>5. TableInv
  <2>1. httpRequests = <<>> /\ now = 0 /\ stamp = [q \in Requests |-> 0]
        /\ fate = [q \in Requests |-> "new"] /\ ppc = [w \in Workers |-> "idle"]
    BY DEF Init, IPInfoInit, DatabaseInit, PersistInit
  <2>2. DOMAIN httpRequests = {}
    BY <2>1
  <2>3. Recorded = {}
    BY <2>2 DEF Recorded
  <2>4. RecordedOnce /\ ParentRowExists
    BY <2>1, <2>2, <2>3 DEF RecordedOnce, ParentRowExists
  <2>5. FailureNeedsFault /\ SkippedHasTwin
    BY <2>1 DEF FailureNeedsFault, SkippedHasTwin
  <2> QED BY <2>1, <2>4, <2>5 DEF TableInv
<1> QED BY <1>1, <1>2, <1>3, <1>4, <1>5 DEF IInv

LEMMA InvStep == IInv /\ [Next]_vars => IInv'
BY TypeStep, GeoStepInv, SemStep, PlaceStep, TableStep DEF IInv

LEMMA Invariance == Spec => []IInv
BY InvInit, InvStep, PTL DEF Spec
-------------------------------------------------------------------------------
(* The theorems.                                                           *)

\* The variables of Inspector, IPInfo, Persist and Database keep their types.
THEOREM TypeCorrect == Spec => []TypeOK
<1>1. IInv => TypeOK
  BY DEF IInv
<1> QED BY <1>1, Invariance, PTL

\* fetchIPInfo gives back the token it took, on each of its returns.
THEOREM TokensExact == Spec => []SemaphoreExact
<1>1. IInv => SemaphoreExact
  BY DEF IInv, SemInv
<1> QED BY <1>1, Invariance, PTL

\* A handler that found a row answers with it or with a newer one.
THEOREM CachedRowAnswers == Spec => []NeverWorseThanCached
<1>1. IInv => NeverWorseThanCached
  BY DEF IInv, GeoInv
<1> QED BY <1>1, Invariance, PTL

\* However many workers share the queue, a request becomes one row or none.
THEOREM OneRowEach == Spec => []RecordedOnce
<1>1. IInv => RecordedOnce
  BY DEF IInv, TableInv
<1> QED BY <1>1, Invariance, PTL

\* A row of http_requests has its parent, enforced by the backend or not.
THEOREM ParentsExist == Spec => []ParentRowExists
<1>1. IInv => ParentRowExists
  BY DEF IInv, TableInv
<1> QED BY <1>1, Invariance, PTL

\* Workers give up a record for the database's faults or dialect, or its texts.
THEOREM FailuresExcused == Spec => []FailureNeedsFault
<1>1. IInv => FailureNeedsFault
  BY DEF IInv, TableInv
<1> QED BY <1>1, Invariance, PTL

\* A record is skipped only behind a stored one of its fingerprint and window.
THEOREM SkipsRepresented == Spec => []SkippedHasTwin
<1>1. IInv => SkippedHasTwin
  BY DEF IInv, TableInv
<1> QED BY <1>1, Invariance, PTL
\* A configured database persists, unless it is MariaDB: with every other backend
\* a record is given up for the database's faults or its own texts alone.
THEOREM OtherBackendsPersist == Spec => [](dbType # "mariadb" => ConfiguredDatabasePersists)
<1>1. IInv => (dbType # "mariadb" => ConfiguredDatabasePersists)
  <2> SUFFICES ASSUME IInv, dbType # "mariadb", NEW q \in Requests, fate[q] = "failed"
               PROVE  dbFaults \/ spoilt[q] # {}
    BY DEF ConfiguredDatabasePersists
  <2>1. dbFaults \/ ~Understands \/ ~TakesTexts(q, Texts)
    BY DEF IInv, TableInv, FailureNeedsFault
  <2>2. dbDefined /\ dbType \in {"none", "sqlite", "postgres", "mariadb"}
    BY DatabaseAssumption DEF IInv, PlaceInv, TypeOK, IPInfoTypeOK, DatabaseTypeOK
  <2>3. Understands
    BY <2>2 DEF Understands, dbDefined
  <2> QED BY <2>1, <2>3 DEF TakesTexts
<1> QED BY <1>1, Invariance, PTL
===============================================================================
