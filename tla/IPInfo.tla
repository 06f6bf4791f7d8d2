-------------------------------- MODULE IPInfo --------------------------------
(***************************************************************************)
(* Geolocation of a client address (ipinfo.go): a read-through cache over  *)
(* the ip_info table, and the semaphore that bounds the calls in flight to *)
(* ipinfo.io. Each request of Requests looks its client address up once.   *)
(***************************************************************************)
EXTENDS Database

CONSTANTS
  TTL,          \* ipInfoCacheTTL, in clock ticks
  MaxFetches    \* maxConcurrentIPInfoFetches

ASSUME IPInfoAssumption == TTL \in Nat /\ MaxFetches \in Nat \ {0}

VARIABLES
  gpc,       \* where each handler is in getOrFetchIPInfo
  ctxDone,   \* whether its request context is done (deadline or cancelled)
  sem,       \* tokens in the channel ipInfoFetchSem
  cached,    \* what its GetIPInfo returned
  answer     \* what its getOrFetchIPInfo returns

geoVars == <<gpc, ctxDone, sem, cached, answer>>
ipInfoVars == <<dbVars, geoVars>>

LookupPC == {"idle", "lookup", "acquire", "fetching", "saving", "answered"}

IPInfoTypeOK ==
  /\ DatabaseTypeOK
  /\ gpc \in [Requests -> LookupPC]
  /\ ctxDone \in [Requests -> BOOLEAN]
  /\ sem \in 0..MaxFetches
  /\ cached \in [Requests -> Row \cup {NoRow}]
  /\ answer \in [Requests -> Row \cup {NoRow}]

IPInfoInit ==
  /\ DatabaseInit
  /\ gpc = [q \in Requests |-> "idle"]
  /\ ctxDone = [q \in Requests |-> FALSE]
  /\ sem = 0
  /\ cached = [q \in Requests |-> NoRow]
  /\ answer = [q \in Requests |-> NoRow]

shouldUpdateIPInfo(row) == now - row.lastUpdate > TTL

\* The handler of q calls getOrFetchIPInfo, with a live context or a dead one.
CallLookup(q, dead) ==
  /\ gpc[q] = "idle"
  /\ gpc' = [gpc EXCEPT ![q] = "lookup"]
  /\ ctxDone' = [ctxDone EXCEPT ![q] = dead]
  /\ UNCHANGED <<sem, cached, answer>>

\* A fresh row is the answer; a stale or missing one sends the handler upstream.
Lookup(q) ==
  /\ gpc[q] = "lookup"
  /\ \E row \in Row \cup {NoRow} :
       /\ GetIPInfo(ip[q], row)
       /\ cached' = [cached EXCEPT ![q] = row]
       /\ IF row # NoRow /\ ~shouldUpdateIPInfo(row)
            THEN /\ answer' = [answer EXCEPT ![q] = row]
                 /\ gpc' = [gpc EXCEPT ![q] = "answered"]
            ELSE /\ gpc' = [gpc EXCEPT ![q] = "acquire"]
                 /\ UNCHANGED answer
  /\ UNCHANGED <<dbVars, ctxDone, sem>>

\* The select of fetchIPInfo: a token, or the end of the context.
Acquire(q) ==
  /\ gpc[q] = "acquire"
  /\ sem < MaxFetches
  /\ sem' = sem + 1
  /\ gpc' = [gpc EXCEPT ![q] = "fetching"]
  /\ UNCHANGED <<dbVars, ctxDone, cached, answer>>

\* Without a fetch the stale row, if there is one, is the answer.
GiveUp(q) ==
  /\ gpc[q] = "acquire"
  /\ ctxDone[q]
  /\ gpc' = [gpc EXCEPT ![q] = "answered"]
  /\ answer' = [answer EXCEPT ![q] = cached[q]]
  /\ UNCHANGED <<dbVars, ctxDone, sem, cached>>

\* Broken form: the error returned before the stale row is considered.
FetchFailsBare(q) ==
  /\ gpc[q] = "fetching"
  /\ sem' = sem - 1
  /\ gpc' = [gpc EXCEPT ![q] = "answered"]
  /\ UNCHANGED <<dbVars, ctxDone, cached, answer>>

\* Broken form: an error return that keeps the token.
FetchFailsLeaking(q) ==
  /\ gpc[q] = "fetching"
  /\ gpc' = [gpc EXCEPT ![q] = "answered"]
  /\ answer' = [answer EXCEPT ![q] = cached[q]]
  /\ UNCHANGED <<dbVars, ctxDone, sem, cached>>

\* Any error of the call: transport, client timeout, status, body, JSON.
FetchFails(q) ==
  /\ gpc[q] = "fetching"
  /\ sem' = sem - 1
  /\ gpc' = [gpc EXCEPT ![q] = "answered"]
  /\ answer' = [answer EXCEPT ![q] = cached[q]]
  /\ UNCHANGED <<dbVars, ctxDone, cached>>

\* A call under a dead context cannot succeed.
FetchSucceeds(q) ==
  /\ gpc[q] = "fetching"
  /\ ~ctxDone[q]
  /\ sem' = sem - 1
  /\ answer' = [answer EXCEPT ![q] = [located |-> TRUE, lastUpdate |-> now]]
  /\ gpc' = [gpc EXCEPT ![q] = "saving"]
  /\ UNCHANGED <<dbVars, ctxDone, cached>>

\* The row is saved for the next lookup; a failed save changes nothing else.
SaveFetched(q) ==
  /\ gpc[q] = "saving"
  /\ \E ok \in BOOLEAN : SaveIPInfo(ip[q], answer[q], ok)
  /\ gpc' = [gpc EXCEPT ![q] = "answered"]
  /\ UNCHANGED <<dbType, dbFaults, httpRequests, now, ctxDone, sem, cached, answer>>

\* The eight-second deadline of the ContextTimeout middleware, or a client
\* that went away.
Expire(q) ==
  /\ gpc[q] \notin {"idle", "answered"}
  /\ ~ctxDone[q]
  /\ ctxDone' = [ctxDone EXCEPT ![q] = TRUE]
  /\ UNCHANGED <<dbVars, gpc, sem, cached, answer>>

\* The steps a handler takes on its own, whatever ipinfo.io does.
LookupStep(q) == Lookup(q) \/ Acquire(q) \/ GiveUp(q) \/ SaveFetched(q)

FetchStep(q) == FetchFails(q) \/ FetchSucceeds(q)

GeoStep(q) == LookupStep(q) \/ FetchStep(q) \/ Expire(q)
-------------------------------------------------------------------------------
(* Properties.                                                             *)

\* One token in the channel per call in flight: fetchIPInfo never leaks or
\* doubly releases one, on any of its returns, so at most MaxFetches calls
\* reach ipinfo.io at a time and the capacity never shrinks.
SemaphoreExact == sem = Cardinality({q \in Requests : gpc[q] = "fetching"})

\* A client whose row is known is always answered, with nothing older than
\* that row, however the lookup ends: expired while queued, refused upstream,
\* or fetched but not saved.
NeverWorseThanCached ==
  \A q \in Requests :
    gpc[q] = "answered" /\ cached[q] # NoRow =>
      answer[q] # NoRow /\ answer[q].lastUpdate >= cached[q].lastUpdate
===============================================================================
