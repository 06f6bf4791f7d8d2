------------------------------- MODULE Database -------------------------------
(***************************************************************************)
(* The two tables behind the Database interface (database_interface.go,    *)
(* database_sqlite.go, database_postgres.go, database_mariadb.go,          *)
(* database_noop.go) as its callers see them: what each method may return  *)
(* and what it does to the tables, backend by backend.                     *)
(*                                                                         *)
(* A method is an operator over its arguments and its result; the caller's *)
(* action quantifies over the results. An error, sql.ErrNoRows included,   *)
(* is the result NoRow, FALSE or "error": callers look no closer.          *)
(***************************************************************************)
EXTENDS Integers, Sequences, FiniteSets

CONSTANTS
  IPs,        \* client addresses
  Requests,   \* inspected HTTP requests
  ip,         \* the client address of each request
  print,      \* its RequestFingerprint: IP, path, query and User-Agent
  spoilt,     \* which of its texts PostgreSQL does not take for text: a path
              \* may be cut inside a character by truncateForLog
  Backends,   \* the database types NewDatabase may select
  MaxNow,     \* bound on the clock
  NoRow       \* "no usable row": a nil *IPInfo with an error

Time == 0..MaxNow

\* An ip_info row: whether it holds a geolocation, and its last_update.
Row == [located : BOOLEAN, lastUpdate : Time]

\* The texts of a record: those of its fingerprint, which the duplicate check
\* sends, and the rest (request URI, Referer, host...), which only the insert does.
Texts == {"key", "rest"}

ASSUME DatabaseAssumption ==
  /\ ip \in [Requests -> IPs]
  /\ spoilt \in [Requests -> SUBSET Texts]
  /\ \A p, q \in Requests : print[p] = print[q] =>
       ip[p] = ip[q] /\ ("key" \in spoilt[p] <=> "key" \in spoilt[q])
  /\ Backends \subseteq {"none", "sqlite", "postgres", "mariadb"}
  /\ MaxNow \in Nat
  /\ NoRow \notin Row

VARIABLES
  dbType,        \* the backend in use; "none" is NoOpDB, dbDefined = FALSE
  dbFaults,      \* whether its calls may fail on their own (network, busy file)
  ipInfo,        \* table ip_info, by primary key
  httpRequests,  \* table http_requests, in insertion order
  now            \* the clock

tables == <<ipInfo, httpRequests>>
dbVars == <<dbType, dbFaults, tables, now>>

DatabaseTypeOK ==
  /\ dbType \in Backends
  /\ dbFaults \in BOOLEAN
  /\ ipInfo \in [IPs -> Row \cup {NoRow}]
  /\ httpRequests \in Seq([req : Requests, at : Time])
  /\ now \in Time

DatabaseInit ==
  /\ dbType \in Backends
  /\ dbFaults \in BOOLEAN
  /\ ipInfo = [i \in IPs |-> NoRow]
  /\ httpRequests = <<>>
  /\ now = 0

\* Wall-clock time passes, at any moment.
Tick ==
  /\ now < MaxNow
  /\ now' = now + 1
  /\ UNCHANGED <<dbType, dbFaults, tables>>

dbDefined == dbType # "none"

\* MariaDB inherits SaveIPInfo, GetIPInfo and IsDuplicateRequest from BaseDB,
\* whose $n placeholders and ON CONFLICT its server rejects.
Understands == dbType \in {"sqlite", "postgres"}

\* SQLite stores any bytes; PostgreSQL refuses a parameter that is not text.
TakesTexts(q, texts) == dbType = "postgres" => texts \cap spoilt[q] = {}

\* PostgreSQL and MariaDB enforce the schema's foreign key; the SQLite
\* connection never switches enforcement on.
EnforcesForeignKey == dbType \in {"postgres", "mariadb"}

GetIPInfo(i, row) ==
  \/ Understands /\ row = ipInfo[i]
  \/ (~Understands \/ dbFaults) /\ row = NoRow

\* An upsert on every backend that accepts it; NoOpDB ignores the row.
SaveIPInfo(i, row, ok) ==
  \/ /\ Understands /\ ok
     /\ ipInfo' = [ipInfo EXCEPT ![i] = row]
  \/ /\ \/ dbType = "none" /\ ok
        \/ (dbType = "mariadb" \/ (dbFaults /\ dbDefined)) /\ ~ok
     /\ UNCHANGED ipInfo

\* Broken form: the fingerprint is reduced to the client address.
DuplicatedIPOnly(q, window) ==
  \E i \in DOMAIN httpRequests :
    /\ ip[httpRequests[i].req] = ip[q]
    /\ httpRequests[i].at > now - window

\* The stored timestamp is the request's own; the cutoff is the time of the call.
Duplicated(q, window) ==
  \E i \in DOMAIN httpRequests :
    /\ print[httpRequests[i].req] = print[q]
    /\ httpRequests[i].at > now - window

IsDuplicateRequest(q, window, answer) ==
  \/ /\ Understands /\ TakesTexts(q, {"key"})
     /\ answer = IF Duplicated(q, window) THEN "duplicate" ELSE "new"
  \/ (~Understands \/ ~TakesTexts(q, {"key"}) \/ dbFaults) /\ answer = "error"

\* The foreign key is checked by the INSERT itself.
SaveHTTPRequest(q, at, ok) ==
  \/ /\ TakesTexts(q, Texts) /\ (EnforcesForeignKey => ipInfo[ip[q]] # NoRow)
     /\ ok
     /\ httpRequests' = Append(httpRequests, [req |-> q, at |-> at])
  \/ /\ ~TakesTexts(q, Texts) \/ (EnforcesForeignKey /\ ipInfo[ip[q]] = NoRow) \/ dbFaults
     /\ ~ok
     /\ UNCHANGED httpRequests
===============================================================================
