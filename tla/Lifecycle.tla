------------------------------- MODULE Lifecycle -------------------------------
(***************************************************************************)
(* main, from start to exit (server.go): configuration, database, schema,  *)
(* three listeners, the shutdown with its single deadline, and cleanup.    *)
(* The persistence queue is the RecordLedger it implements.                *)
(***************************************************************************)
EXTENDS Config, Migration, FiniteSets

CONSTANTS
  Calls,        \* HTTP requests; each offers one record
  QueueSize,    \* storeQueueSize
  StoreWorkers, \* storeWorkers
  Sources,      \* [env, file]: what the process may find at its start
  Unloaded,     \* no Config yet
  MaxStarts     \* bound on the starts of the process

ASSUME LifecycleAssumption ==
  /\ {QueueSize, StoreWorkers, MaxStarts} \subseteq Nat \ {0}
  /\ Sources \subseteq [env : Environments, file : Documents]

VARIABLES
  source,       \* what the process finds at its start
  config,       \* app.config
  stage,        \* where main is
  starts,       \* how often the process has been started
  db,           \* "none", "open" or "closed"
  listener,     \* the HTTP, HTTPS and HTTP/3 listeners
  expired,      \* the shutdown context's deadline has passed
  call,         \* each request: "idle", the listener its handler runs for, or "over"
  recording, gate, status   \* the ledger: rp.dbDefined, rp.storeClosed and Close

ledger  == <<recording, gate, status>>
booting == <<source, config, migrationVars, starts>>
vars == <<booting, stage, db, listener, expired, call, ledger>>

\* The queue, at the sizes for which StoreQueue implements it.
Ledger == INSTANCE RecordLedger WITH
            Requests  <- Calls,
            Addressed <- Calls,
            Backlog   <- QueueSize,
            InFlight  <- QueueSize + StoreWorkers

Listeners == {"http", "https", "h3"}
Stages == {"start", "connect", "migrate", "ready", "serving", "drainHTTP",
           "drainHTTPS", "closeQueue", "waitQueue", "closeDB", "exit", "exited", "fatal"}

TypeOK ==
  /\ MigrationTypeOK
  /\ source \in Sources
  /\ config = Unloaded \/ config = ReadConfig(source.env, source.file)
  /\ stage \in Stages
  /\ starts \in 1..MaxStarts
  /\ db \in {"none", "open", "closed"}
  /\ listener \in [Listeners -> {"down", "starting", "up"}]
  /\ expired \in BOOLEAN
  /\ call \in [Calls -> Listeners \cup {"idle", "over"}]
  /\ recording \in BOOLEAN
  /\ gate \in {"open", "shut", "drained"}
  /\ status \in [Calls -> {"offered", "accepted", "turnedAway", "settled", "lost"}]

backend == NewDatabase(config)
dbDefined == backend # "none"

\* The database the settings lead to, if to any: a role that creates the tables
\* owns them.
Init ==
  /\ source \in Sources
  /\ LET target == NewDatabase(ReadConfig(source.env, source.file))
     IN  /\ server \in Servers(target)
         /\ schema \in Schemas
         /\ target \in {"none", "error"} => schema.tables = {}
  /\ schema.tables = {} => server.owner
  /\ inherited = (schema.tables # {})
  /\ skipped = {}
  /\ todo = <<>>
  /\ config = Unloaded
  /\ stage = "start"
  /\ starts = 1
  /\ db = "none"
  /\ listener = [l \in Listeners |-> "down"]
  /\ expired = FALSE
  /\ call = [c \in Calls |-> "idle"]
  /\ recording = FALSE
  /\ gate = "open"
  /\ status = [c \in Calls |-> "offered"]
-------------------------------------------------------------------------------
(* initializeApplication.                                                  *)

Configure ==
  /\ stage = "start"
  /\ config' = ReadConfig(source.env, source.file)
  /\ stage' = CASE backend' = "error" -> "fatal" [] backend' = "none" -> "ready" [] OTHER -> "connect"
  /\ UNCHANGED <<source, migrationVars, starts, db, listener, expired, call, ledger>>

\* Only SQLite's Connect does not reach out for the database.
Connect ==
  /\ stage = "connect"
  /\ \/ /\ stage' = "migrate"
        /\ db' = "open"
        /\ todo' = Migrate(backend)
     \/ /\ backend # "sqlite" /\ server.faults
        /\ stage' = "fatal"
        /\ UNCHANGED <<db, todo>>
  /\ UNCHANGED <<source, config, schema, server, inherited, skipped, starts, listener, expired, call, ledger>>

RunMigration ==
  /\ stage = "migrate"
  /\ \/ /\ Apply(backend) \/ Skip(backend)
        /\ stage' = IF todo' = <<>> THEN "ready" ELSE stage
     \/ /\ Fails(backend)
        /\ stage' = "fatal"
  /\ UNCHANGED <<source, config, starts, db, listener, expired, call, ledger>>

\* Broken form: the default port is written back to the configuration.
ServeStoringDefaults ==
  /\ stage = "ready"
  /\ stage' = "serving"
  /\ recording' = dbDefined
  /\ config' = [config EXCEPT !.http = HTTPPort(config)]
  /\ listener' = [l \in Listeners |->
                    IF l = "http" \/ HTTPSEnabled(config) THEN "starting" ELSE "down"]
  /\ UNCHANGED <<source, migrationVars, starts, db, expired, call, gate, status>>

\* NewRequestProcessor, then startServers up to the wait for a signal.
Serve ==
  /\ stage = "ready"
  /\ stage' = "serving"
  /\ recording' = dbDefined
  /\ listener' = [l \in Listeners |->
                    IF l = "http" \/ HTTPSEnabled(config) THEN "starting" ELSE "down"]
  /\ UNCHANGED <<booting, db, expired, call, gate, status>>
-------------------------------------------------------------------------------
(* The listeners and the requests.                                         *)

\* HTTP and HTTPS cannot share a TCP port; HTTP/3 is on UDP. A bind may also
\* fail on its own. Either way the error is only logged.
Bind(l) ==
  /\ listener[l] = "starting"
  /\ \E result \in {"up", "down"} :
       /\ result = "up" =>
            ~ /\ HTTPPort(config) = HTTPSPort(config)
              /\ \/ l = "http" /\ listener["https"] = "up"
                 \/ l = "https" /\ listener["http"] = "up"
       /\ listener' = [listener EXCEPT ![l] = result]
  /\ UNCHANGED <<booting, stage, db, expired, call, ledger>>

Arrive(c, l) ==
  /\ call[c] = "idle"
  /\ listener[l] = "up"
  /\ call' = [call EXCEPT ![c] = l]
  /\ UNCHANGED <<booting, stage, db, listener, expired, ledger>>

\* QueueStore, the last thing a handler does with its record.
Offer(c) ==
  /\ call[c] \in Listeners
  /\ Ledger!Accept(c) \/ Ledger!TurnAway(c)
  /\ UNCHANGED <<booting, stage, db, listener, expired, call>>

Return(c) ==
  /\ call[c] \in Listeners
  /\ status[c] # "offered"
  /\ call' = [call EXCEPT ![c] = "over"]
  /\ UNCHANGED <<booting, stage, db, listener, expired, ledger>>

\* A worker is done with a record.
Store(c) ==
  /\ Ledger!Settle(c)
  /\ UNCHANGED <<booting, stage, db, listener, expired, call>>
-------------------------------------------------------------------------------
(* startServers after the signal, and cleanup.                             *)

Running(l) == {c \in Calls : call[c] = l}

Stop(ls) == [l \in Listeners |-> IF l \in ls THEN "down" ELSE listener[l]]

\* A listener that is still starting finds its server shut down.
Signal ==
  /\ stage = "serving"
  /\ stage' = "drainHTTP"
  /\ listener' = Stop({"http"})
  /\ UNCHANGED <<booting, db, expired, call, ledger>>

\* One context, for both Shutdown calls.
Expire ==
  /\ stage \in {"drainHTTP", "drainHTTPS"}
  /\ ~expired
  /\ expired' = TRUE
  /\ UNCHANGED <<booting, stage, db, listener, call, ledger>>

\* Broken form: Shutdown is given a context without a deadline.
HTTPDrainedForever ==
  /\ stage = "drainHTTP"
  /\ Running("http") = {}
  /\ IF HTTPSEnabled(config)
     THEN stage' = "drainHTTPS" /\ listener' = Stop({"https"})
     ELSE stage' = "closeQueue" /\ UNCHANGED listener
  /\ UNCHANGED <<booting, db, expired, call, ledger>>

HTTPDrained ==
  /\ stage = "drainHTTP"
  /\ Running("http") = {} \/ expired
  /\ IF HTTPSEnabled(config)
     THEN stage' = "drainHTTPS" /\ listener' = Stop({"https"})
     ELSE stage' = "closeQueue" /\ UNCHANGED listener
  /\ UNCHANGED <<booting, db, expired, call, ledger>>

\* Broken form: HTTPS is closed rather than drained.
HTTPSClosed ==
  /\ stage = "drainHTTPS"
  /\ stage' = "closeQueue"
  /\ listener' = Stop({"h3"})
  /\ UNCHANGED <<booting, db, expired, call, ledger>>

\* HTTP/3 is closed, not drained, as soon as HTTPS is: its handlers run on.
HTTPSDrained ==
  /\ stage = "drainHTTPS"
  /\ Running("https") = {} \/ expired
  /\ stage' = "closeQueue"
  /\ listener' = Stop({"h3"})
  /\ UNCHANGED <<booting, db, expired, call, ledger>>

\* Broken form: cleanup does not wait for the queue.
CloseQueueOnly ==
  /\ stage = "closeQueue"
  /\ IF recording THEN Ledger!Shut ELSE UNCHANGED ledger
  /\ stage' = "closeDB"
  /\ UNCHANGED <<booting, db, listener, expired, call>>

\* RequestProcessor.Close does nothing without a database.
CloseQueue ==
  /\ stage = "closeQueue"
  /\ IF recording
     THEN Ledger!Shut /\ stage' = "waitQueue"
     ELSE UNCHANGED ledger /\ stage' = "exit"
  /\ UNCHANGED <<booting, db, listener, expired, call>>

QueueDrained ==
  /\ stage = "waitQueue"
  /\ Ledger!Drain
  /\ stage' = "closeDB"
  /\ UNCHANGED <<booting, db, listener, expired, call>>

CloseDatabase ==
  /\ stage = "closeDB"
  /\ db' = "closed"
  /\ stage' = "exit"
  /\ UNCHANGED <<booting, listener, expired, call, ledger>>

Kill == call' = [c \in Calls |-> IF call[c] \in Listeners THEN "over" ELSE call[c]]

Exit ==
  /\ stage = "exit"
  /\ stage' = "exited"
  /\ Kill
  /\ UNCHANGED <<booting, db, listener, expired, ledger>>

\* The process dies, or gave up, and its supervisor starts it again. What the
\* database holds survives.
Restart ==
  /\ starts < MaxStarts
  /\ stage # "exited"
  /\ starts' = starts + 1
  /\ stage' = "start"
  /\ config' = Unloaded
  /\ todo' = <<>>
  /\ skipped' = {}
  /\ db' = "none"
  /\ listener' = [l \in Listeners |-> "down"]
  /\ expired' = FALSE
  /\ recording' = FALSE
  /\ gate' = "open"
  /\ status' = [c \in Calls |-> IF status[c] = "accepted" THEN "lost" ELSE status[c]]
  /\ Kill
  /\ UNCHANGED <<source, schema, server, inherited>>

Finished ==
  /\ stage \in {"exited", "fatal"}
  /\ UNCHANGED vars

Boot == Configure \/ Connect \/ RunMigration \/ Serve
Shutdown == Expire \/ HTTPDrained \/ HTTPSDrained \/ CloseQueue \/ QueueDrained \/ CloseDatabase \/ Exit

Next ==
  \/ Boot \/ Signal \/ Shutdown \/ Restart \/ Finished
  \/ \E l \in Listeners : Bind(l)
  \/ \E c \in Calls : Offer(c) \/ Return(c) \/ Store(c) \/ \E l \in Listeners : Arrive(c, l)

\* main runs, its timer fires and its workers work. No handler is obliged to end:
\* the deadline is there for those that do not.
Fairness == WF_vars(Boot) /\ WF_vars(Shutdown) /\ \A c \in Calls : WF_vars(Store(c))

Spec == Init /\ [][Next]_vars /\ Fairness
-------------------------------------------------------------------------------
(* Properties.                                                             *)

\* A record that has been accepted always finds the database open, from the
\* first request to the last step of cleanup.
DatabaseOutlivesRecords == (\E c \in Calls : status[c] = "accepted") => db = "open"

\* A handler is left running on a closed database only if its server gave up on
\* it: the deadline passed, or it came over HTTP/3, which is not drained.
HandlersFindDatabase ==
  \A c \in Calls : call[c] \in {"http", "https"} /\ db = "closed" => expired

\* However many interrupted or failed starts came before, requests are recorded
\* only over both tables. A column is missing only from a table the program found:
\* because this very start was denied it by PostgreSQL, or failed to add it on
\* SQLite, or because it is of the group that only PostgreSQL's list adds.
RecordsOverSchema ==
  recording =>
    /\ schema.tables = Tables
    /\ \A c \in Columns \ schema.columns :
         /\ inherited
         /\ \/ backend = "postgres" /\ ~server.owner /\ c \in skipped
            \/ backend = "sqlite" /\ server.faults /\ c \in skipped
            \/ backend # "postgres" /\ c = "tls_version"

\* A process that serves without a database was told of none, by the document it
\* could decode or by the environment.
NeverSilentlyUnrecorded ==
  stage = "serving" /\ ~dbDefined =>
    LET env == source.env
        loaded == loadConfigFromSources(env, source.file)
    IN  /\ {env.IPTHING_DB_TYPE, env.IPTHING_SQLITE_PATH, env.IPTHING_POSTGRES_URL,
            env.DATABASE_URL} = {""}
        /\ loaded # Malformed => {loaded.dbType, loaded.path, loaded.conn} = {""}

\* DATABASE_URL is a last resort: with a connection string from the settings it
\* changes neither that string nor the database type a variable asks for.
LegacyURLIsLastResort ==
  config # Unloaded =>
    LET env == source.env
        loaded == loadConfigFromSources(env, source.file)
        conn == IF env.IPTHING_POSTGRES_URL # "" THEN env.IPTHING_POSTGRES_URL
                ELSE IF loaded = Malformed THEN "" ELSE loaded.conn
    IN  conn # "" =>
          /\ config.conn = conn
          /\ env.IPTHING_DB_TYPE # "" => config.dbType = env.IPTHING_DB_TYPE

\* The ports are those the variables ask for, and 0 keeps HTTPS and HTTP/3 off at
\* every stage: a positive port of the document's own, or the default, does not
\* bring them back. Only the legacy listenPort does, which takes 0 for "not set".
PortsAreAsAsked ==
  config # Unloaded =>
    LET env == source.env
        loaded == loadConfigFromSources(env, source.file)
        legacy == IF loaded = Malformed THEN 0 ELSE loaded.listenPort
    IN  /\ \A p \in env.IPTHING_HTTP_PORT : p > 0 => HTTPPort(config) = p
        /\ \A p \in env.IPTHING_HTTPS_PORT :
             /\ p > 0 => HTTPSPort(config) = p /\ HTTPSEnabled(config)
             /\ p = 0 /\ legacy <= 0 => listener["https"] = "down" /\ listener["h3"] = "down"

\* A shutdown ends, whatever the handlers do, unless the process dies first.
ShutdownEnds == stage = "drainHTTP" ~> stage \in {"exited", "start"}

\* "Individual IPTHING_* variables override" (README): the database type they name
\* is the one that is used.
ExplicitTypeWins ==
  config # Unloaded /\ source.env.IPTHING_DB_TYPE # "" =>
    config.dbType = source.env.IPTHING_DB_TYPE
===============================================================================
