# TLA+ specifications of ipthing

ipthing answers an HTTP request with what the request reveals about its client, geolocates the client's address, and
records the inspection in a database. The answer is simple; what is hard to test is around it: a bounded queue that must
survive shutdown, several workers and handlers writing two tables without a transaction, a semaphore and deadlines in
front of a slow external service, and four database backends behind one interface.

This directory holds TLA+ models of that part of the program, TLC configurations that check them, and proofs that TLAPS
checks. Every definition is translated from the Go source; `PROJECT.json` maps each one to its lines.

## Inventory

| Component | Source | State | Operations | Hard behaviour | What makes it correct |
| --- | --- | --- | --- | --- | --- |
| Persistence queue | `request.go` 45-62, 187-218 | `storeCh`, `storeMu`, `storeClosed`, `storeWG` | `QueueStore`, `Close`, the workers' range loop | handlers, workers and closers interleave; a full queue; shutdown while sending | no send on a closed channel, no double close, nothing accepted is lost, `Close` drains and returns |
| Record storage | `request.go` 239-278 | the two tables | `storeRequestAsync` | four database calls without a transaction, by four workers; any of them fails | parent row before child row, one row per record, a skipped record has a stored twin |
| Geolocation cache | `ipinfo.go` | `ip_info`, `ipInfoFetchSem` | `getOrFetchIPInfo`, `fetchIPInfo` | at most eight fetches, deadlines, late or failing answers, stale rows | tokens are exact, a known client is always answered, every lookup ends |
| Database backends | `database_*.go` | tables `ip_info`, `http_requests` | `Connect`, `Migrate`, `SaveIPInfo`, `GetIPInfo`, `SaveHTTPRequest`, `IsDuplicateRequest`, `Close` | four dialects behind one interface, foreign keys, insufficient privileges | each backend keeps the interface's promises |
| Inspection | `handlers.go`, `request.go` 70-160, `request_enrich.go` | the request's record | `HandleRoot`, `ProcessRequest`, `buildHTTPRequest` | steps before and after blocking calls | every request is answered and recorded once |
| Routing and middleware | `server.go` 158-433, `body_limit.go` | none of its own | middleware chain, body limit, routes, error handler | the order of the chain; handlers called from the error handler; three places that record; bodies that never end | a finished request has one record, under the status of its answer, or none; whoever is let in is answered |
| Rate limiting | `server.go` 275-313 | one store of token buckets, one per client | `rateLimitMiddleware` | three listeners at once, refill and expiry at the clock's edges | a client has one budget, whichever listeners it uses |
| TLS fingerprints | `tls_hello.go` | `byAddr` | `Remember`, `Lookup`, `ConnState`, JA3 | connections open and close concurrently, addresses are reused, QUIC has no `ConnState` | a fingerprint belongs to the connection it is looked up for |
| Startup and shutdown | `server.go` 27-155, 436-524 | servers, processor, database | `initializeApplication`, `startServers`, `cleanup` | signals, one deadline for two shutdowns, failures half-way | nothing uses a closed database, shutdown ends |
| Configuration | `config.go`, `database_factory.go` | `Config` | `ReadConfig`, `NewDatabase` | precedence of sources, legacy fields, port edges | documented precedence, distinct ports |
| Logging, assets, templates, version, TLS names | `logger.go`, `syslog_*.go`, `embedded.go`, `version.go`, `tls_helpers.go` | none | formatting and output | none | not modelled |

Handlers call the geolocation cache, then build the record, answer, and hand the record to the queue. Workers take
records from the queue and write them. Handlers and workers share `ip_info`: handlers save what ipinfo.io answered,
workers save a minimal row when they find none. `main` closes the queue, then the database.

## Modules

| Module | Models | Role |
| --- | --- | --- |
| `RecordLedger` | what the queue promises: an offered record is turned away for a reason or accepted, and settled once | abstract specification |
| `StoreQueue` | `QueueStore`, `Close` and the range loop, one step per lock, flag and channel operation | implements `RecordLedger` |
| `StoreQueue_proofs`, `RecordLedger_proofs` | | TLAPS proofs about `StoreQueue`, and that it implements `RecordLedger` |
| `QueueCounting` | | lemmas that count the requests in a channel and in the workers' hands |
| `Database` | the two tables and what each method may return, by backend | extended by the next two |
| `IPInfo` | `getOrFetchIPInfo` and `fetchIPInfo`, by many handlers | composed in `Inspector` |
| `Persist` | `storeRequestAsync`, by many workers, one step per database call | composed in `Inspector` |
| `Inspector` | the whole path of a request: lookup, record, queue, storage | composes `IPInfo` and `Persist`, implements `RecordLedger` too |
| `Inspector_proofs`, `InspectorLedger_proofs` | | TLAPS proofs about `Inspector`, `IPInfo` and `Persist`, and that the composition implements `RecordLedger` |
| `RateLimiter` | the store of token buckets as `newRateLimiterStore` configures it | extended by `Pipeline` |
| `Pipeline` | redirect, rate limiter, body limit, routes, handlers and error handler, for requests of all listeners | composes `RateLimiter` with the chain |
| `Pipeline_proofs` | | TLAPS proofs about `Pipeline` and `RateLimiter` |
| `JA3` | the fingerprint and its GREASE filter, as functions | extended by `TLSHello` |
| `TLSHello` | the map of fingerprints, handshakes, requests and `ConnState`, over connections that reuse addresses | specification of its own |
| `TLSHello_proofs` | | TLAPS proofs about `JA3` and `TLSHello` |
| `Config` | `ReadConfig` with its overrides and legacy fields, `NewDatabase`, the ports, as functions | extended by `Lifecycle` |
| `Migration` | `Migrate` of the three SQL backends, one step per DDL statement | extended by `Lifecycle` |
| `Lifecycle` | `main`: configuration, connect, migration, listeners, shutdown, cleanup, crash and restart | composes `Config`, `Migration` and `RecordLedger` |
| `Lifecycle_proofs` | | TLAPS proofs about `Lifecycle` |
| `MC*` | small instances for TLC | |

### How state and actions correspond to the code

`StoreQueue`. `storeCh`, `storeClosed` and `dbDefined` are the fields of `RequestProcessor`; `chClosed` says that
`close(storeCh)` has run; `rlocks` and `wlock` are the readers-writer lock `storeMu`, in which a waiting writer holds
back new readers as `sync.RWMutex` does; `hpc`, `cpc` and `wpc` are the program counters of the handlers in `QueueStore`,
the callers of `Close` and the workers. `item` and `fate` record which request a worker holds and what became of each
request. `storeRequestAsync` is one step here, `Finish`; `Persist` opens it.

`Database`. A method is an operator over its arguments and its result, and the caller's action chooses among the results
the backend may give. `dbFaults` says whether calls may also fail on their own. All errors look the same to the callers,
`sql.ErrNoRows` included, and so they do here. `spoilt` says which texts of a record PostgreSQL refuses, because they were
not UTF-8 or `truncateForLog` has cut a path inside a character: those of its fingerprint (`"key"`), which the duplicate
check sends, or others such as its Referer (`"rest"`), which only the insert does. `TakesTexts` refuses each where the
code sends it, so such a record is given up at its first query or only after a minimal row has been saved for it.

`IPInfo`. `gpc` follows a handler through the lookup, the select on the semaphore and the context, the call and the
save; `cached` is the row it read and `answer` what it returns. A row is reduced to whether it holds a geolocation and
when it was last updated. The answer of ipinfo.io is taken to be about the address asked for.

`Persist`. `ppc` follows a worker through the duplicate check, the existence check, the minimal row and the insert. The
fingerprint of a request is one value, `print`; its timestamp `stamp` is set when the handler builds the record.

`Inspector`. The treatment a request got from the router, `route`, decides what the handler does: `HandleRoot`, directly
or from the error handler, `recordNotFound`, or `recordRejectedBody`. The queue is a sequence here: a request is accepted
or turned away in one step, which `StoreQueue` shows its locking to be. `Ledger` maps it to `RecordLedger`: a request that
is queued or in a worker's hands is accepted, one that was recorded, skipped or given up is settled, and the gate stays
open, since nobody calls `Close` here.

`RateLimiter` and `Pipeline`. The store and its buckets are libraries; they are modelled as the code sets them up, in
whole tokens and clock ticks. A bucket keeps its tokens and the time they were counted at, and any call of the store may
throw away the bucket of another client that has been idle for longer than `ExpiresIn`: when echo cleans up is left open.
`stage` follows a request through the chain in the order `setupServer` gives it; `pending` is the error that the chain
returns and that `rootMethodFallback` is called with; `answer` is the status sent, which is committed once; `records` are
the statuses under which `QueueStore` was given a record, by `recordRejectedBody`, `HandleRoot` or `recordNotFound`;
`passedAt` remembers when a request got past the limiter. `Route` is the router: what is registered, and what echo
answers itself. `LoseBody` is a client that goes away, `ReadTimeout` the server ending an endless body. A request is a
`Kind`: client, listener, host, class of path, method and how its body's length is known.

`TLSHello`. `byAddr` is the `sync.Map`, `phase` where a connection is between the accept and its last callback,
`inFlight` the connections with a request that has not reached `Lookup`, `seen` what their requests have found, `cut`
what the end of each socket interrupted (a history variable of the properties). A TCP socket may be closed, and its
address used again, before `ConnState` runs; a handshake that has read its hello may remember it on a socket that is
gone (phase `late`), and a request goes on to its lookup. QUIC connections may share an address with one another, and
every transport with the others. The MD5 of JA3 is taken to be collision-free: a fingerprint is the tuple of the
digested fields.

`Config` and `Migration`. A JSON document is the record it decodes to. Three columns of `http_requests` stand for the
groups of columns that the backends' ALTER lists treat alike; `tls_version` is the group that PostgreSQL's list adds
(database_postgres.go:120-131) and the other two lists do not. The database is empty at first, or holds tables from
elsewhere that may lack any of the three groups, on every backend: nothing in the repository says which columns an older
table has, so the initial schemas do not depend on the lists that the properties judge. What a server denies, the
privileges of a PostgreSQL role and the `multiStatements` of a MariaDB DSN, is chosen in the initial state. Two history
variables serve the properties: `inherited`, that `http_requests` was there before the first start, and `skipped`, the
columns whose ALTER the present start has gone past in vain.

`Lifecycle`. `stage` is where `main` is; the listeners and the requests of three servers run beside it. The queue is
`RecordLedger`, which `StoreQueue` implements: `Offer`, `Store`, `CloseQueue` and `QueueDrained` are its `Accept` or
`TurnAway`, `Settle`, `Shut` and `Drain`. `Restart` is a crash, or an abandoned start, followed by a new process: only
the database's schema survives it.

Broken forms. Some modules define, before an action, a broken form of it that stands for a plausible bug. They take no
part in the specifications: substituted for the action, they show that a property can fail.

## Runs

| Run | Instance | Shows |
| --- | --- | --- |
| `store_queue` | 4 requests (one without address), 2 workers, 2 closers, queue of 1 | safety, liveness and refinement of the queue; no circular wait |
| `inspector` | 3 requests of one client, two of them looked up, one with a text PostgreSQL refuses; 1 token, TTL 0, 2 workers, queue of 1, clock to 1, all backends | the semaphore, the fallback to a stale row, that the tables and the records stay consistent, and that the composition implements `RecordLedger` |
| `inspector_live` | 2 inspected requests, 1 worker, queue of 1, all backends | every request is answered and settled |
| `pipeline` | 3 requests, two of one client and one of another; burst and rate of 1, expiry of 1, clock to 2; 36 mixes of kinds | one budget per client, one record per recordable answer, every method on `/` inspected, an answer for whoever is let in |
| `placeholder_cached` | as `inspector`, SQLite | finding 1 |
| `minimal_overwrites` | as `inspector`, SQLite | finding 2 |
| `rejection_skipped` | as `inspector`, SQLite | finding 3 |
| `mariadb_silent` | as `inspector`, MariaDB | finding 4 |
| `tls_hello` | 2 HTTPS connections that reuse one address, one of HTTP/3 and one of HTTP that share another | no request sees a foreign fingerprint unless its address cannot tell the two apart; an open connection keeps its fingerprint; TCP leaves no entry |
| `quic_entry` | as `tls_hello` | finding 5 |
| `lifecycle` | 2 requests, a queue of 1 and 1 worker, 2 starts, 5 sources of configuration, an empty database or tables that lack any of the column groups, all privileges | complete schema before records, but for what an inherited table lacks and this start could not add, database closed last, `DATABASE_URL` only a last resort, ports as asked for, shutdown ends |
| `database_url` | as `lifecycle` | finding 6 |

Why the bounds are enough. The queue needs more requests than it holds plus the workers can hold only to overfill, and
two callers of `Close` to race. The composition needs two lookups, so that one waits for the other's token and finds its
row stale; a pair of requests with one fingerprint, a second one with another, two workers to race, and one clock tick
for a window and a TTL to run out. The pipeline needs two requests of a client with a budget of one, so that the second is
denied or waits for a refill, and a request of someone else for the store to forget the first client; its mixes meet each
branch of the chain, the router and the error handler with each kind of body. The fingerprint map needs two
connections of an address, so that a late callback, handshake or lookup of one meets the other. `Lifecycle` needs two requests, so that one is stored while
another is abandoned, and two starts, so that a migration is interrupted and resumed; its sources are one for each way to
a backend and to a set of ports, two of them with `DATABASE_URL` beside other settings. The four database types are chosen in the initial state, as is whether the database has
faults. For the safety properties, the action property and both refinements, the proofs remove these bounds.

### Findings

1. The minimal `ip_info` row of a worker is stamped as fresh. A client whose first request was a 404 or a 413 is then
   answered without geolocation for 24 hours.
2. The worker's existence check and upsert are two calls: a geolocation saved in between is overwritten by a blank row.
3. The fingerprint has no method and no status: a rejected body after an ordinary visit to the same path leaves no row.
4. `MariaDB` inherits queries in PostgreSQL's dialect: nothing is cached or stored.
5. HTTP/3 handshakes add fingerprints that nothing removes: only the TCP server has a `ConnState` hook.
6. `DATABASE_URL`, the legacy variable, turns a database type set by `IPTHING_DB_TYPE` into PostgreSQL.

Seen while modelling, and not contradicted by any document: the duplicate check and the insert are two calls, so two
workers may store one fingerprint twice; `listenPort` alone gives both TCP listeners one port, and the one that binds
second fails with a log line; `IPTHING_HTTPS_PORT=0`, which switches HTTPS off, is undone by a legacy `listenPort`, since
`handleLegacyPortConfig` takes 0 for a port that was not set (config.go:171), the one exception in `PortsAreAsAsked`;
MariaDB's three CREATE INDEX are one `Exec`, which its driver sends only if the DSN sets
`multiStatements`, so finding 4 can be met only with such a DSN; `src/.env.example:19` shows a MariaDB DSN without it, with which every start fails;
SQLite's `Migrate` ignores a locked database during an
ALTER; an older SQLite or MariaDB table without the columns from `tls_version` to `body`, which PostgreSQL's list adds and
theirs do not, is migrated without an error, and then every insert fails (`GapStays`; the exception in
`RecordsOverSchema`); the HTTP/3 server has no `ReadTimeout` (`applyServerTimeouts` is given the two TCP servers only), so a body of
unknown length that never ends keeps its handler, which is why `AnswerComes` excludes it; the limiter skips assets by
their path alone, so a body that is too large is recorded there without a token; `HandleRoot` records a 200 even if
rendering fails before anything was sent, which the model leaves out because the embedded templates cannot fail on its
data; paths that share their first 512 bytes share a fingerprint; the redirect of `www` runs before the middleware that
adds the security headers, although server.go:315 speaks of every response; a request whose client resets its connection and
reconnects from the same address and port before the lookup, and one whose address had a handshake cut off that remembers
its hello late, are given another connection's fingerprint, which `Confusable` excludes from `NeverForeign`.

## Fairness

`StoreQueue`: every goroutine that can move does; nobody is obliged to send a request or to call `Close`. A worker's
`storeRequestAsync` is assumed to return, which is an assumption on the database driver: its calls carry no deadline.

`Lifecycle`: `main` runs, the deadline's timer fires and workers store what they took. No handler is obliged to end, and
nobody to send a signal.

`Pipeline`: handlers run, a body of declared length needs no reading, and `ReadTimeout` fires where it is set, on the two
TCP servers. No client is obliged to send a request or to finish a body, and no time has to pass.

`Inspector`, with `IPInfo` and `Persist`: handlers and workers run, under the same assumption on database calls. A deadline expires, as
the `ContextTimeout` middleware guarantees, and the HTTP client ends a call whose context is done. Nothing obliges
ipinfo.io to answer before that, nor a waiting handler to be given a token.

## Proofs

Every safety invariant that the passing runs check is a theorem, and so are the action property and both refinements. The assumptions are those the
modules name: sizes are positive, workers are a finite and non-empty set, `NoRow` is no row, requests have the kinds
listed, sources of configuration are environments and documents, and the rate refills a bucket before the store may forget
it. None of the invariants is inductive; each proof module defines a strengthening, `IInv`, as a conjunction of named
parts.

`StoreQueue_proofs`, for any requests, workers and closers and any queue size:

- `LockInv`: the lock variables agree with the program counters, one writer claims the mutex, and it is granted only with
  no reader inside;
- `CloseInv`: the flag is set before the channel is closed, by the one caller that found it unset, and a handler past its
  check sees it unset still, because it holds the read lock;
- `DrainInv`: a worker leaves only a closed and empty channel;
- `FreshInv`: a request whose handler has not decided is nowhere else.

`NoSendOnClosedChannel` and `NoDoubleClose` follow from `CloseInv`, `CloseDrains` from `DrainInv` and `QueueLedger`.

`WaitsEnd` is the part of freedom from deadlock that is a state predicate. Of every handler and closer that waits,
`WaitsAreGrounded` names a goroutine it waits for that can go on by itself: the writer that holds the mutex, the readers it
waits for, or the workers, each of which has something to do or is gone. It follows from `LockInv` and `CloseInv`, and it
asks for no further call, unlike TLC's own deadlock check, which one new request would satisfy. That those goroutines do
go on, and the waits thus end, is fairness, and stays with TLC (`QueueStoreReturns`, `CloseReturns`).

`RecordLedger_proofs` maps every step of `StoreQueue` to a step of `RecordLedger` or to none. `SoloInv` adds that a worker
has one request in hand, and counting does the rest: the outstanding requests are those in the channel and those in
hand, so a request that finds the channel full finds at least `QueueSize` outstanding, and one that is accepted leaves at
most the queue and the workers full. This needs the workers to be finite. The counting itself is in `QueueCounting`, which
knows nothing of either specification: `WaitingCount` and `InHandCount` turn a channel without repetitions and hands that
share nothing into cardinalities, `OutstandingCount` adds them.

`InspectorLedger_proofs` does the same for `Inspector`, with the four database calls of a worker in place of one step.
`PlaceInv` says that what is in the queue or in hand has that fate; `NoOrphan` is its converse, that a record whose fate is
`queued` or `storing` really is there, without which the outstanding requests could not be counted. `RoundEffect` reduces
every step of a worker to a settlement or a stutter.

`Inspector_proofs`, for any requests, addresses, fingerprints, routes, workers and tokens: `SemInv` pairs tokens with
calls in flight, `GeoInv` says what a handler knows at each point of its lookup, `PlaceInv` that a record is in one place,
in the queue, in one worker's hands or done, and `TableInv` what the tables hold for each fate. `ParentRowExists` is there
because nothing is ever deleted: a worker that has seen or saved the parent row may rely on it, whoever writes it next.
`OtherBackendsPersist` gives finding 4 its extent: what MariaDB violates holds on every other backend.

`Pipeline_proofs`, for any requests, kinds, clients, rate, burst and expiry: `BudgetInv` couples the requests let in since
any moment with the tokens still available, their sum is never more than the burst and what has been refilled since;
forgetting a client keeps it because an idle bucket is full by then, which is the last conjunct of
`RateLimiterAssumption`. `FlowInv` says for each stage of a request what has been answered and recorded so far;
`PastInv` that nothing was let in after now.

`TLSHello_proofs`: `NeverForeign` rests on `OneOwner`, that an address belongs to one connection of a transport from accept
to close, which is an assumption on the kernel built into `Accept`, on `CutInv`, that a lookup outlives its socket and a
hello is remembered late only after a recorded interruption, and on `OwnEntry`: the entry of an open connection that is
not `Confusable` is its own or gone. `FingerprintIsKept` is an action property: no step but one late callback, that of a
connection that had the address before, takes an open connection's entry away, and no `Lookup` does. `TCPEntriesDie`
gives finding 5 its extent: an address without QUIC connections is empty when its connections' ends have been reported.
It also proves that the bit test of `isTLSGrease` agrees with RFC 8701 on every 16-bit value.

`Lifecycle_proofs`, for any requests, sources and number of starts: `DatabaseInv` relates the stage of `main` to the
database and the queue's gate; `DrainInv` says that a server that was shut down accepts nothing and, before the deadline,
runs nothing; `SchemaInv` says that what Migrate has gone past in this start is in the schema, or in `skipped` for a reason
the server gives, or on no list of the backend, and that a table the program made itself lacks nothing; it survives a
restart because nothing is ever removed. `MigrationIsComplete` is what follows once Migrate has returned: both tables are
there, and a column is missing only from an inherited table, because PostgreSQL denied it to this start, because its ALTER
failed on SQLite in this start, or because it is one that only PostgreSQL's list adds. The first two can heal at the next
start. `GapStays` shows that the third cannot: on the other backends no step, crash or restart ever adds such a column. `UnrecordedByChoice` follows the settings back from
`NewDatabase` through the legacy variables and the overrides to the documents. `LegacyURLComesLast` gives finding 6 its
extent: `DATABASE_URL` overrides a database type only where no connection string was set. `PortsAreKept` follows a port
from its variable through the legacy `listenPort` to the listener, and needs of `DrainInv` that HTTP/3 is up only with
its configuration.

Only model-checked: liveness (`QueueStoreReturns`, `AcceptedIsHandled`, `CloseReturns`, `EveryRequestSettles`,
`AnswerComes`, `ShutdownEnds`), which rests on fairness and `ENABLED`, out of the provers' reach, and the findings, whose
counterexamples are TLC's.

## Plan

Everything planned so far is modelled, checked and proved as far as the provers reach. What could come next:

1. The memory model of `setupServer`'s second write of the processor's logger, below the steps of these modules.
2. A clock with time zones, for `last_update` on a PostgreSQL server outside UTC.
3. `StoreQueue` and `Inspector` both implement `RecordLedger`, the one with the locks, the other with the database; one
   specification with both would show them together, at the price of their product.

## Not modelled

Logging, templates, embedded assets, version strings and the names of TLS constants are formatting. What the page and the
JSON show (`buildResponseData`), which headers are redacted and how a record's texts are built are data that no property
here tells apart, except that a lookup's answer and the texts PostgreSQL refuses are. Response headers (clacks, security)
are not modelled. The empty path, which the error handler treats as `/`, is `/` here; the 404 of the asset handlers is
left out, because the embedded files are there; negative ports are not among the inputs. The wait for a PTR name, 400 ms under the request's context, changes no state. Time zones of the
database are outside the model's clock. JA4, echo's router and limiter store, autocert and the database drivers are
libraries; where the code relies on them they are modelled from how it uses them and marked external.
