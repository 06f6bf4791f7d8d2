--------------------------- MODULE Lifecycle_proofs ---------------------------
(***************************************************************************)
(* Proofs about Lifecycle, for any requests, any sources of configuration  *)
(* and any number of restarts: records find the database open, handlers do *)
(* unless their server gave up on them, and nothing is recorded before the *)
(* schema is complete.                                                     *)
(***************************************************************************)
EXTENDS Lifecycle, SequenceTheorems, TLAPS

\* The stages before the listeners are started, and those after each of the two
\* graceful shutdowns.
Early == {"start", "connect", "migrate", "ready", "fatal"}
AfterHTTPS == {"closeQueue", "waitQueue", "closeDB", "exit", "exited"}
AfterHTTP == AfterHTTPS \cup {"drainHTTPS"}

\* The part of TypeOK that the steps of requests and shutdown rely on.
ControlTypeOK ==
  /\ stage \in Stages
  /\ db \in {"none", "open", "closed"}
  /\ listener \in [Listeners -> {"down", "starting", "up"}]
  /\ expired \in BOOLEAN
  /\ call \in [Calls -> Listeners \cup {"idle", "over"}]
  /\ recording \in BOOLEAN
  /\ gate \in {"open", "shut", "drained"}
  /\ status \in [Calls -> {"offered", "accepted", "turnedAway", "settled", "lost"}]

\* The database is open from the migration until the queue is drained.
DatabaseInv ==
  /\ stage \in Early => ~recording
  /\ stage \in Early \cup {"serving", "drainHTTP", "drainHTTPS", "closeQueue"} => gate = "open"
  /\ stage = "migrate" => db = "open"
  /\ stage = "ready" => db = "open" \/ ~dbDefined
  /\ recording => db # "none"
  /\ stage = "waitQueue" => gate = "shut"
  /\ stage = "closeDB" => gate = "drained"
  /\ db = "closed" => stage \in {"exit", "exited"} /\ gate = "drained"
  /\ \A c \in Calls : status[c] = "accepted" => recording /\ gate # "drained"

\* A server that has been shut down accepts nothing and, unless the deadline has
\* passed, runs nothing.
DrainInv ==
  /\ stage \in Early => \A l \in Listeners : listener[l] = "down" /\ Running(l) = {}
  /\ stage \in AfterHTTP \cup {"drainHTTP"} => listener["http"] = "down"
  /\ stage \in AfterHTTP => listener["https"] = "down" /\ (expired \/ Running("http") = {})
  /\ stage \in AfterHTTPS => expired \/ Running("https") = {}
  /\ ~HTTPSEnabled(config) =>
       listener["https"] = "down" /\ listener["h3"] = "down" /\ Running("https") = {}

LEMMA ControlTypeStep == ASSUME ControlTypeOK, [Next]_vars PROVE ControlTypeOK'
<1> USE DEF ControlTypeOK, Stages, Listeners, booting, ledger
<1>1. ASSUME Configure PROVE ControlTypeOK'
  BY <1>1 DEF Configure
<1>2. ASSUME Connect PROVE ControlTypeOK'
  BY <1>2 DEF Connect
<1>3. ASSUME RunMigration PROVE ControlTypeOK'
  BY <1>3 DEF RunMigration
<1>4. ASSUME Serve PROVE ControlTypeOK'
  BY <1>4 DEF Serve, dbDefined, backend
<1>5. ASSUME Signal PROVE ControlTypeOK'
  BY <1>5 DEF Signal, Stop
<1>6. ASSUME Expire PROVE ControlTypeOK'
  BY <1>6 DEF Expire
<1>7. ASSUME HTTPDrained PROVE ControlTypeOK'
  BY <1>7 DEF HTTPDrained, Stop
<1>8. ASSUME HTTPSDrained PROVE ControlTypeOK'
  BY <1>8 DEF HTTPSDrained, Stop
<1>9. ASSUME CloseQueue PROVE ControlTypeOK'
  BY <1>9 DEF CloseQueue, Ledger!Shut
<1>10. ASSUME QueueDrained PROVE ControlTypeOK'
  BY <1>10 DEF QueueDrained, Ledger!Drain
<1>11. ASSUME CloseDatabase PROVE ControlTypeOK'
  BY <1>11 DEF CloseDatabase
<1>12. ASSUME Exit PROVE ControlTypeOK'
  BY <1>12 DEF Exit, Kill
<1>13. ASSUME Restart PROVE ControlTypeOK'
  BY <1>13 DEF Restart, Kill
<1>14. ASSUME NEW l \in Listeners, Bind(l) PROVE ControlTypeOK'
  BY <1>14 DEF Bind
<1>15. ASSUME NEW c \in Calls, NEW l \in Listeners, Arrive(c, l) PROVE ControlTypeOK'
  BY <1>15 DEF Arrive
<1>16. ASSUME NEW c \in Calls, Offer(c) PROVE ControlTypeOK'
  BY <1>16 DEF Offer, Ledger!Accept, Ledger!TurnAway
<1>17. ASSUME NEW c \in Calls, Return(c) PROVE ControlTypeOK'
  BY <1>17 DEF Return
<1>18. ASSUME NEW c \in Calls, Store(c) PROVE ControlTypeOK'
  BY <1>18 DEF Store, Ledger!Settle
<1>19. ASSUME Finished \/ UNCHANGED vars PROVE ControlTypeOK'
  BY <1>19 DEF Finished, vars, booting, ledger, migrationVars
<1> QED BY <1>1, <1>2, <1>3, <1>4, <1>5, <1>6, <1>7, <1>8, <1>9, <1>10, <1>11, <1>12, <1>13, <1>14, <1>15, <1>16, <1>17, <1>18, <1>19 DEF Next, Boot, Shutdown

LEMMA DatabaseStep == ASSUME ControlTypeOK, DatabaseInv, [Next]_vars PROVE DatabaseInv'
<1> USE DEF ControlTypeOK, DatabaseInv, Early, Stages, booting, ledger, dbDefined, backend
<1>1. ASSUME Configure PROVE DatabaseInv'
  BY <1>1 DEF Configure
<1>2. ASSUME Connect PROVE DatabaseInv'
  BY <1>2 DEF Connect
<1>3. ASSUME RunMigration PROVE DatabaseInv'
  BY <1>3 DEF RunMigration
<1>4. ASSUME Serve PROVE DatabaseInv'
  BY <1>4 DEF Serve
<1>5. ASSUME Signal PROVE DatabaseInv'
  BY <1>5 DEF Signal, Stop
<1>6. ASSUME Expire PROVE DatabaseInv'
  BY <1>6 DEF Expire
<1>7. ASSUME HTTPDrained PROVE DatabaseInv'
  BY <1>7 DEF HTTPDrained, Stop
<1>8. ASSUME HTTPSDrained PROVE DatabaseInv'
  BY <1>8 DEF HTTPSDrained, Stop
<1>9. ASSUME CloseQueue PROVE DatabaseInv'
  BY <1>9 DEF CloseQueue, Ledger!Shut
<1>10. ASSUME QueueDrained PROVE DatabaseInv'
  BY <1>10 DEF QueueDrained, Ledger!Drain, Ledger!Outstanding
<1>11. ASSUME CloseDatabase PROVE DatabaseInv'
  BY <1>11 DEF CloseDatabase
<1>12. ASSUME Exit PROVE DatabaseInv'
  BY <1>12 DEF Exit, Kill
<1>13. ASSUME Restart PROVE DatabaseInv'
  BY <1>13 DEF Restart, Kill
<1>14. ASSUME NEW l \in Listeners, Bind(l) PROVE DatabaseInv'
  BY <1>14 DEF Bind
<1>15. ASSUME NEW c \in Calls, NEW l \in Listeners, Arrive(c, l) PROVE DatabaseInv'
  BY <1>15 DEF Arrive
<1>16. ASSUME NEW c \in Calls, Offer(c) PROVE DatabaseInv'
  BY <1>16 DEF Offer, Ledger!Accept, Ledger!TurnAway
<1>17. ASSUME NEW c \in Calls, Return(c) PROVE DatabaseInv'
  BY <1>17 DEF Return
<1>18. ASSUME NEW c \in Calls, Store(c) PROVE DatabaseInv'
  BY <1>18 DEF Store, Ledger!Settle
<1>19. ASSUME Finished \/ UNCHANGED vars PROVE DatabaseInv'
  BY <1>19 DEF Finished, vars, booting, ledger, migrationVars
<1> QED BY <1>1, <1>2, <1>3, <1>4, <1>5, <1>6, <1>7, <1>8, <1>9, <1>10, <1>11, <1>12, <1>13, <1>14, <1>15, <1>16, <1>17, <1>18, <1>19 DEF Next, Boot, Shutdown

LEMMA DrainStep == ASSUME ControlTypeOK, DrainInv, [Next]_vars PROVE DrainInv'
<1> USE DEF ControlTypeOK, DrainInv, Early, AfterHTTP, AfterHTTPS, Stages, Listeners, Running, booting
<1>1. ASSUME Configure PROVE DrainInv'
  BY <1>1 DEF Configure
<1>2. ASSUME Connect PROVE DrainInv'
  BY <1>2 DEF Connect
<1>3. ASSUME RunMigration PROVE DrainInv'
  BY <1>3 DEF RunMigration
<1>4. ASSUME Serve PROVE DrainInv'
  BY <1>4 DEF Serve
<1>5. ASSUME Signal PROVE DrainInv'
  BY <1>5 DEF Signal, Stop
<1>6. ASSUME Expire PROVE DrainInv'
  BY <1>6 DEF Expire
<1>7. ASSUME HTTPDrained PROVE DrainInv'
  BY <1>7 DEF HTTPDrained, Stop
<1>8. ASSUME HTTPSDrained PROVE DrainInv'
  BY <1>8 DEF HTTPSDrained, Stop
<1>9. ASSUME CloseQueue PROVE DrainInv'
  BY <1>9 DEF CloseQueue, Ledger!Shut
<1>10. ASSUME QueueDrained PROVE DrainInv'
  BY <1>10 DEF QueueDrained, Ledger!Drain
<1>11. ASSUME CloseDatabase PROVE DrainInv'
  BY <1>11 DEF CloseDatabase
<1>12. ASSUME Exit PROVE DrainInv'
  BY <1>12 DEF Exit, Kill
<1>13. ASSUME Restart PROVE DrainInv'
  BY <1>13 DEF Restart, Kill
<1>14. ASSUME NEW l \in Listeners, Bind(l) PROVE DrainInv'
  BY <1>14 DEF Bind
<1>15. ASSUME NEW c \in Calls, NEW l \in Listeners, Arrive(c, l) PROVE DrainInv'
  BY <1>15 DEF Arrive
<1>16. ASSUME NEW c \in Calls, Offer(c) PROVE DrainInv'
  BY <1>16 DEF Offer, Ledger!Accept, Ledger!TurnAway
<1>17. ASSUME NEW c \in Calls, Return(c) PROVE DrainInv'
  BY <1>17 DEF Return
<1>18. ASSUME NEW c \in Calls, Store(c) PROVE DrainInv'
  BY <1>18 DEF Store, Ledger!Settle
<1>19. ASSUME Finished \/ UNCHANGED vars PROVE DrainInv'
  BY <1>19 DEF Finished, vars, booting, ledger, migrationVars
<1> QED BY <1>1, <1>2, <1>3, <1>4, <1>5, <1>6, <1>7, <1>8, <1>9, <1>10, <1>11, <1>12, <1>13, <1>14, <1>15, <1>16, <1>17, <1>18, <1>19 DEF Next, Boot, Shutdown

(***************************************************************************)
(* The schema.                                                             *)
(***************************************************************************)

target == NewDatabase(ReadConfig(source.env, source.file))
Pending == {todo[i] : i \in 1..Len(todo)}

SchemaTypeOK ==
  /\ schema \in [tables : SUBSET Tables, columns : SUBSET Columns]
  /\ todo \in Seq(Statements)
  /\ inherited \in BOOLEAN
  /\ skipped \subseteq Columns

\* A column that an inherited table may lack although Migrate has gone past it.
Excused(c) ==
  \/ target = "postgres" /\ ~server.owner /\ c \in skipped
  \/ target = "sqlite" /\ server.faults /\ c \in skipped
  \/ target # "postgres" /\ c = "tls_version"

\* What Migrate has done so far, what it will never do, and in which stages it is
\* done with everything.
SchemaInv ==
  /\ stage # "start" => config = ReadConfig(source.env, source.file)
  /\ stage # "migrate" => todo = <<>>
  /\ recording => target # "none"
  /\ "http_requests" \in schema.tables /\ ~inherited => schema.columns = Columns
  /\ target # "postgres" => "tls_version" \notin Pending
  /\ stage \in Stages \ {"start", "connect", "fatal"} /\ target # "none" =>
       /\ Tables \subseteq schema.tables \cup Pending
       /\ \A c \in Columns : c \in schema.columns \cup Pending \/ Excused(c)

\* The statements left are those of the tail, and the first one.
LEMMA HeadAndTail ==
  ASSUME todo \in Seq(Statements), todo # <<>>, todo' = Tail(todo)
  PROVE  /\ Head(todo) \in Statements
         /\ todo' \in Seq(Statements)
         /\ Pending = Pending' \cup {Head(todo)}
<1>1. Len(todo) \in Nat \ {0} /\ Head(todo) = todo[1]
  OBVIOUS
<1>2. Head(todo) \in Statements
  BY <1>1
<1>3. todo' \in Seq(Statements) /\ Len(todo') = Len(todo) - 1
  OBVIOUS
<1>4. \A i \in 1..Len(todo') : todo'[i] = todo[i + 1]
  BY <1>3
<1>5. ASSUME NEW i \in 1..Len(todo), i # 1 PROVE todo[i] \in Pending'
  <2>1. PICK j \in 1..Len(todo') : i = j + 1
    BY <1>1, <1>3, <1>5
  <2>2. todo'[j] = todo[i]
    BY <1>4, <2>1
  <2> QED BY <2>2 DEF Pending
<1>6. Pending \subseteq Pending' \cup {Head(todo)}
  BY <1>1, <1>5 DEF Pending
<1>7. Pending' \subseteq Pending
  <2> SUFFICES ASSUME NEW i \in 1..Len(todo') PROVE todo'[i] \in Pending
    BY DEF Pending
  <2>1. i + 1 \in 1..Len(todo) /\ todo'[i] = todo[i + 1]
    BY <1>1, <1>3, <1>4
  <2> QED BY <2>1 DEF Pending
<1>8. Head(todo) \in Pending
  BY <1>1 DEF Pending
<1> QED BY <1>2, <1>3, <1>6, <1>7, <1>8

\* Every list names both tables and the columns it is meant to add, and only
\* PostgreSQL's the group of tls_version.
LEMMA MigrateList ==
  ASSUME NEW b
  PROVE  LET list == Migrate(b)
             named == {list[i] : i \in 1..Len(list)}
         IN  /\ list \in Seq(Statements)
             /\ Tables \cup {"has_cookies", "ja3"} \subseteq named
             /\ "tls_version" \in named <=> b = "postgres"
<1> DEFINE first == <<"ip_info", "http_requests", "indexes">>
           list == Migrate(b)
           named == {list[i] : i \in 1..Len(list)}
<1>1. first \in Seq(Statements) /\ Alters(b) \in Seq(Statements) /\ list = first \o Alters(b)
  <2>1. first \in Seq(Statements)
    BY DEF Statements, Tables
  <2>2. <<"tls_version", "has_cookies", "ja3">> \in Seq(Statements) /\ <<"has_cookies", "ja3">> \in Seq(Statements)
    BY DEF Statements, Columns
  <2>3. Alters(b) \in Seq(Statements)
    BY <2>2 DEF Alters
  <2> QED BY <2>1, <2>3 DEF Migrate
<1>2. /\ list \in Seq(Statements)
      /\ Len(list) = 3 + Len(Alters(b))
      /\ \A i \in 1..Len(list) : list[i] = IF i <= 3 THEN first[i] ELSE Alters(b)[i - 3]
  BY <1>1, ConcatProperties
<1>3. CASE b = "postgres"
  <2>1. Len(list) = 6 /\ list[1] = "ip_info" /\ list[2] = "http_requests"
        /\ list[4] = "tls_version" /\ list[5] = "has_cookies" /\ list[6] = "ja3"
    BY <1>2, <1>3 DEF Alters
  <2>2. \A i \in {1, 2, 4, 5, 6} : list[i] \in named
    BY <2>1
  <2> QED BY <1>2, <1>3, <2>1, <2>2 DEF Tables
<1>4. CASE b # "postgres"
  <2>1. Len(list) = 5 /\ list[1] = "ip_info" /\ list[2] = "http_requests" /\ list[3] = "indexes"
        /\ list[4] = "has_cookies" /\ list[5] = "ja3"
    BY <1>2, <1>4 DEF Alters
  <2>2. \A i \in {1, 2, 4, 5} : list[i] \in named
    BY <2>1
  <2>3. \A i \in 1..5 : list[i] # "tls_version"
    <3>1. \A i \in 1..5 : i = 1 \/ i = 2 \/ i = 3 \/ i = 4 \/ i = 5
      OBVIOUS
    <3> QED BY <2>1, <3>1
  <2>4. "tls_version" \notin named
    BY <2>1, <2>3
  <2> QED BY <1>2, <1>4, <2>2, <2>1, <2>4 DEF Tables
<1> QED BY <1>3, <1>4

\* A statement adds what it is about, and nothing is ever removed.
LEMMA ExecutedFacts ==
  ASSUME SchemaTypeOK, NEW s \in Statements
  PROVE  /\ Executed(s) \in [tables : SUBSET Tables, columns : SUBSET Columns]
         /\ schema.tables \subseteq Executed(s).tables
         /\ s \in Tables => s \in Executed(s).tables
         /\ s \in Columns => s \in Executed(s).columns
         /\ schema.columns \subseteq Executed(s).columns
         /\ "http_requests" \in Executed(s).tables =>
              "http_requests" \in schema.tables \/ Executed(s).columns = Columns
         /\ "http_requests" \in schema.tables => Executed(s).columns \subseteq schema.columns \cup {s}
<1> USE DEF SchemaTypeOK, Executed, Columns, Tables
<1>1. CASE s = "indexes"
  BY <1>1
<1>2. CASE s \in Columns
  BY <1>2
<1>3. CASE s = "ip_info"
  BY <1>3
<1>4. CASE s = "http_requests"
  BY <1>4
<1> QED BY <1>1, <1>2, <1>3, <1>4 DEF Statements

LEMMA SchemaInit == Init => SchemaTypeOK /\ SchemaInv
<1> SUFFICES ASSUME Init PROVE SchemaTypeOK /\ SchemaInv
  OBVIOUS
<1>1. /\ schema \in [tables : SUBSET Tables, columns : SUBSET Columns]
      /\ inherited = (schema.tables # {})
  BY DEF Init, Schemas
<1>2. todo = <<>> /\ skipped = {} /\ stage = "start" /\ ~recording
  BY DEF Init
<1>3. Pending = {}
  BY <1>2 DEF Pending
<1>4. SchemaTypeOK
  BY <1>1, <1>2 DEF SchemaTypeOK
<1>5. "http_requests" \in schema.tables => inherited
  BY <1>1
<1> QED BY <1>2, <1>3, <1>4, <1>5 DEF SchemaInv, Stages

LEMMA SchemaStep ==
  ASSUME ControlTypeOK, SchemaTypeOK, SchemaInv, DatabaseInv, [Next]_vars
  PROVE  SchemaTypeOK' /\ SchemaInv'
<1> USE DEF SchemaInv
<1>1. ASSUME Configure PROVE SchemaTypeOK' /\ SchemaInv'
  <2>1. /\ UNCHANGED <<source, schema, server, todo, inherited, skipped, recording>>
        /\ config' = ReadConfig(source.env, source.file)
        /\ stage' \in {"fatal", "ready", "connect"} /\ (stage' = "ready" => backend' = "none")
        /\ stage = "start"
    BY <1>1 DEF Configure, migrationVars, ledger
  <2>2. backend' = target /\ target' = target
    BY <2>1 DEF backend, target
  <2>3. todo' = <<>> /\ Pending' = Pending
    BY <2>1 DEF Pending
  <2> QED BY <2>1, <2>2, <2>3 DEF SchemaTypeOK, Stages
<1>2. ASSUME Connect PROVE SchemaTypeOK' /\ SchemaInv'
  <2>1. CASE stage' = "migrate"
    <3>1. backend = target /\ target' = target /\ UNCHANGED <<schema, server, inherited, skipped, recording, config>>
      BY <1>2 DEF Connect, backend, target, ledger
    <3>2. todo' = Migrate(target)
      BY <1>2, <2>1, <3>1 DEF Connect
    <3>3. /\ todo' \in Seq(Statements)
          /\ Tables \cup {"has_cookies", "ja3"} \subseteq Pending'
          /\ "tls_version" \in Pending' <=> target = "postgres"
      BY <3>2, MigrateList DEF Pending
    <3> QED BY <1>2, <2>1, <3>1, <3>3 DEF Connect, SchemaTypeOK, Excused, Columns, target
  <2>2. CASE stage' = "fatal"
    <3>1. UNCHANGED <<source, schema, server, todo, inherited, skipped, recording, config>>
      BY <1>2, <2>2 DEF Connect, ledger
    <3>2. target' = target /\ Pending' = Pending /\ stage = "connect"
      BY <1>2, <3>1 DEF Connect, target, Pending
    <3> QED BY <2>2, <3>1, <3>2 DEF SchemaTypeOK
  <2> QED BY <1>2, <2>1, <2>2 DEF Connect
<1>3. ASSUME RunMigration PROVE SchemaTypeOK' /\ SchemaInv'
  <2>1. backend = target /\ target' = target /\ UNCHANGED <<server, inherited, recording, config, source>> /\ stage = "migrate"
    BY <1>3 DEF RunMigration, Apply, Skip, Fails, backend, target, ledger
  <2>2. CASE Apply(backend)
    <3>1. todo # <<>> /\ schema' = Executed(Head(todo)) /\ todo' = Tail(todo) /\ skipped' = skipped
      BY <2>2 DEF Apply
    <3>2. Head(todo) \in Statements /\ todo' \in Seq(Statements) /\ Pending = Pending' \cup {Head(todo)}
      BY <3>1, HeadAndTail DEF SchemaTypeOK
    <3>3. /\ SchemaTypeOK'
          /\ schema.tables \subseteq schema'.tables
          /\ Head(todo) \in Tables => Head(todo) \in schema'.tables
          /\ Head(todo) \in Columns => Head(todo) \in schema'.columns
          /\ schema.columns \subseteq schema'.columns
          /\ "http_requests" \in schema'.tables =>
               "http_requests" \in schema.tables \/ schema'.columns = Columns
      BY <2>1, <3>1, <3>2, ExecutedFacts DEF SchemaTypeOK
    <3>4. stage' \in {"migrate", "ready", "fatal"} /\ (stage' # "migrate" => todo' = <<>>)
      BY <1>3, <2>1 DEF RunMigration, Fails
    <3>5. \A c \in Columns : Excused(c)' <=> Excused(c)
      BY <2>1, <3>1 DEF Excused
    <3>6. "http_requests" \in schema'.tables /\ ~inherited' => schema'.columns = Columns
      BY <2>1, <3>3 DEF SchemaTypeOK
    <3> QED BY <2>1, <3>2, <3>3, <3>4, <3>5, <3>6 DEF Stages
  <2>3. CASE Skip(backend)
    <3>1. /\ todo # <<>> /\ Skips(backend, Head(todo)) /\ todo' = Tail(todo) /\ schema' = schema
          /\ skipped' = skipped \cup ({Head(todo)} \cap Columns)
      BY <2>3 DEF Skip
    <3>2. Head(todo) \in Statements /\ todo' \in Seq(Statements) /\ Pending = Pending' \cup {Head(todo)}
      BY <3>1, HeadAndTail DEF SchemaTypeOK
    <3>3. /\ Head(todo) \in Tables => Head(todo) \in schema.tables
          /\ \A c \in Columns : c = Head(todo) => Excused(c)'
      BY <2>1, <3>1 DEF Skips, Denied, Excused, Columns, Tables
    <3>4. stage' \in {"migrate", "ready", "fatal"} /\ (stage' # "migrate" => todo' = <<>>)
      BY <1>3, <2>1 DEF RunMigration, Fails
    <3>5. \A c \in Columns : Excused(c) => Excused(c)'
      BY <2>1, <3>1 DEF Excused
    <3> QED BY <2>1, <3>1, <3>2, <3>3, <3>4, <3>5 DEF Stages, SchemaTypeOK
  <2>4. CASE Fails(backend) /\ stage' = "fatal"
    <3>1. todo' = <<>> /\ schema' = schema /\ skipped' = skipped
      BY <2>4 DEF Fails
    <3>2. Pending' = {}
      BY <3>1 DEF Pending
    <3> QED BY <2>1, <2>4, <3>1, <3>2 DEF SchemaTypeOK
  <2> QED BY <1>3, <2>2, <2>3, <2>4 DEF RunMigration
<1>4. ASSUME Serve PROVE SchemaTypeOK' /\ SchemaInv'
  <2>1. stage = "ready" /\ stage' = "serving" /\ recording' = (backend # "none")
        /\ UNCHANGED <<schema, server, todo, inherited, skipped, source, config>>
    BY <1>4 DEF Serve, booting, migrationVars, dbDefined
  <2>2. backend = target /\ target' = target /\ Pending' = Pending
    BY <2>1 DEF backend, target, Pending
  <2>3. \A c \in Columns : Excused(c)' <=> Excused(c)
    BY <2>1, <2>2 DEF Excused
  <2> QED BY <2>1, <2>2, <2>3 DEF Stages, SchemaTypeOK
<1>5. ASSUME Restart PROVE SchemaTypeOK' /\ SchemaInv'
  <2>1. /\ UNCHANGED <<source, schema, server, inherited>>
        /\ todo' = <<>> /\ skipped' = {} /\ stage' = "start" /\ recording' = FALSE
    BY <1>5 DEF Restart
  <2>2. Pending' = {} /\ target' = target
    BY <2>1 DEF Pending, target
  <2> QED BY <2>1, <2>2 DEF SchemaTypeOK, Stages
\* The other steps leave configuration and schema alone, and Serve behind.
<1>6. ASSUME UNCHANGED <<source, config, migrationVars, recording>>,
             stage' = stage \/ (stage \notin Early /\ stage' \in Stages \ Early)
      PROVE  SchemaTypeOK' /\ SchemaInv'
  <2> USE DEF migrationVars
  <2>1. target' = target /\ Pending' = Pending
    BY <1>6 DEF target, Pending
  <2>2. \A c \in Columns : Excused(c)' <=> Excused(c)
    BY <1>6, <2>1 DEF Excused
  <2> QED BY <1>6, <2>1, <2>2 DEF Stages, SchemaTypeOK, Early, ControlTypeOK
<1>7. ASSUME \/ Signal \/ HTTPDrained \/ HTTPSDrained \/ CloseQueue \/ QueueDrained \/ CloseDatabase \/ Exit
      PROVE  SchemaTypeOK' /\ SchemaInv'
  <2>1. UNCHANGED <<source, config, migrationVars, recording>>
    BY <1>7 DEF Signal, HTTPDrained, HTTPSDrained, CloseQueue, QueueDrained, CloseDatabase, Exit,
                booting, ledger, migrationVars, Ledger!Shut, Ledger!Drain
  <2>2. stage \notin Early /\ stage' \in Stages \ Early
    BY <1>7 DEF Signal, HTTPDrained, HTTPSDrained, CloseQueue, QueueDrained, CloseDatabase, Exit, Early, Stages
  <2> QED BY <2>1, <2>2, <1>6
<1>8. ASSUME \/ Expire \/ (\E l \in Listeners : Bind(l))
             \/ (\E c \in Calls : Offer(c) \/ Return(c) \/ Store(c) \/ \E l \in Listeners : Arrive(c, l))
             \/ Finished \/ UNCHANGED vars
      PROVE  SchemaTypeOK' /\ SchemaInv'
  <2>1. UNCHANGED <<source, config, migrationVars, recording, stage>>
    BY <1>8 DEF Expire, Bind, Offer, Return, Store, Arrive, Finished, vars, booting, ledger, migrationVars,
                Ledger!Accept, Ledger!TurnAway, Ledger!Settle
  <2> QED BY <2>1, <1>6
<1> QED BY <1>1, <1>2, <1>3, <1>4, <1>5, <1>7, <1>8 DEF Next, Boot, Shutdown

(***************************************************************************)
(* The theorems.                                                           *)
(***************************************************************************)

LEMMA ControlInit == Init => ControlTypeOK /\ DatabaseInv /\ DrainInv
<1> SUFFICES ASSUME Init PROVE ControlTypeOK /\ DatabaseInv /\ DrainInv
  OBVIOUS
<1> USE DEF Init
<1>1. ControlTypeOK
  BY DEF ControlTypeOK, Stages, Listeners
<1>2. DatabaseInv
  BY DEF DatabaseInv, Early
<1>3. DrainInv
  BY DEF DrainInv, Early, AfterHTTP, AfterHTTPS, Running, Listeners
<1> QED BY <1>1, <1>2, <1>3

\* The strengthened invariant of startup and shutdown.
IInv == ControlTypeOK /\ DatabaseInv /\ DrainInv /\ SchemaTypeOK /\ SchemaInv

THEOREM Inductive == Spec => []IInv
<1>1. Init => IInv
  BY ControlInit, SchemaInit DEF IInv
<1>2. IInv /\ [Next]_vars => IInv'
  BY ControlTypeStep, DatabaseStep, DrainStep, SchemaStep DEF IInv
<1> QED BY <1>1, <1>2, PTL DEF Spec

\* From the first request to the last step of cleanup, crashes and restarts
\* included, a record QueueStore has accepted finds the database open.
THEOREM RecordsFindDatabase == Spec => []DatabaseOutlivesRecords
<1>1. IInv => DatabaseOutlivesRecords
  BY DEF IInv, ControlTypeOK, DatabaseInv, DatabaseOutlivesRecords
<1> QED BY <1>1, Inductive, PTL

\* cleanup closes the database under a handler of HTTP or HTTPS only if the
\* deadline of the two Shutdown calls has passed.
THEOREM ShutdownIsGraceful == Spec => []HandlersFindDatabase
<1>1. IInv => HandlersFindDatabase
  BY DEF IInv, DatabaseInv, DrainInv, HandlersFindDatabase, AfterHTTP, AfterHTTPS, Running
<1> QED BY <1>1, Inductive, PTL

\* Whatever tables the process finds, whatever interrupted or refused its
\* migration before, and on every backend: it records only over both tables. A
\* table it made itself has every column. One it found lacks at most what this
\* start was denied by PostgreSQL or failed to add on SQLite, and the group of
\* columns that only PostgreSQL's list adds.
THEOREM MigrationIsComplete == Spec => []RecordsOverSchema
<1>1. IInv => RecordsOverSchema
  <2> SUFFICES ASSUME IInv, recording PROVE RecordsOverSchema
    BY DEF RecordsOverSchema
  <2>1. stage \in Stages \ Early /\ target # "none"
    BY DEF IInv, ControlTypeOK, DatabaseInv, SchemaInv
  <2>2. backend = target /\ todo = <<>>
    BY <2>1 DEF IInv, SchemaInv, backend, target, Early
  <2>3. Pending = {}
    BY <2>2 DEF Pending
  <2>4. /\ Tables \subseteq schema.tables
        /\ \A c \in Columns : c \in schema.columns \/ Excused(c)
    BY <2>1, <2>3 DEF IInv, SchemaInv, Early
  <2>5. ~inherited => schema.columns = Columns
    BY <2>4 DEF IInv, SchemaInv, Tables
  <2>6. schema \in [tables : SUBSET Tables, columns : SUBSET Columns] /\ inherited \in BOOLEAN
    BY DEF IInv, SchemaTypeOK
  <2> QED BY <2>2, <2>4, <2>5, <2>6 DEF RecordsOverSchema, Excused
<1> QED BY <1>1, Inductive, PTL

\* The last exception is no accident of one start: SQLite's and MariaDB's lists
\* never add the group of tls_version to a table that lacks it, however often
\* Migrate succeeds.
THEOREM GapStays ==
  Spec => [][/\ NewDatabase(ReadConfig(source.env, source.file)) # "postgres"
             /\ "http_requests" \in schema.tables /\ "tls_version" \notin schema.columns
             => "tls_version" \notin schema'.columns]_vars
<1> DEFINE Gap == /\ target # "postgres"
                  /\ "http_requests" \in schema.tables /\ "tls_version" \notin schema.columns
<1>1. ASSUME IInv, Next, Gap PROVE "tls_version" \notin schema'.columns
  <2>1. CASE RunMigration /\ Apply(backend)
    <3>1. todo # <<>> /\ schema' = Executed(Head(todo)) /\ todo' = Tail(todo) /\ todo \in Seq(Statements)
      BY <1>1, <2>1 DEF Apply, IInv, SchemaTypeOK
    <3>2. Head(todo) \in Statements /\ Head(todo) \in Pending
      BY <3>1, HeadAndTail
    <3>3. Head(todo) # "tls_version"
      BY <1>1, <3>2 DEF IInv, SchemaInv
    <3> QED BY <1>1, <3>1, <3>2, <3>3, ExecutedFacts DEF IInv
  <2>2. CASE ~(RunMigration /\ Apply(backend))
    <3>1. schema' = schema
      BY <1>1, <2>2 DEF Next, Boot, Shutdown, Configure, Connect, RunMigration, Skip, Fails, Serve, Signal,
         HTTPDrained, HTTPSDrained, CloseQueue, QueueDrained, CloseDatabase, Exit, Expire, Restart, Finished,
         Bind, Offer, Return, Store, Arrive, vars, booting, migrationVars
    <3> QED BY <1>1, <3>1
  <2> QED BY <2>1, <2>2
<1>2. IInv /\ Next => (Gap => "tls_version" \notin schema'.columns)
  BY <1>1
<1> QED BY <1>2, Inductive, PTL DEF Spec, target

(***************************************************************************)
(* The types, and the settings.                                            *)
(***************************************************************************)

\* The variables the other invariants do not need the type of.
BootTypeOK ==
  /\ source \in Sources
  /\ config = Unloaded \/ config = ReadConfig(source.env, source.file)
  /\ starts \in 1..MaxStarts
  /\ server \in UNION {Servers(b) : b \in {"none", "sqlite", "postgres", "mariadb"}}

LEMMA BackendIs ==
  ASSUME NEW c
  PROVE  NewDatabase(c) \in {"none", "sqlite", "postgres", "mariadb", "error"}
<1> DEFINE type == IF c.dbType # "" THEN c.dbType
                   ELSE IF c.conn # "" THEN "postgres"
                   ELSE IF c.path # "" THEN "sqlite" ELSE ""
<1>1. NewDatabase(c) =
        CASE type = "" -> "none"
          [] type = "sqlite" -> "sqlite"
          [] type \in {"postgres", "postgresql"} /\ c.conn # "" -> "postgres"
          [] type \in {"mariadb", "mysql"} /\ c.conn # "" -> "mariadb"
          [] OTHER -> "error"
  BY Zenon DEF NewDatabase
<1> HIDE DEF type
<1> QED BY <1>1

LEMMA BootTypeInit == Init => BootTypeOK
<1> SUFFICES ASSUME Init PROVE BootTypeOK
  OBVIOUS
<1>1. target \in {"none", "sqlite", "postgres", "mariadb", "error"} /\ server \in Servers(target)
  BY BackendIs DEF Init, target
<1>2. Servers("error") = Servers("none")
  BY DEF Servers, Only
<1>3. server \in UNION {Servers(b) : b \in {"none", "sqlite", "postgres", "mariadb"}}
  BY <1>1, <1>2
<1> QED BY <1>3, LifecycleAssumption DEF Init, BootTypeOK

LEMMA BootTypeStep == ASSUME BootTypeOK, [Next]_vars PROVE BootTypeOK'
<1>1. ASSUME UNCHANGED <<source, server>>, UNCHANGED starts \/ starts' \in 1..MaxStarts,
             UNCHANGED config \/ config' = ReadConfig(source.env, source.file) \/ config' = Unloaded
      PROVE  BootTypeOK'
  BY <1>1 DEF BootTypeOK
<1>2. CASE Configure
  BY <1>1, <1>2 DEF Configure, migrationVars
<1>3. CASE Connect \/ RunMigration
  BY <1>1, <1>3 DEF Connect, RunMigration, Apply, Skip, Fails
<1>4. CASE Restart
  BY <1>1, <1>4, LifecycleAssumption DEF Restart, BootTypeOK
<1>5. CASE UNCHANGED booting
  BY <1>1, <1>5 DEF booting, migrationVars
<1>6. [Next]_vars => Configure \/ Connect \/ RunMigration \/ Restart \/ UNCHANGED booting
  BY DEF Next, Boot, Shutdown, Serve, Signal, Expire, HTTPDrained, HTTPSDrained, CloseQueue,
         QueueDrained, CloseDatabase, Exit, Finished, Bind, Offer, Return, Store, Arrive, vars
<1> QED BY <1>2, <1>3, <1>4, <1>5, <1>6

\* Every variable of startup and shutdown keeps its type, through any number of
\* crashes and restarts.
THEOREM TypeCorrect == Spec => []TypeOK
<1>1. Spec => []BootTypeOK
  BY BootTypeInit, BootTypeStep, PTL DEF Spec
<1>2. IInv /\ BootTypeOK => TypeOK
  BY DEF IInv, ControlTypeOK, SchemaTypeOK, BootTypeOK, TypeOK, MigrationTypeOK
<1> QED BY <1>1, <1>2, Inductive, PTL

LEMMA DefaultIsConfig == GetDefaultConfig \in Configs
<1> DEFINE none == ""
<1>1. none \in STRING
  BY ConfigAssumption
<1>2. GetDefaultConfig = [http |-> 8080, https |-> 443, listenPort |-> 0,
                          dbType |-> none, path |-> none, conn |-> none]
  BY DEF GetDefaultConfig
<1> HIDE DEF none
<1> QED BY <1>1, <1>2 DEF Configs

\* The variables only ever add to the document.
LEMMA OverridesKeep ==
  ASSUME NEW c \in Configs, NEW env \in Environments
  PROVE  /\ applyEnvironmentOverrides(c, env) \in Configs
         /\ applyEnvironmentOverrides(c, env).dbType = Text(c.dbType, env.IPTHING_DB_TYPE)
         /\ applyEnvironmentOverrides(c, env).path = Text(c.path, env.IPTHING_SQLITE_PATH)
         /\ applyEnvironmentOverrides(c, env).conn = Text(c.conn, env.IPTHING_POSTGRES_URL)
<1>1. \A p \in Int, ps \in SUBSET Int : Port(p, ps) \in Int
  BY DEF Port
<1>2. \A t, u \in STRING : Text(t, u) \in STRING
  BY DEF Text
<1>3. /\ Port(c.http, env.IPTHING_HTTP_PORT) \in Int
      /\ Port(c.https, env.IPTHING_HTTPS_PORT) \in Int
  BY <1>1 DEF Configs, Environments, PortVariable
<1>4. /\ Text(c.dbType, env.IPTHING_DB_TYPE) \in STRING
      /\ Text(c.path, env.IPTHING_SQLITE_PATH) \in STRING
      /\ Text(c.conn, env.IPTHING_POSTGRES_URL) \in STRING
  BY <1>2 DEF Configs, Environments
<1> QED BY <1>3, <1>4 DEF applyEnvironmentOverrides, Configs

\* DATABASE_URL is followed by a database, and the legacy port changes none of this.
LEMMA LegacyKeeps ==
  ASSUME NEW c \in Configs, NEW env \in Environments
  PROVE  LET d == handleLegacyPortConfig(applyLegacyEnvironmentVariables(c, env))
         IN  /\ c.conn = "" /\ env.DATABASE_URL # "" => d.dbType = "postgres"
             /\ ~(c.conn = "" /\ env.DATABASE_URL # "") =>
                  d.dbType = c.dbType /\ d.path = c.path /\ d.conn = c.conn
<1> DEFINE e == applyLegacyEnvironmentVariables(c, env)
<1>1. /\ e \in Configs
      /\ c.conn = "" /\ env.DATABASE_URL # "" => e.dbType = "postgres"
      /\ ~(c.conn = "" /\ env.DATABASE_URL # "") => e = c
  BY ConfigAssumption DEF applyLegacyEnvironmentVariables, Configs, Environments
<1> HIDE DEF e
<1>2. LET d == handleLegacyPortConfig(e)
      IN  d.dbType = e.dbType /\ d.path = e.path /\ d.conn = e.conn
  BY <1>1 DEF handleLegacyPortConfig, Configs
<1> QED BY <1>1, <1>2 DEF e

LEMMA NoneMeansNone ==
  ASSUME NEW c, NewDatabase(c) = "none"
  PROVE  c.dbType = "" /\ c.conn = "" /\ c.path = ""
<1> DEFINE type == IF c.dbType # "" THEN c.dbType
                   ELSE IF c.conn # "" THEN "postgres"
                   ELSE IF c.path # "" THEN "sqlite" ELSE ""
<1>1. "none" =
        CASE type = "" -> "none"
          [] type = "sqlite" -> "sqlite"
          [] type \in {"postgres", "postgresql"} /\ c.conn # "" -> "postgres"
          [] type \in {"mariadb", "mysql"} /\ c.conn # "" -> "mariadb"
          [] OTHER -> "error"
  BY Zenon DEF NewDatabase
<1>2. type = ""
  <2> HIDE DEF type
  <2> QED BY <1>1
<1> QED BY <1>2

\* Whatever the environment and the documents say: only when no variable names a
\* database, and no document that could be decoded, does the service run without one.
THEOREM UnrecordedByChoice == Spec => []NeverSilentlyUnrecorded
<1>1. IInv /\ BootTypeOK => NeverSilentlyUnrecorded
  <2> SUFFICES ASSUME IInv, BootTypeOK, stage = "serving", ~dbDefined
               PROVE  NeverSilentlyUnrecorded
    BY DEF NeverSilentlyUnrecorded
  <2> DEFINE env == source.env
             loaded == loadConfigFromSources(env, source.file)
             base == IF loaded = Malformed THEN GetDefaultConfig ELSE loaded
             over == applyEnvironmentOverrides(base, env)
             final == handleLegacyPortConfig(applyLegacyEnvironmentVariables(over, env))
  <2>1. env \in Environments /\ source.file \in Documents
    BY LifecycleAssumption DEF BootTypeOK
  <2>2. GetDefaultConfig \in Configs
    BY DefaultIsConfig
  <2>3. loaded \in Configs \cup {Malformed}
    BY <2>1, <2>2 DEF loadConfigFromSources, Environments, Documents
  <2>4. base \in Configs /\ (loaded # Malformed => base = loaded)
    BY <2>2, <2>3
  <2>5. NewDatabase(final) = "none"
    BY DEF IInv, SchemaInv, dbDefined, backend, ReadConfig
  <2> HIDE DEF env, loaded, base, over, final
  <2>6. final.dbType = "" /\ final.conn = "" /\ final.path = ""
    BY <2>5, NoneMeansNone
  <2>7. over \in Configs
        /\ over.dbType = Text(base.dbType, env.IPTHING_DB_TYPE)
        /\ over.path = Text(base.path, env.IPTHING_SQLITE_PATH)
        /\ over.conn = Text(base.conn, env.IPTHING_POSTGRES_URL)
    BY <2>1, <2>4, OverridesKeep DEF over
  <2>8. /\ ~(over.conn = "" /\ env.DATABASE_URL # "")
        /\ over.dbType = "" /\ over.path = "" /\ over.conn = ""
    BY <2>1, <2>6, <2>7, LegacyKeeps DEF final
  <2>9. {env.IPTHING_DB_TYPE, env.IPTHING_SQLITE_PATH, env.IPTHING_POSTGRES_URL,
         env.DATABASE_URL} = {""}
    BY <2>7, <2>8 DEF Text
  <2>10. {base.dbType, base.path, base.conn} = {""}
    BY <2>7, <2>8 DEF Text
  <2> QED BY <2>4, <2>9, <2>10 DEF NeverSilentlyUnrecorded, env, loaded
<1>2. Spec => []BootTypeOK
  BY BootTypeInit, BootTypeStep, PTL DEF Spec
<1> QED BY <1>1, <1>2, Inductive, PTL
\* DATABASE_URL overrules IPTHING_DB_TYPE only where nothing else says which
\* database to connect to, in every environment and with every document.
THEOREM LegacyURLComesLast == Spec => []LegacyURLIsLastResort
<1>1. BootTypeOK => LegacyURLIsLastResort
  <2> DEFINE env == source.env
             loaded == loadConfigFromSources(env, source.file)
             conn == IF env.IPTHING_POSTGRES_URL # "" THEN env.IPTHING_POSTGRES_URL
                     ELSE IF loaded = Malformed THEN "" ELSE loaded.conn
             base == IF loaded = Malformed THEN GetDefaultConfig ELSE loaded
             over == applyEnvironmentOverrides(base, env)
             final == handleLegacyPortConfig(applyLegacyEnvironmentVariables(over, env))
  <2> SUFFICES ASSUME BootTypeOK, config # Unloaded, conn # ""
               PROVE  /\ config.conn = conn
                      /\ env.IPTHING_DB_TYPE # "" => config.dbType = env.IPTHING_DB_TYPE
    BY Zenon DEF LegacyURLIsLastResort
  <2>1. env \in Environments /\ source.file \in Documents
    BY LifecycleAssumption DEF BootTypeOK
  <2>2. GetDefaultConfig \in Configs /\ GetDefaultConfig.conn = ""
    <3>1. GetDefaultConfig.conn = ""
      BY DEF GetDefaultConfig
    <3> QED BY <3>1, DefaultIsConfig
  <2>3. loaded \in Configs \cup {Malformed}
    BY <2>1, <2>2 DEF loadConfigFromSources, Environments, Documents
  <2>4. base \in Configs /\ conn = Text(base.conn, env.IPTHING_POSTGRES_URL)
    BY <2>2, <2>3 DEF Text
  <2>5. config = final
    BY DEF BootTypeOK, ReadConfig
  <2> HIDE DEF env, loaded, conn, base, over, final
  <2>6. /\ over \in Configs /\ over.conn = conn
        /\ over.dbType = Text(base.dbType, env.IPTHING_DB_TYPE)
    BY <2>1, <2>4, OverridesKeep DEF over
  <2>7. final.conn = over.conn /\ final.dbType = over.dbType
    BY <2>1, <2>6, LegacyKeeps DEF final
  <2> QED BY <2>5, <2>6, <2>7 DEF Text
<1>2. Spec => []BootTypeOK
  BY BootTypeInit, BootTypeStep, PTL DEF Spec
<1> QED BY <1>1, <1>2, PTL
\* A port variable holds the port it is set to.
LEMMA PortIs ==
  ASSUME NEW s \in PortVariable, NEW p \in s, NEW old
  PROVE  Port(old, s) = p
<1>1. s # {} /\ (CHOOSE x \in s : TRUE) \in s
  OBVIOUS
<1>2. (CHOOSE x \in s : TRUE) = p
  BY <1>1 DEF PortVariable
<1> QED BY <1>1, <1>2 DEF Port

\* The ports the sources lead to, before startServers fills in its defaults.
LEMMA PortsAre ==
  ASSUME NEW c \in Configs, NEW env \in Environments
  PROVE  LET over == applyEnvironmentOverrides(c, env)
             d == handleLegacyPortConfig(applyLegacyEnvironmentVariables(over, env))
             http == Port(c.http, env.IPTHING_HTTP_PORT)
             https == Port(c.https, env.IPTHING_HTTPS_PORT)
         IN  /\ {http, https, c.listenPort} \subseteq Int
             /\ d.http = IF c.listenPort > 0 /\ http <= 0 THEN c.listenPort ELSE http
             /\ d.https = IF c.listenPort > 0 /\ https <= 0 THEN c.listenPort ELSE https
<1> DEFINE over == applyEnvironmentOverrides(c, env)
           e == applyLegacyEnvironmentVariables(over, env)
           http == Port(c.http, env.IPTHING_HTTP_PORT)
           https == Port(c.https, env.IPTHING_HTTPS_PORT)
<1>1. /\ over \in Configs
      /\ over.http = http /\ over.https = https /\ over.listenPort = c.listenPort
  <2>1. over \in Configs
    BY OverridesKeep
  <2> QED BY <2>1 DEF applyEnvironmentOverrides, Configs
<1> HIDE DEF over, http, https
<1>2. /\ e \in Configs
      /\ e.http = http /\ e.https = https /\ e.listenPort = c.listenPort
  BY <1>1, ConfigAssumption DEF applyLegacyEnvironmentVariables, Configs, Environments
<1> HIDE DEF e
<1>3. LET d == handleLegacyPortConfig(e)
      IN  /\ d.http = IF e.listenPort > 0 /\ e.http <= 0 THEN e.listenPort ELSE e.http
          /\ d.https = IF e.listenPort > 0 /\ e.https <= 0 THEN e.listenPort ELSE e.https
  BY <1>2 DEF handleLegacyPortConfig, Configs
<1>4. {e.http, e.https, e.listenPort} \subseteq Int
  BY <1>2 DEF Configs
<1> QED BY <1>2, <1>3, <1>4 DEF over, e, http, https

\* For every environment and document: a port that a variable sets is listened on,
\* and HTTPS and HTTP/3 set to 0 are never started, unless the document has a
\* legacy listenPort, through every stage, crash and restart.
THEOREM PortsAreKept == Spec => []PortsAreAsAsked
<1>1. IInv /\ BootTypeOK => PortsAreAsAsked
  <2> DEFINE env == source.env
             loaded == loadConfigFromSources(env, source.file)
             legacy == IF loaded = Malformed THEN 0 ELSE loaded.listenPort
             base == IF loaded = Malformed THEN GetDefaultConfig ELSE loaded
             http == Port(base.http, env.IPTHING_HTTP_PORT)
             https == Port(base.https, env.IPTHING_HTTPS_PORT)
             Asked ==
               /\ \A p \in env.IPTHING_HTTP_PORT : p > 0 => HTTPPort(config) = p
               /\ \A p \in env.IPTHING_HTTPS_PORT :
                    /\ p > 0 => HTTPSPort(config) = p /\ HTTPSEnabled(config)
                    /\ p = 0 /\ legacy <= 0 => listener["https"] = "down" /\ listener["h3"] = "down"
  <2> SUFFICES ASSUME IInv, BootTypeOK, config # Unloaded PROVE Asked
    BY Zenon DEF PortsAreAsAsked
  <2>1. env \in Environments /\ source.file \in Documents
    BY LifecycleAssumption DEF BootTypeOK
  <2>2. GetDefaultConfig \in Configs /\ GetDefaultConfig.listenPort = 0
    <3>1. GetDefaultConfig.listenPort = 0
      BY DEF GetDefaultConfig
    <3> QED BY <3>1, DefaultIsConfig
  <2>3. loaded \in Configs \cup {Malformed}
    BY <2>1, <2>2 DEF loadConfigFromSources, Environments, Documents
  <2>4. base \in Configs /\ legacy = base.listenPort
    BY <2>2, <2>3
  <2>5. config = handleLegacyPortConfig(
                   applyLegacyEnvironmentVariables(applyEnvironmentOverrides(base, env), env))
    BY DEF BootTypeOK, ReadConfig
  <2>6. ~HTTPSEnabled(config) => listener["https"] = "down" /\ listener["h3"] = "down"
    BY DEF IInv, DrainInv
  <2> HIDE DEF env, loaded, legacy, base
  <2>7. /\ {http, https, base.listenPort} \subseteq Int
        /\ config.http = IF base.listenPort > 0 /\ http <= 0 THEN base.listenPort ELSE http
        /\ config.https = IF base.listenPort > 0 /\ https <= 0 THEN base.listenPort ELSE https
    BY <2>1, <2>4, <2>5, PortsAre
  <2>8. /\ \A p \in env.IPTHING_HTTP_PORT : http = p
        /\ \A p \in env.IPTHING_HTTPS_PORT : https = p
    BY <2>1, PortIs DEF Environments
  <2> HIDE DEF http, https
  <2> QED BY <2>4, <2>6, <2>7, <2>8 DEF HTTPPort, HTTPSPort, HTTPSEnabled
<1>2. Spec => []BootTypeOK
  BY BootTypeInit, BootTypeStep, PTL DEF Spec
<1> QED BY <1>1, <1>2, Inductive, PTL
===============================================================================
