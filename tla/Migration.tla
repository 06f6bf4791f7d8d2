------------------------------- MODULE Migration -------------------------------
(***************************************************************************)
(* Migrate of the three SQL backends (database_sqlite.go,                  *)
(* database_postgres.go, database_mariadb.go): a list of DDL statements    *)
(* run one by one, without a transaction, over the schema an earlier       *)
(* version or an interrupted start has left.                               *)
(*                                                                         *)
(* Three columns of http_requests stand for all that the lists add:        *)
(* tls_version for those on PostgreSQL's list only, tls_version to body,   *)
(* has_cookies and ja3 for those on every list.                            *)
(***************************************************************************)
EXTENDS Integers, Sequences

VARIABLES
  schema,     \* [tables, columns]: the tables, and http_requests' later columns
  server,     \* what the database server allows
  todo,       \* the statements Migrate has still to run
  inherited,  \* http_requests was there before the first start (history)
  skipped     \* the columns whose ALTER this start has gone past in vain (history)

migrationVars == <<schema, server, todo, inherited, skipped>>

Tables == {"ip_info", "http_requests"}
Columns == {"tls_version", "has_cookies", "ja3"}
Statements == Tables \cup {"indexes"} \cup Columns

\* create: CREATE on the schema, owner: ownership of the tables (PostgreSQL);
\* multi: the DSN sets multiStatements (MariaDB); faults: statements may fail for
\* other reasons, a lock or the network.
Only(condition) == IF condition THEN BOOLEAN ELSE {TRUE}
Servers(backend) ==
  [create : Only(backend = "postgres"), owner : Only(backend = "postgres"),
   multi : Only(backend = "mariadb"), faults : BOOLEAN]

\* Broken form: a new column was forgotten in MariaDB's list.
AltersForgetting(backend) ==
  CASE backend = "postgres" -> <<"tls_version", "has_cookies", "ja3">>
    [] backend = "mariadb"  -> <<"has_cookies">>
    [] OTHER                -> <<"has_cookies", "ja3">>

Alters(backend) ==
  IF backend = "postgres" THEN <<"tls_version", "has_cookies", "ja3">>
                          ELSE <<"has_cookies", "ja3">>

Migrate(backend) == <<"ip_info", "http_requests", "indexes">> \o Alters(backend)

\* A database nobody has migrated yet, or one with tables from elsewhere: an earlier
\* version, or DDL run by hand. Nothing says which columns such a table has, so it
\* may lack any of them, on every backend, whatever that backend's list adds.
Schemas ==
  {[tables |-> {}, columns |-> {}]} \cup [tables : {Tables}, columns : SUBSET Columns]

MigrationTypeOK ==
  /\ schema \in [tables : SUBSET Tables, columns : SUBSET Columns]
  /\ server \in UNION {Servers(b) : b \in {"none", "sqlite", "postgres", "mariadb"}}
  /\ todo \in Seq(Statements)
  /\ inherited \in BOOLEAN
  /\ skipped \subseteq Columns

\* CREATE TABLE, CREATE INDEX and ADD COLUMN are no-ops when the thing is there,
\* except that SQLite refuses to add a column twice and ignores that.
Executed(s) ==
  CASE s = "indexes" -> schema
    [] s \in Columns -> [schema EXCEPT !.columns = @ \cup {s}]
    [] s = "ip_info" -> [schema EXCEPT !.tables = @ \cup {s}]
    [] s = "http_requests" ->
         [tables |-> schema.tables \cup {s},
          columns |-> IF s \in schema.tables THEN schema.columns ELSE Columns]

\* insufficient_privilege, which PostgreSQL reports before it looks whether there
\* is anything to do: creating takes CREATE on the schema, and touching a table,
\* for an index too, its ownership.
Denied(backend, s) ==
  /\ backend = "postgres"
  /\ (s \notin Columns /\ ~server.create) \/ (s \notin Tables /\ ~server.owner)

\* MariaDB takes the three CREATE INDEX of one Exec only from a DSN that says so.
Refused(backend, s) == backend = "mariadb" /\ s = "indexes" /\ ~server.multi

\* Broken form: a denied CREATE TABLE is skipped without asking for the table.
SkipsUnverified(backend, s) ==
  \/ Denied(backend, s)
  \/ backend = "sqlite" /\ s \in Columns /\ server.faults

\* The errors Migrate goes on after: on PostgreSQL a missing privilege, provided
\* the table exists (handleSchemaDDLError); on SQLite any error of an ALTER.
Skips(backend, s) ==
  \/ Denied(backend, s) /\ (s \in Tables => s \in schema.tables)
  \/ backend = "sqlite" /\ s \in Columns /\ server.faults

\* A statement takes effect.
Apply(backend) ==
  /\ todo # <<>>
  /\ ~Denied(backend, Head(todo)) /\ ~Refused(backend, Head(todo))
  /\ schema' = Executed(Head(todo))
  /\ todo' = Tail(todo)
  /\ UNCHANGED <<server, inherited, skipped>>

\* A statement fails and Migrate goes on.
Skip(backend) ==
  /\ todo # <<>>
  /\ Skips(backend, Head(todo))
  /\ todo' = Tail(todo)
  /\ skipped' = skipped \cup ({Head(todo)} \cap Columns)
  /\ UNCHANGED <<schema, server, inherited>>

\* A statement fails, or the query for an existing table does, and Migrate
\* returns the error.
Fails(backend) ==
  /\ todo # <<>>
  /\ LET s == Head(todo)
     IN  \/ (Denied(backend, s) /\ ~Skips(backend, s)) \/ Refused(backend, s)
         \/ server.faults /\ ~(backend = "sqlite" /\ s \in Columns)
  /\ todo' = <<>>
  /\ UNCHANGED <<schema, server, inherited, skipped>>
===============================================================================
