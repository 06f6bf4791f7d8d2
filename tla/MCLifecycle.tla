----------------------------- MODULE MCLifecycle -----------------------------
(* Two requests, one restart, and a start from each kind of source.          *)
EXTENDS Lifecycle, TLC

\* An environment with one document and some variables set.
Env(json, set) ==
  set @@ [IPTHING_CONFIG |-> json, IPTHING_DB_TYPE |-> "", IPTHING_SQLITE_PATH |-> "",
          IPTHING_POSTGRES_URL |-> "", DATABASE_URL |-> "",
          IPTHING_HTTP_PORT |-> {}, IPTHING_HTTPS_PORT |-> {}]

Json(set) == set @@ [http |-> 0, https |-> 0, listenPort |-> 0, dbType |-> "", path |-> "", conn |-> ""]

Start(env, file) == [env |-> env, file |-> file]

MCSources == {
  \* nothing at all: the defaults, no database
  Start(Env(Missing, <<>>), Missing),
  \* a document without ports, HTTP on its default and no HTTPS; its path selects SQLite
  Start(Env(Missing, <<>>), Json([path |-> "file"])),
  \* a document that cannot be decoded, and a database type without its DSN
  Start(Env(Malformed, [IPTHING_DB_TYPE |-> "postgresql"]), Json([path |-> "file"])),
  \* SQLite asked for by name, next to a DATABASE_URL: PostgreSQL, and both TCP
  \* listeners on the legacy port of the document
  Start(Env(Missing, "IPTHING_DB_TYPE" :> "sqlite" @@ "DATABASE_URL" :> "dsn"),
        Json([listenPort |-> 1323])),
  \* MariaDB next to a DATABASE_URL, HTTPS switched off and HTTP moved by a variable
  Start(Env(Json([http |-> 80, https |-> 443]),
            "IPTHING_DB_TYPE" :> "mysql" @@ "IPTHING_POSTGRES_URL" :> "dsn"
              @@ "DATABASE_URL" :> "legacy" @@ "IPTHING_HTTPS_PORT" :> {0}
              @@ "IPTHING_HTTP_PORT" :> {8088}), Missing)}

===============================================================================
