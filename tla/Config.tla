-------------------------------- MODULE Config --------------------------------
(***************************************************************************)
(* Where the settings come from (config.go) and the database they select   *)
(* (database_factory.go). Pure functions of the process's environment and  *)
(* of config.json. A JSON document is the record it decodes to: keys it    *)
(* does not have are zero values. HostWhitelist, which is only passed on   *)
(* to autocert, is left out.                                               *)
(***************************************************************************)
EXTENDS Integers

CONSTANTS
  Missing,     \* IPTHING_CONFIG is not set, config.json does not exist
  Malformed    \* it cannot be read or decoded

\* What a decoded document holds, and what the variables do.
Configs ==
  [http : Int, https : Int, listenPort : Int, dbType : STRING, path : STRING, conn : STRING]
Documents == Configs \cup {Missing, Malformed}

\* A port variable is {} when it is not set or not a number.
PortVariable == {s \in SUBSET Int : \A p, q \in s : p = q}

Environments ==
  [IPTHING_CONFIG : Documents, IPTHING_DB_TYPE : STRING, IPTHING_SQLITE_PATH : STRING,
   IPTHING_POSTGRES_URL : STRING, DATABASE_URL : STRING,
   IPTHING_HTTP_PORT : PortVariable, IPTHING_HTTPS_PORT : PortVariable]

\* The last conjunct is a fact the proofs need and their provers do not know.
ASSUME ConfigAssumption ==
  /\ Missing # Malformed
  /\ {Missing, Malformed} \cap Configs = {}
  /\ {"", "postgres"} \subseteq STRING

GetDefaultConfig ==
  [http |-> 8080, https |-> 443, listenPort |-> 0, dbType |-> "", path |-> "", conn |-> ""]

\* The result Malformed is the error.
loadConfigFromSources(env, file) ==
  IF env.IPTHING_CONFIG # Missing THEN env.IPTHING_CONFIG
  ELSE IF file = Missing THEN GetDefaultConfig ELSE file

\* Broken form: a port of 0 counts as not set.
PortZeroUnset(old, new) == IF new \subseteq {0} THEN old ELSE CHOOSE p \in new : TRUE

\* What is set replaces what the document says.
Text(old, new) == IF new = "" THEN old ELSE new
Port(old, new) == IF new = {} THEN old ELSE CHOOSE p \in new : TRUE

applyEnvironmentOverrides(c, env) ==
  [c EXCEPT !.dbType = Text(@, env.IPTHING_DB_TYPE),
            !.path   = Text(@, env.IPTHING_SQLITE_PATH),
            !.conn   = Text(@, env.IPTHING_POSTGRES_URL),
            !.http   = Port(@, env.IPTHING_HTTP_PORT),
            !.https  = Port(@, env.IPTHING_HTTPS_PORT)]

\* Broken form: DATABASE_URL comes before the connection string of the settings.
applyLegacyFirst(c, env) ==
  IF env.DATABASE_URL # ""
  THEN [c EXCEPT !.conn = env.DATABASE_URL, !.dbType = "postgres"]
  ELSE c

applyLegacyEnvironmentVariables(c, env) ==
  IF c.conn = "" /\ env.DATABASE_URL # ""
  THEN [c EXCEPT !.conn = env.DATABASE_URL, !.dbType = "postgres"]
  ELSE c

handleLegacyPortConfig(c) ==
  LET Legacy(port) == IF c.listenPort > 0 /\ port <= 0 THEN c.listenPort ELSE port
  IN  [c EXCEPT !.http = Legacy(@), !.https = Legacy(@)]

\* What initializeApplication runs with: after an error of ReadConfig, the
\* defaults take the place of the document.
ReadConfig(env, file) ==
  LET loaded == loadConfigFromSources(env, file)
      base == IF loaded = Malformed THEN GetDefaultConfig ELSE loaded
  IN  handleLegacyPortConfig(
        applyLegacyEnvironmentVariables(applyEnvironmentOverrides(base, env), env))

\* Broken form: a type is no longer inferred.
NewDatabaseUntyped(c) ==
  CASE c.dbType = "" -> "none"
    [] c.dbType = "sqlite" -> "sqlite"
    [] c.dbType \in {"postgres", "postgresql"} /\ c.conn # "" -> "postgres"
    [] c.dbType \in {"mariadb", "mysql"} /\ c.conn # "" -> "mariadb"
    [] OTHER -> "error"

\* "none" is NoOpDB. The case of dbType does not matter: it is lowered first.
NewDatabase(c) ==
  LET type == IF c.dbType # "" THEN c.dbType
              ELSE IF c.conn # "" THEN "postgres"
              ELSE IF c.path # "" THEN "sqlite" ELSE ""
  IN  CASE type = "" -> "none"
        [] type = "sqlite" -> "sqlite"
        [] type \in {"postgres", "postgresql"} /\ c.conn # "" -> "postgres"
        [] type \in {"mariadb", "mysql"} /\ c.conn # "" -> "mariadb"
        [] OTHER -> "error"

\* startServers: HTTPS is off at 0, and only there.
HTTPPort(c) == IF c.http <= 0 THEN 8080 ELSE c.http
HTTPSPort(c) == IF c.https <= 0 THEN 443 ELSE c.https
HTTPSEnabled(c) == c.https # 0
===============================================================================
