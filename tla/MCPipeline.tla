----------------------------- MODULE MCPipeline -----------------------------
(* Client a sends two requests, one of them a visit, on any listeners, client b    *)
(* one that makes the store forget an idle client: each treatment the chain,   *)
(* the routes and the error handler have for a request, with every body.       *)
EXTENDS Pipeline, TLC

CONSTANTS a, b, q1, q2, q3

From(c, l, path, method, body) ==
  [client |-> c, listener |-> l, host |-> "apex", path |-> path,
   method |-> method, body |-> body]

Visits ==
  {From(a, "http", "/", "GET", "small"), From(a, "https", "/", "UNKNOWN", "chunked"),
   From(a, "h3", "/", "QUERY", "chunked"), From(a, "http", "asset", "POST", "chunked")}

Others ==
  {From(a, "http", "other", "GET", "small"), From(a, "h3", "other", "POST", "declaredLarge"),
   From(a, "https", "page", "OPTIONS", "small"), From(a, "h3", "page", "POST", "small"),
   [From(a, "http", "/", "GET", "small") EXCEPT !.host = "www"]}

MCTraffic ==
  {q1 :> j @@ q2 :> k @@ q3 :> From(b, "http", "/", "GET", "small") :
     j \in Visits, k \in Visits \cup Others}
===============================================================================
