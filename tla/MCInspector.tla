----------------------------- MODULE MCInspector -----------------------------
(* One client: a visit to the inspector page and a rejected body with the same *)
(* fingerprint but a Referer that PostgreSQL refuses, and a visit through the  *)
(* 405 fallback with another fingerprint and a path that PostgreSQL refuses.   *)
EXTENDS Inspector, TLC

CONSTANTS q1, q2, q3, i1

MCip == [q \in Requests |-> i1]
MCprint == q1 :> "a" @@ q2 :> "a" @@ q3 :> "b"
MCspoilt == [q \in Requests |-> CASE q = q1 -> {} [] q = q2 -> {"rest"} [] q = q3 -> {"key"}]
MCprintDistinct == [q \in Requests |-> q]
MCrouteInspected == q1 :> "root" @@ q3 :> "fallback"
MCroute == q1 :> "root" @@ q2 :> "tooLarge" @@ q3 :> "fallback"
===============================================================================
