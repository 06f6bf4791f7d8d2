------------------------------- MODULE Pipeline -------------------------------
(***************************************************************************)
(* What an Echo instance does with a request (setupServer, setupRoutes and *)
(* rootMethodFallback in server.go, body_limit.go): the chain of           *)
(* middleware in its order, the routes, and the error handler behind both. *)
(* Requests of all three listeners run at once and share the rate limiter. *)
(* A record handed to QueueStore is one element of records here; module    *)
(* StoreQueue says what becomes of it.                                     *)
(***************************************************************************)
EXTENDS RateLimiter, Sequences, FiniteSets

CONSTANTS
  Requests,   \* HTTP requests
  Traffic,    \* the mixes of them considered: a kind for each
  NotPassed   \* "has not passed the rate limiter"

Listener == {"http", "https", "h3"}
Method   == {"GET", "HEAD", "OPTIONS", "POST", "QUERY", "UNKNOWN"}
Kind == [client : Clients, listener : Listener, host : {"apex", "www"},
         path : {"/", "asset", "page", "other"}, method : Method,
         body : {"small", "declaredLarge", "chunked"}]
Code   == {0, 200, 204, 301, 404, 405, 413, 429, 500}

ASSUME PipelineAssumption == Traffic \subseteq [Requests -> Kind] /\ NotPassed \notin Int

VARIABLES
  kind,      \* what each request is
  stage,     \* where it is
  pending,   \* the error the chain has returned for it, as a status
  answer,    \* the status it was answered with, or 0
  records,   \* the statuses under which it was recorded
  passedAt   \* when it got past the rate limiter

reqVars == <<kind, stage, pending, answer, records, passedAt>>
vars == <<limiterVars, reqVars>>

TypeOK ==
  /\ LimiterTypeOK
  /\ kind \in [Requests -> Kind]
  /\ stage \in [Requests -> {"new", "body", "handler", "error", "done"}]
  /\ pending \in [Requests -> Code]
  /\ answer \in [Requests -> Code]
  /\ records \in [Requests -> Seq(Code)]
  /\ passedAt \in [Requests -> Time \cup {NotPassed}]

Init ==
  /\ LimiterInit
  /\ kind \in Traffic
  /\ stage = [q \in Requests |-> "new"]
  /\ pending = [q \in Requests |-> 0]
  /\ answer = [q \in Requests |-> 0]
  /\ records = [q \in Requests |-> <<>>]
  /\ passedAt = [q \in Requests |-> NotPassed]

Goto(q, s) == stage' = [stage EXCEPT ![q] = s]

\* The chain returns an error; the error handler takes over.
Fail(q, code) ==
  /\ Goto(q, "error")
  /\ pending' = [pending EXCEPT ![q] = code]

Record(q, code) == records' = [records EXCEPT ![q] = Append(@, code)]

\* Only the first status is sent: a response is committed once.
Respond(q, code) ==
  answer' = [answer EXCEPT ![q] = IF @ = 0 THEN code ELSE @]

\* The redirect of www, before anything else.
Redirect(q) ==
  /\ stage[q] = "new" /\ kind[q].host = "www"
  /\ Respond(q, 301)
  /\ Goto(q, "done")
  /\ UNCHANGED <<limiterVars, kind, pending, records, passedAt>>

\* The Skipper of the limiter looks at the path alone.
Skipped(q) == kind[q].path = "asset"

Pass(q) ==
  /\ Goto(q, "body")
  /\ passedAt' = [passedAt EXCEPT ![q] = now]
  /\ UNCHANGED <<kind, pending, answer, records>>

\* Broken form: the other listeners have stores of their own, not yet drawn on.
AdmitPerListener(q) ==
  /\ stage[q] = "new" /\ kind[q].host = "apex"
  /\ \/ (Skipped(q) \/ kind[q].listener # "http") /\ UNCHANGED limiterVars
     \/ ~Skipped(q) /\ kind[q].listener = "http" /\ Allow(kind[q].client, TRUE)
  /\ Pass(q)

Admit(q) ==
  /\ stage[q] = "new" /\ kind[q].host = "apex"
  /\ \/ Skipped(q) /\ UNCHANGED limiterVars
     \/ ~Skipped(q) /\ Allow(kind[q].client, TRUE)
  /\ Pass(q)

Deny(q) ==
  /\ stage[q] = "new" /\ kind[q].host = "apex" /\ ~Skipped(q)
  /\ Allow(kind[q].client, FALSE)
  /\ Fail(q, 429)
  /\ UNCHANGED <<kind, answer, records, passedAt>>

InBody(q) == stage[q] = "body" /\ UNCHANGED <<limiterVars, kind, answer, passedAt>>

\* A body of declared length within the limit is left unread. One of unknown
\* length is read to its end first.
AcceptBody(q) ==
  /\ InBody(q) /\ kind[q].body # "declaredLarge"
  /\ Goto(q, "handler")
  /\ UNCHANGED <<pending, records>>

\* Too large, as declared or as found while reading: recorded, then an error.
RejectBody(q) ==
  /\ InBody(q) /\ kind[q].body # "small"
  /\ Record(q, 413)
  /\ Fail(q, 413)

\* The client goes away in the middle of its body.
LoseBody(q) ==
  /\ InBody(q) /\ kind[q].body = "chunked"
  /\ Fail(q, 500)
  /\ UNCHANGED records

\* Broken form: the timeouts are set on the plain HTTP server only.
ReadTimeoutHTTPOnly(q) ==
  /\ InBody(q) /\ kind[q].body = "chunked" /\ kind[q].listener = "http"
  /\ Fail(q, 500)
  /\ UNCHANGED records

\* ReadTimeout ends the reading. applyServerTimeouts sets it on the two TCP
\* servers; the HTTP/3 server has none.
ReadTimeout(q) ==
  /\ InBody(q) /\ kind[q].body = "chunked" /\ kind[q].listener # "h3"
  /\ Fail(q, 500)
  /\ UNCHANGED records

\* The methods of Echo's Any and extraRootMethods.
RootMethods == Method \ {"UNKNOWN"}

\* The routes: GET and HEAD except on "/". The router itself answers OPTIONS on
\* a known path.
Route(k) ==
  CASE k.path = "other" -> 404
    [] k.path = "/"     -> IF k.method \in RootMethods THEN 200 ELSE 405
    [] k.path \in {"asset", "page"} ->
         IF k.method \in {"GET", "HEAD"} THEN 200
         ELSE IF k.method = "OPTIONS" THEN 204 ELSE 405

\* HandleRoot answers, then records; the viewer and asset handlers only answer.
\* The answer may break off half-way: the handler returns the write error.
Handle(q) ==
  /\ stage[q] = "handler" /\ Route(kind[q]) \in {200, 204}
  /\ Respond(q, Route(kind[q]))
  /\ IF kind[q].path = "/" THEN Record(q, 200) ELSE UNCHANGED records
  /\ \/ Goto(q, "done") /\ UNCHANGED pending
     \/ Fail(q, 500)
  /\ UNCHANGED <<limiterVars, kind, passedAt>>

Unrouted(q) ==
  /\ stage[q] = "handler" /\ Route(kind[q]) \in {404, 405}
  /\ Fail(q, Route(kind[q]))
  /\ UNCHANGED <<limiterVars, kind, answer, records, passedAt>>

\* Broken form: every error is recorded, whoever has recorded it before.
HandleErrorRecording(q) ==
  /\ stage[q] = "error"
  /\ Respond(q, pending[q])
  /\ Record(q, pending[q])
  /\ Goto(q, "done")
  /\ UNCHANGED <<limiterVars, kind, pending, passedAt>>

\* Broken form: a 405 on "/" is an error like any other.
HandleErrorPlain(q) ==
  /\ stage[q] = "error"
  /\ Respond(q, pending[q])
  /\ IF pending[q] = 404 THEN Record(q, 404) ELSE UNCHANGED records
  /\ Goto(q, "done")
  /\ UNCHANGED <<limiterVars, kind, pending, passedAt>>

\* rootMethodFallback: a 405 on "/" is inspected after all, a 404 is recorded,
\* and every error but the first of these gets Echo's default answer.
HandleError(q) ==
  /\ stage[q] = "error"
  /\ IF pending[q] = 405 /\ kind[q].path = "/"
       THEN Respond(q, 200) /\ Record(q, 200)
       ELSE /\ Respond(q, pending[q])
            /\ IF pending[q] = 404 THEN Record(q, 404) ELSE UNCHANGED records
  /\ Goto(q, "done")
  /\ UNCHANGED <<limiterVars, kind, pending, passedAt>>

\* What the server does on its own with a request that has passed the limiter.
Serve(q) == Handle(q) \/ Unrouted(q) \/ HandleError(q)

Next ==
  \/ \E q \in Requests :
       \/ Redirect(q) \/ Admit(q) \/ Deny(q)
       \/ AcceptBody(q) \/ RejectBody(q) \/ LoseBody(q) \/ ReadTimeout(q)
       \/ Serve(q)
  \/ Tick /\ UNCHANGED reqVars
  \/ (\A q \in Requests : stage[q] = "done") /\ UNCHANGED vars

\* Handlers run, a declared length needs no reading, and timeouts fire. Nothing
\* obliges a client to send a request, or to finish a body.
Fairness ==
  \A q \in Requests :
    /\ WF_vars(Serve(q))
    /\ WF_vars(kind[q].body # "chunked" /\ (AcceptBody(q) \/ RejectBody(q)))
    /\ WF_vars(ReadTimeout(q))

Spec == Init /\ [][Next]_vars /\ Fairness
-------------------------------------------------------------------------------
(* Properties.                                                             *)

Passed(c, since) ==
  {q \in Requests : /\ kind[q].client = c /\ ~Skipped(q)
                    /\ passedAt[q] # NotPassed /\ passedAt[q] >= since}

\* In no period does a client get more than the burst and the rate allow past
\* the limiter, whichever listeners it uses and whenever the store forgets it.
BudgetIsShared ==
  \A c \in Clients, since \in 0..now :
    Cardinality(Passed(c, since)) <= Burst + Rate * (now - since)

Recordable(q) == answer[q] \in {404, 413} \/ (answer[q] = 200 /\ kind[q].path = "/")

\* A finished request has been recorded once, under the status it was answered
\* with, if it was inspected, not found or too large, and otherwise not at all:
\* middleware, handlers and the error handler never record it twice or leave
\* it to each other.
RecordMatchesAnswer ==
  \A q \in Requests : stage[q] = "done" =>
    records[q] = IF Recordable(q) THEN <<answer[q]>> ELSE <<>>

\* Whatever its method, a request for "/" that is let in with a proper body is
\* answered by the inspector, through the error handler if need be.
RootTakesEveryMethod ==
  \A q \in Requests :
    stage[q] = "done" /\ kind[q].path = "/" => answer[q] \in {200, 301, 413, 429, 500}

\* A request that has got in is answered, if it needs no reading or its listener
\* limits how long reading may take.
AnswerComes ==
  \A q \in Requests :
    stage[q] = "body" /\ (kind[q].body # "chunked" \/ kind[q].listener # "h3")
      ~> stage[q] = "done"
===============================================================================
