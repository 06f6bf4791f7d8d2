---------------------------- MODULE Pipeline_proofs ----------------------------
(***************************************************************************)
(* Proofs of the safety properties of Pipeline, for any requests, clients, *)
(* rate, burst and bound on the clock.                                     *)
(***************************************************************************)
EXTENDS Pipeline, FiniteSetTheorems, TLAPS

\* Buckets and requests were not last seen in the future.
PastInv ==
  /\ \A c \in Clients : bucket[c].seen <= now
  /\ \A q \in Requests : passedAt[q] # NotPassed => passedAt[q] <= now

\* What a client has got past the limiter since any moment, and what it could
\* still get now, is within the budget of the time since.
BudgetInv ==
  /\ IsFiniteSet({q \in Requests : passedAt[q] # NotPassed})
  /\ \A c \in Clients, since \in 0..now :
       Cardinality(Passed(c, since)) + Available(c) <= Burst + Rate * (now - since)

\* A request the error handler is given: what it has been told, and recorded as.
Failing(q) ==
  \/ answer[q] = 0 /\ pending[q] = 413 /\ records[q] = <<413>>
  \/ /\ answer[q] = 0 /\ pending[q] \in {404, 405, 429, 500} /\ records[q] = <<>>
     /\ kind[q].path = "/" => pending[q] # 404
  \/ answer[q] = 200 /\ pending[q] = 500 /\ kind[q].path = "/" /\ records[q] = <<200>>
  \/ /\ answer[q] \in {200, 204} /\ pending[q] = 500 /\ kind[q].path # "/"
     /\ records[q] = <<>>

\* What has been answered and recorded, by the place a request has reached.
Flow(q) ==
  /\ stage[q] = "new" => passedAt[q] = NotPassed
  /\ stage[q] \in {"new", "body", "handler"} => records[q] = <<>> /\ answer[q] = 0
  /\ stage[q] = "error" => Failing(q)
  /\ stage[q] = "done" =>
       /\ records[q] = IF Recordable(q) THEN <<answer[q]>> ELSE <<>>
       /\ kind[q].path = "/" => answer[q] \in {200, 301, 413, 429, 500}

FlowInv == \A q \in Requests : Flow(q)

IInv == TypeOK /\ PastInv /\ BudgetInv /\ FlowInv
-------------------------------------------------------------------------------
(* The buckets.                                                            *)

\* What the provers need to know of products.
LEMMA Products ==
  ASSUME NEW r \in Nat, NEW k \in Nat, NEW m \in Nat
  PROVE  /\ r * k \in Nat
         /\ r * (k + 1) = r * k + r
         /\ r * 0 = 0
         /\ k <= m => r * k <= r * m
<1>1. r * k \in Nat /\ r * (k + 1) = r * k + r /\ r * 0 = 0
  OBVIOUS
<1>2. ASSUME k <= m PROVE r * k <= r * m
  <2>1. PICK d \in Nat : m = k + d
    BY <1>2
  <2>2. r * m = r * k + r * d /\ r * d \in Nat
    BY <2>1
  <2> QED BY <1>1, <2>2
<1> QED BY <1>1, <1>2

LEMMA Sizes ==
  /\ Rate \in Nat /\ Rate > 0 /\ Burst \in Nat /\ Burst > 0
  /\ ExpiresIn \in Nat /\ MaxNow \in Nat
BY RateLimiterAssumption

\* A bucket seen in the past holds between none and Burst tokens now.
LEMMA AvailableFacts ==
  ASSUME LimiterTypeOK, NEW c \in Clients, bucket[c].seen <= now
  PROVE  /\ Available(c) \in 0..Burst
         /\ now - bucket[c].seen \in Nat
         /\ Rate * (now - bucket[c].seen) \in Nat
         /\ Available(c) <= bucket[c].tokens + Rate * (now - bucket[c].seen)
         /\ Available(c) < Burst =>
              Available(c) = bucket[c].tokens + Rate * (now - bucket[c].seen)
<1>1. now - bucket[c].seen \in Nat /\ bucket[c].tokens \in 0..Burst
  BY DEF LimiterTypeOK, Time
<1>2. Rate \in Nat /\ Burst \in Nat
  BY Sizes
<1>3. Rate * (now - bucket[c].seen) \in Nat
  BY <1>1, <1>2, Products
<1> QED BY <1>1, <1>2, <1>3 DEF Available

\* The clock gives a bucket at most Rate tokens.
LEMMA TickEffect ==
  ASSUME LimiterTypeOK, PastInv, Tick, NEW c \in Clients
  PROVE  /\ Available(c)' \in 0..Burst
         /\ Available(c)' <= Available(c) + Rate
<1>1. now' = now + 1 /\ bucket' = bucket /\ now \in Nat /\ now' \in Time
  BY Sizes DEF Tick, LimiterTypeOK, Time
<1>2. LimiterTypeOK'
  BY <1>1 DEF LimiterTypeOK, Time
<1>3. bucket[c].seen <= now /\ bucket'[c].seen <= now' /\ bucket[c].seen \in Nat
  BY <1>1 DEF PastInv, LimiterTypeOK, Time
<1> DEFINE k == now - bucket[c].seen
<1>4. k \in Nat /\ now' - bucket[c].seen = k + 1 /\ Rate \in Nat /\ Burst \in Nat
  BY <1>1, <1>3, Sizes
<1>5. Rate * (k + 1) = Rate * k + Rate /\ Rate * k \in Nat
  BY <1>4, Products
<1>6. Rate * (now' - bucket[c].seen) = Rate * k + Rate
  BY <1>4, <1>5
<1>7. bucket[c].tokens \in 0..Burst
  BY DEF LimiterTypeOK
<1> HIDE DEF k
<1>8. Available(c) = IF bucket[c].tokens + Rate * k > Burst THEN Burst ELSE bucket[c].tokens + Rate * k
  BY DEF Available, k
<1>9. Available(c)' = IF bucket[c].tokens + (Rate * k + Rate) > Burst THEN Burst
                      ELSE bucket[c].tokens + (Rate * k + Rate)
  BY <1>1, <1>6 DEF Available
<1> QED BY <1>4, <1>5, <1>7, <1>8, <1>9

\* A call of the store takes one token of its own client, if it grants it, and
\* no token of another: what the store forgets was a full bucket.
LEMMA AllowEffect ==
  ASSUME LimiterTypeOK, PastInv, NEW c \in Clients, NEW ok \in BOOLEAN, Allow(c, ok)
  PROVE  /\ LimiterTypeOK' /\ now' = now
         /\ \A d \in Clients : bucket'[d].seen <= now
         /\ ok => Available(c) > 0
         /\ \A d \in Clients :
              Available(d)' = IF d = c /\ ok THEN Available(d) - 1 ELSE Available(d)
<1>1. PICK dropped \in SUBSET Stale(c) :
        /\ ok = (Available(c) > 0) /\ now' = now
        /\ bucket' = [d \in Clients |->
             CASE d = c        -> [tokens |-> Available(c) - (IF ok THEN 1 ELSE 0), seen |-> now]
               [] d \in dropped -> [tokens |-> Burst, seen |-> now]
               [] OTHER         -> bucket[d]]
  BY DEF Allow
<1>2. c \notin dropped
  BY <1>1 DEF Stale
<1>3. Rate \in Nat /\ Burst \in Nat /\ ExpiresIn \in Nat /\ Burst <= Rate * ExpiresIn
  BY RateLimiterAssumption
<1>4. now \in Nat /\ now \in Time
  BY Sizes DEF LimiterTypeOK, Time
<1>5. Available(c) \in 0..Burst
  BY AvailableFacts DEF PastInv
<1>0. ok => Available(c) > 0
  BY <1>1
<1>6. ASSUME NEW d \in Clients
      PROVE  /\ bucket'[d] \in [tokens : 0..Burst, seen : Time]
             /\ bucket'[d].seen <= now
             /\ Available(d)' = IF d = c /\ ok THEN Available(d) - 1 ELSE Available(d)
  <2>1. CASE d = c
    <3>1. bucket'[d] = [tokens |-> Available(c) - (IF ok THEN 1 ELSE 0), seen |-> now]
      BY <1>1, <1>2, <2>1
    <3>2. bucket'[d].tokens = (IF ok THEN Available(c) - 1 ELSE Available(c)) /\ bucket'[d].seen = now
      BY <3>1, <1>5
    <3>3. bucket'[d].tokens \in 0..Burst
      BY <3>2, <1>0, <1>5, <1>3
    <3>4. Rate * (now' - bucket'[d].seen) = 0
      BY <3>2, <1>1, <1>3, <1>4
    <3>5. Available(d)' = bucket'[d].tokens
      BY <3>3, <3>4, <1>3 DEF Available
    <3> QED BY <2>1, <3>1, <3>2, <3>3, <3>5, <1>4
  <2>2. CASE d \in dropped
    <3>1. bucket'[d] = [tokens |-> Burst, seen |-> now] /\ d # c
      BY <1>1, <1>2, <2>2
    <3>2. Rate * (now' - bucket'[d].seen) = 0
      BY <3>1, <1>1, <1>3, <1>4
    <3>3. Available(d)' = Burst
      BY <3>1, <3>2, <1>3 DEF Available
    <3>4. now - bucket[d].seen > ExpiresIn /\ now - bucket[d].seen \in Nat
      BY <2>2, <1>3, <1>4 DEF Stale, LimiterTypeOK, Time
    <3>5. Rate * ExpiresIn <= Rate * (now - bucket[d].seen)
      BY <3>4, <1>3, Products
    <3>6. bucket[d].tokens \in Nat /\ Rate * (now - bucket[d].seen) \in Nat /\ Rate * ExpiresIn \in Nat
      BY <3>4, <1>3, Products DEF LimiterTypeOK
    <3>7. Available(d) = Burst
      BY <3>5, <3>6, <1>3 DEF Available
    <3> QED BY <3>1, <3>3, <3>7, <1>3, <1>4
  <2>3. CASE d # c /\ d \notin dropped
    <3>1. bucket'[d] = bucket[d]
      BY <1>1, <2>3
    <3> QED BY <3>1, <1>1, <2>3 DEF Available, LimiterTypeOK, PastInv
  <2> QED BY <2>1, <2>2, <2>3
<1>7. LimiterTypeOK'
  <2>1. bucket' = [d \in Clients |-> bucket'[d]]
    BY <1>1
  <2> QED BY <2>1, <1>6, <1>1 DEF LimiterTypeOK
<1> QED BY <1>1, <1>6, <1>7, <1>0
-------------------------------------------------------------------------------
(* Types.                                                                  *)

LEMMA TypeInit == Init => TypeOK
<1> SUFFICES ASSUME Init PROVE TypeOK
  OBVIOUS
<1>1. LimiterTypeOK
  BY Sizes DEF Init, LimiterInit, LimiterTypeOK, Time
<1>2. kind \in [Requests -> Kind]
  BY PipelineAssumption DEF Init
<1>3. records \in [Requests -> Seq(Code)]
  BY DEF Init
<1> QED BY <1>1, <1>2, <1>3 DEF Init, TypeOK, Code

LEMMA RouteCodes ==
  ASSUME NEW k \in Kind
  PROVE  /\ Route(k) \in Code
         /\ k.path = "/" => Route(k) \in {200, 405}
         /\ k.path # "/" => Route(k) \in {200, 204, 404, 405}
<1>1. k.path \in {"/", "asset", "page", "other"}
  BY DEF Kind
<1>2. CASE k.path = "other"
  <2>1. Route(k) = 404
    BY <1>2, Zenon DEF Route
  <2> QED BY <1>2, <2>1 DEF Code
<1>3. CASE k.path = "/"
  <2>1. Route(k) = 200 \/ Route(k) = 405
    BY <1>3 DEF Route
  <2> QED BY <1>3, <2>1 DEF Code
<1>4. CASE k.path \in {"asset", "page"}
  <2>1. Route(k) = 200 \/ Route(k) = 204 \/ Route(k) = 405
    BY <1>4 DEF Route
  <2> QED BY <1>4, <2>1 DEF Code
<1> QED BY <1>1, <1>2, <1>3, <1>4

LEMMA Codes == {0, 200, 204, 301, 404, 405, 413, 429, 500} \subseteq Code
BY DEF Code

\* The parts of an action keep the types.
LEMMA Parts ==
  ASSUME TypeOK, NEW q \in Requests, NEW code \in Code
  PROVE  /\ Goto(q, "done") \/ Goto(q, "body") \/ Goto(q, "handler") =>
              stage' \in [Requests -> {"new", "body", "handler", "error", "done"}]
         /\ Fail(q, code) =>
              /\ stage' \in [Requests -> {"new", "body", "handler", "error", "done"}]
              /\ pending' \in [Requests -> Code]
         /\ Record(q, code) => records' \in [Requests -> Seq(Code)]
         /\ Respond(q, code) => answer' \in [Requests -> Code]
         /\ pending[q] \in Code
<1>1. Append(records[q], code) \in Seq(Code)
  BY DEF TypeOK
<1> QED BY <1>1 DEF TypeOK, Goto, Fail, Record, Respond

LEMMA TypeStep ==
  ASSUME TypeOK, PastInv, [Next]_vars
  PROVE  TypeOK'
<1> USE Codes
<1>1. ASSUME NEW q \in Requests, Redirect(q) PROVE TypeOK'
  BY <1>1, Parts DEF Redirect, limiterVars, LimiterTypeOK, TypeOK
<1>2. ASSUME NEW q \in Requests, Admit(q) PROVE TypeOK'
  <2>1. kind[q].client \in Clients
    BY DEF Kind, TypeOK
  <2>2. LimiterTypeOK' /\ now' = now
    <3>1. CASE UNCHANGED limiterVars
      BY <3>1 DEF limiterVars, LimiterTypeOK, TypeOK
    <3>2. CASE Allow(kind[q].client, TRUE)
      BY <3>2, <2>1, AllowEffect DEF TypeOK
    <3> QED BY <3>1, <3>2, <1>2 DEF Admit
  <2>3. now \in Time
    BY DEF LimiterTypeOK, TypeOK
  <2> QED BY <1>2, <2>2, <2>3, Parts DEF Admit, Pass, TypeOK
<1>3. ASSUME NEW q \in Requests, Deny(q) PROVE TypeOK'
  <2>1. kind[q].client \in Clients
    BY DEF Kind, TypeOK
  <2>2. LimiterTypeOK'
    BY <1>3, <2>1, AllowEffect DEF Deny, TypeOK
  <2> QED BY <1>3, <2>2, Parts DEF Deny, TypeOK
<1>4. ASSUME NEW q \in Requests, AcceptBody(q) PROVE TypeOK'
  BY <1>4, Parts DEF AcceptBody, InBody, limiterVars, LimiterTypeOK, TypeOK
<1>5. ASSUME NEW q \in Requests, RejectBody(q) PROVE TypeOK'
  BY <1>5, Parts DEF RejectBody, InBody, limiterVars, LimiterTypeOK, TypeOK
<1>6. ASSUME NEW q \in Requests, LoseBody(q) \/ ReadTimeout(q) PROVE TypeOK'
  BY <1>6, Parts DEF LoseBody, ReadTimeout, InBody, limiterVars, LimiterTypeOK, TypeOK
<1>7. ASSUME NEW q \in Requests, Handle(q) PROVE TypeOK'
  <2>1. records' \in [Requests -> Seq(Code)]
    BY <1>7, Parts DEF Handle, TypeOK
  <2>2. answer' \in [Requests -> Code]
    BY <1>7, Parts DEF Handle
  <2>3. /\ stage' \in [Requests -> {"new", "body", "handler", "error", "done"}]
        /\ pending' \in [Requests -> Code]
    BY <1>7, Parts DEF Handle, TypeOK
  <2> QED BY <1>7, <2>1, <2>2, <2>3 DEF Handle, limiterVars, LimiterTypeOK, TypeOK
<1>8. ASSUME NEW q \in Requests, Unrouted(q) PROVE TypeOK'
  <2>1. Route(kind[q]) \in Code
    BY RouteCodes DEF TypeOK
  <2> QED BY <1>8, <2>1, Parts DEF Unrouted, limiterVars, LimiterTypeOK, TypeOK
<1>9. ASSUME NEW q \in Requests, HandleError(q) PROVE TypeOK'
  <2>1. records' \in [Requests -> Seq(Code)] /\ answer' \in [Requests -> Code]
    <3>1. CASE pending[q] = 405 /\ kind[q].path = "/"
      BY <1>9, <3>1, Parts DEF HandleError
    <3>2. CASE ~(pending[q] = 405 /\ kind[q].path = "/")
      BY <1>9, <3>2, Parts DEF HandleError, TypeOK
    <3> QED BY <3>1, <3>2
  <2> QED BY <1>9, <2>1, Parts DEF HandleError, limiterVars, LimiterTypeOK, TypeOK
<1>10. CASE Tick /\ UNCHANGED reqVars
  BY <1>10, Sizes DEF Tick, reqVars, LimiterTypeOK, Time, TypeOK
<1>11. CASE UNCHANGED vars
  BY <1>11 DEF vars, limiterVars, reqVars, LimiterTypeOK, TypeOK
<1> QED BY <1>1, <1>2, <1>3, <1>4, <1>5, <1>6, <1>7, <1>8, <1>9, <1>10, <1>11 DEF Next, Serve
-------------------------------------------------------------------------------
(* Answers and records.                                                    *)

LEMMA AppendToNone ==
  ASSUME NEW e
  PROVE  Append(<<>>, e) = <<e>>
OBVIOUS

\* The parts of an action concern one request.
LEMMA PartsAt ==
  ASSUME TypeOK, NEW q \in Requests, NEW x \in Requests, NEW code
  PROVE  /\ \A s \in {"body", "handler", "done"} :
              Goto(q, s) => stage'[x] = IF x = q THEN s ELSE stage[x]
         /\ Fail(q, code) =>
              /\ stage'[x] = IF x = q THEN "error" ELSE stage[x]
              /\ pending'[x] = IF x = q THEN code ELSE pending[x]
         /\ Record(q, code) =>
              records'[x] = IF x = q THEN Append(records[q], code) ELSE records[x]
         /\ Respond(q, code) =>
              answer'[x] = IF x = q /\ answer[q] = 0 THEN code ELSE answer[x]
BY DEF TypeOK, Goto, Fail, Record, Respond

LEMMA FirstRecord ==
  ASSUME TypeOK, NEW q \in Requests, NEW code, records[q] = <<>>, Record(q, code)
  PROVE  records'[q] = <<code>>
<1>1. records'[q] = Append(records[q], code)
  BY DEF Record, TypeOK
<1> QED BY <1>1, AppendToNone, Zenon

LEMMA FlowElsewhere ==
  ASSUME FlowInv, NEW x \in Requests, kind' = kind, stage'[x] = stage[x],
         pending'[x] = pending[x], answer'[x] = answer[x],
         records'[x] = records[x], passedAt'[x] = passedAt[x]
  PROVE  Flow(x)'
BY DEF FlowInv, Flow, Failing, Recordable

LEMMA FlowStep ==
  ASSUME TypeOK, FlowInv, [Next]_vars
  PROVE  FlowInv'
<1> SUFFICES ASSUME NEW x \in Requests PROVE Flow(x)'
  BY DEF FlowInv
<1>0. Flow(x)
  BY DEF FlowInv
<1>1. ASSUME NEW q \in Requests, Redirect(q) PROVE Flow(x)'
  <2>1. CASE x = q
    BY <1>0, <1>1, <2>1, PartsAt DEF Redirect, Flow, Recordable
  <2> QED BY <1>1, <2>1, PartsAt, FlowElsewhere DEF Redirect
<1>2. ASSUME NEW q \in Requests, Admit(q) PROVE Flow(x)'
  <2>1. passedAt'[x] = IF x = q THEN now ELSE passedAt[x]
    BY <1>2 DEF Admit, Pass, TypeOK
  <2>2. CASE x = q
    BY <1>0, <1>2, <2>2, PartsAt DEF Admit, Pass, Flow
  <2> QED BY <1>2, <2>1, <2>2, PartsAt, FlowElsewhere DEF Admit, Pass
<1>3. ASSUME NEW q \in Requests, Deny(q) PROVE Flow(x)'
  <2>1. CASE x = q
    BY <1>0, <1>3, <2>1, PartsAt DEF Deny, Flow, Failing
  <2> QED BY <1>3, <2>1, PartsAt, FlowElsewhere DEF Deny
<1>4. ASSUME NEW q \in Requests, AcceptBody(q) PROVE Flow(x)'
  <2>1. CASE x = q
    BY <1>0, <1>4, <2>1, PartsAt DEF AcceptBody, InBody, Flow
  <2> QED BY <1>4, <2>1, PartsAt, FlowElsewhere DEF AcceptBody, InBody
<1>5. ASSUME NEW q \in Requests, RejectBody(q) PROVE Flow(x)'
  <2>1. CASE x = q
    <3>1. answer[q] = 0 /\ records'[q] = <<413>>
      BY <1>0, <1>5, <2>1, FirstRecord DEF RejectBody, InBody, Flow
    <3> QED BY <1>5, <2>1, <3>1, PartsAt DEF RejectBody, InBody, Flow, Failing
  <2> QED BY <1>5, <2>1, PartsAt, FlowElsewhere DEF RejectBody, InBody
<1>6. ASSUME NEW q \in Requests, LoseBody(q) \/ ReadTimeout(q) PROVE Flow(x)'
  <2>1. CASE x = q
    BY <1>0, <1>6, <2>1, PartsAt DEF LoseBody, ReadTimeout, InBody, Flow, Failing
  <2> QED BY <1>6, <2>1, PartsAt, FlowElsewhere DEF LoseBody, ReadTimeout, InBody
<1>7. ASSUME NEW q \in Requests, Handle(q) PROVE Flow(x)'
  <2>1. CASE x = q
    <3>1. records[q] = <<>> /\ answer[q] = 0
      BY <1>0, <1>7, <2>1 DEF Handle, Flow
    <3>2. /\ kind' = kind /\ answer'[q] \in {200, 204}
          /\ kind[q].path = "/" => answer'[q] = 200 /\ records'[q] = <<200>>
          /\ kind[q].path # "/" => records'[q] = <<>>
      <4>1. kind[q].path = "/" => Route(kind[q]) \in {200, 405}
        BY RouteCodes DEF TypeOK
      <4> QED BY <1>7, <3>1, <4>1, PartsAt, FirstRecord DEF Handle
    <3>3. stage'[q] = "done" \/ (stage'[q] = "error" /\ pending'[q] = 500)
      BY <1>7, PartsAt DEF Handle
    <3> QED BY <2>1, <3>2, <3>3 DEF Flow, Failing, Recordable
  <2> QED BY <1>7, <2>1, PartsAt, FlowElsewhere DEF Handle
<1>8. ASSUME NEW q \in Requests, Unrouted(q) PROVE Flow(x)'
  <2>1. CASE x = q
    <3>1. kind[q].path = "/" => Route(kind[q]) # 404
      BY RouteCodes DEF TypeOK
    <3> QED BY <1>0, <1>8, <2>1, <3>1, PartsAt DEF Unrouted, Flow, Failing
  <2> QED BY <1>8, <2>1, PartsAt, FlowElsewhere DEF Unrouted
<1>9. ASSUME NEW q \in Requests, HandleError(q) PROVE Flow(x)'
  <2>1. stage'[x] = (IF x = q THEN "done" ELSE stage[x]) /\ kind' = kind
        /\ pending' = pending /\ passedAt' = passedAt
    BY <1>9, PartsAt DEF HandleError
  <2>2. CASE x = q
    <3>1. Failing(q)
      BY <1>0, <1>9, <2>2 DEF Flow, HandleError
    <3>2. CASE pending[q] = 405 /\ kind[q].path = "/"
      <4>1. answer[q] = 0 /\ records[q] = <<>>
        BY <3>1, <3>2 DEF Failing
      <4>2. answer'[q] = 200 /\ records'[q] = <<200>>
        BY <1>9, <3>2, <4>1, PartsAt, FirstRecord DEF HandleError
      <4> QED BY <2>1, <2>2, <3>2, <4>2 DEF Flow, Recordable
    <3>3. CASE ~(pending[q] = 405 /\ kind[q].path = "/")
      <4>1. answer'[q] = IF answer[q] = 0 THEN pending[q] ELSE answer[q]
        BY <1>9, <3>3, PartsAt DEF HandleError
      <4>2. CASE pending[q] = 404
        <5>1. records[q] = <<>>
          BY <3>1, <4>2 DEF Failing
        <5>2. records'[q] = <<404>>
          BY <1>9, <3>3, <4>2, <5>1, FirstRecord DEF HandleError
        <5> QED BY <2>1, <2>2, <3>1, <4>1, <4>2, <5>2 DEF Flow, Failing, Recordable
      <4>3. CASE pending[q] # 404
        <5>1. records' = records
          BY <1>9, <3>3, <4>3 DEF HandleError
        <5> QED BY <2>1, <2>2, <3>1, <3>3, <4>1, <4>3, <5>1 DEF Flow, Failing, Recordable
      <4> QED BY <4>2, <4>3
    <3> QED BY <3>2, <3>3
  <2>3. CASE x # q
    <3>1. answer'[x] = answer[x] /\ records'[x] = records[x]
      BY <1>9, <2>3, PartsAt DEF HandleError
    <3> QED BY <2>1, <2>3, <3>1, FlowElsewhere
  <2> QED BY <2>2, <2>3
<1>10. CASE UNCHANGED reqVars
  BY <1>10, FlowElsewhere DEF reqVars
<1> QED BY <1>1, <1>2, <1>3, <1>4, <1>5, <1>6, <1>7, <1>8, <1>9, <1>10 DEF Next, Serve, vars
-------------------------------------------------------------------------------
(* The budget.                                                             *)

LEMMA PassedFinite ==
  ASSUME BudgetInv, NEW c \in Clients, NEW since
  PROVE  IsFiniteSet(Passed(c, since)) /\ Cardinality(Passed(c, since)) \in Nat
<1>1. Passed(c, since) \subseteq {q \in Requests : passedAt[q] # NotPassed}
  BY DEF Passed
<1>2. IsFiniteSet(Passed(c, since))
  BY <1>1, FS_Subset DEF BudgetInv
<1> QED BY <1>2, FS_CardinalityType

\* The clock stands still, nobody gets in, and no bucket holds more than before.
LEMMA BudgetKept ==
  ASSUME BudgetInv, now' = now, kind' = kind, passedAt' = passedAt,
         \A c \in Clients : Available(c)' = Available(c)
  PROVE  BudgetInv'
<1>1. \A c \in Clients, since \in 0..now : Passed(c, since)' = Passed(c, since)
  BY DEF Passed, Skipped
<1> QED BY <1>1 DEF BudgetInv

\* A request gets in at the expense of its own client's bucket.
LEMMA BudgetSpent ==
  ASSUME TypeOK, PastInv, BudgetInv, NEW q \in Requests, passedAt[q] = NotPassed,
         now' = now, kind' = kind, passedAt' = [passedAt EXCEPT ![q] = now],
         \A c \in Clients :
           Available(c)' = IF c = kind[q].client /\ ~Skipped(q)
                             THEN Available(c) - 1 ELSE Available(c)
  PROVE  BudgetInv'
<1> DEFINE In == {x \in Requests : passedAt[x] # NotPassed}
<1>1. now \in Nat /\ now # NotPassed
  BY Sizes, PipelineAssumption DEF TypeOK, LimiterTypeOK, Time
<1>2. \A x \in Requests : passedAt'[x] = IF x = q THEN now ELSE passedAt[x]
  BY DEF TypeOK
<1>3. IsFiniteSet(In')
  <2>1. In' = In \cup {q}
    BY <1>1, <1>2
  <2> QED BY <2>1, FS_AddElement DEF BudgetInv
<1>4. ASSUME NEW c \in Clients, NEW since \in 0..now
      PROVE  Cardinality(Passed(c, since)') + Available(c)' <= Burst + Rate * (now - since)
  <2>1. Cardinality(Passed(c, since)) + Available(c) <= Burst + Rate * (now - since)
    BY DEF BudgetInv
  <2>2. IsFiniteSet(Passed(c, since)) /\ Cardinality(Passed(c, since)) \in Nat
    BY PassedFinite
  <2>3. Available(c) \in Int
    BY AvailableFacts, Sizes DEF TypeOK, PastInv
  <2>4. CASE c = kind[q].client /\ ~Skipped(q)
    <3>1. Passed(c, since)' = Passed(c, since) \cup {q} /\ q \notin Passed(c, since)
      BY <2>4, <1>1, <1>2 DEF Passed, Skipped
    <3>2. Cardinality(Passed(c, since)') = Cardinality(Passed(c, since)) + 1
      BY <3>1, <2>2, FS_AddElement
    <3>3. Available(c)' = Available(c) - 1
      BY <2>4
    <3>4. Cardinality(Passed(c, since)') + Available(c)' = Cardinality(Passed(c, since)) + Available(c)
      BY <3>2, <3>3, <2>2, <2>3
    <3> QED BY <3>4, <2>1
  <2>5. CASE ~(c = kind[q].client /\ ~Skipped(q))
    <3>1. Passed(c, since)' = Passed(c, since)
      BY <2>5, <1>2 DEF Passed, Skipped
    <3> QED BY <2>1, <2>5, <3>1
  <2> QED BY <2>4, <2>5
<1> QED BY <1>3, <1>4 DEF BudgetInv

\* What the tick adds to the bucket it adds to the budget of every period, and
\* the period that begins now has a full burst to spend.
LEMMA BudgetTick ==
  ASSUME TypeOK, PastInv, BudgetInv, Tick, UNCHANGED reqVars
  PROVE  BudgetInv'
<1>1. now \in Nat /\ now' = now + 1
  BY Sizes DEF Tick, TypeOK, LimiterTypeOK, Time
<1>2. ASSUME NEW c \in Clients, NEW since \in 0..(now + 1)
      PROVE  Cardinality(Passed(c, since)') + Available(c)' <= Burst + Rate * (now' - since)
  <2>1. Available(c)' \in 0..Burst /\ Available(c)' <= Available(c) + Rate
    BY TickEffect DEF TypeOK
  <2>2. Passed(c, since)' = Passed(c, since)
    BY DEF reqVars, Passed, Skipped
  <2>3. CASE since \in 0..now
    <3> DEFINE k == now - since
    <3>1. k \in Nat /\ now' - since = k + 1
      BY <1>1, <2>3
    <3>2. Rate * (k + 1) = Rate * k + Rate /\ Rate * k \in Nat
      BY <3>1, Sizes, Products
    <3>3. Cardinality(Passed(c, since)) + Available(c) <= Burst + Rate * k
      BY <2>3 DEF BudgetInv
    <3>4. Cardinality(Passed(c, since)) \in Nat /\ Available(c) \in Int
      BY PassedFinite, AvailableFacts, Sizes DEF TypeOK, PastInv
    <3>5. Rate * (now' - since) = Rate * k + Rate
      BY <3>1, <3>2
    <3> HIDE DEF k
    <3> QED BY <2>1, <2>2, <3>2, <3>3, <3>4, <3>5, Sizes
  <2>4. CASE since = now + 1
    <3>1. Passed(c, since) = {}
      BY <2>4, <1>1 DEF Passed, PastInv, TypeOK, Time
    <3>2. Cardinality(Passed(c, since)') = 0
      BY <2>2, <3>1, FS_EmptySet
    <3>3. Rate * (now' - since) = 0
      BY <1>1, <2>4, Sizes
    <3> QED BY <2>1, <3>2, <3>3, Sizes
  <2>5. since \in 0..now \/ since = now + 1
    BY <1>1
  <2> QED BY <2>3, <2>4, <2>5
<1>3. IsFiniteSet({q \in Requests : passedAt'[q] # NotPassed})
  BY DEF reqVars, BudgetInv
<1> QED BY <1>1, <1>2, <1>3 DEF BudgetInv

LEMMA BudgetStep ==
  ASSUME TypeOK, PastInv, BudgetInv, FlowInv, [Next]_vars
  PROVE  PastInv' /\ BudgetInv'
<1>1. ASSUME UNCHANGED <<limiterVars, kind, passedAt>> PROVE PastInv' /\ BudgetInv'
  <2>1. \A c \in Clients : Available(c)' = Available(c)
    BY <1>1 DEF limiterVars, Available
  <2> QED BY <1>1, <2>1, BudgetKept DEF limiterVars, PastInv
<1>2. ASSUME NEW q \in Requests, Admit(q) PROVE PastInv' /\ BudgetInv'
  <2>1. /\ passedAt[q] = NotPassed /\ kind' = kind
        /\ passedAt' = [passedAt EXCEPT ![q] = now] /\ kind[q].client \in Clients
    BY <1>2 DEF Admit, Pass, FlowInv, Flow, TypeOK, Kind
  <2>2. \A x \in Requests : passedAt'[x] = IF x = q THEN now ELSE passedAt[x]
    BY <2>1 DEF TypeOK
  <2>3. CASE Skipped(q) /\ UNCHANGED limiterVars
    <3>1. \A c \in Clients : Available(c)' = Available(c)
      BY <2>3 DEF limiterVars, Available
    <3>2. now' = now /\ bucket' = bucket
      BY <2>3 DEF limiterVars
    <3>3. BudgetInv'
      BY <2>1, <2>3, <3>1, <3>2, BudgetSpent
    <3>4. now \in Int
      BY Sizes DEF TypeOK, LimiterTypeOK, Time
    <3> QED BY <2>2, <3>2, <3>3, <3>4 DEF PastInv
  <2>4. CASE ~Skipped(q) /\ Allow(kind[q].client, TRUE)
    <3>1. /\ now' = now /\ \A d \in Clients : bucket'[d].seen <= now
          /\ \A d \in Clients :
               Available(d)' = IF d = kind[q].client THEN Available(d) - 1 ELSE Available(d)
      BY <2>1, <2>4, AllowEffect DEF TypeOK
    <3>2. BudgetInv'
      BY <2>1, <2>4, <3>1, BudgetSpent
    <3>3. now \in Int
      BY Sizes DEF TypeOK, LimiterTypeOK, Time
    <3> QED BY <2>2, <3>1, <3>2, <3>3 DEF PastInv
  <2> QED BY <1>2, <2>3, <2>4 DEF Admit
<1>3. ASSUME NEW q \in Requests, Deny(q) PROVE PastInv' /\ BudgetInv'
  <2>1. Allow(kind[q].client, FALSE) /\ kind' = kind /\ passedAt' = passedAt
    BY <1>3 DEF Deny
  <2>2. /\ now' = now /\ \A d \in Clients : bucket'[d].seen <= now
        /\ \A d \in Clients : Available(d)' = Available(d)
    BY <2>1, AllowEffect DEF TypeOK, Kind
  <2> QED BY <2>1, <2>2, BudgetKept DEF PastInv
<1>4. CASE Tick /\ UNCHANGED reqVars
  <2>1. now \in Nat /\ now' = now + 1 /\ bucket' = bucket /\ passedAt' = passedAt
    BY <1>4, Sizes DEF Tick, reqVars, TypeOK, LimiterTypeOK, Time
  <2>2. PastInv'
    BY <2>1, Sizes DEF PastInv, TypeOK, LimiterTypeOK, Time
  <2> QED BY <1>4, <2>2, BudgetTick
<1>5. ASSUME NEW q \in Requests,
             \/ Redirect(q) \/ AcceptBody(q) \/ RejectBody(q) \/ LoseBody(q)
             \/ ReadTimeout(q) \/ Serve(q)
      PROVE  UNCHANGED <<limiterVars, kind, passedAt>>
  BY <1>5 DEF Redirect, AcceptBody, RejectBody, LoseBody, ReadTimeout, InBody,
              Serve, Handle, Unrouted, HandleError
<1>6. CASE UNCHANGED vars
  BY <1>1, <1>6 DEF vars, reqVars
<1> QED BY <1>1, <1>2, <1>3, <1>4, <1>5, <1>6 DEF Next

LEMMA InvInit == Init => IInv
<1> SUFFICES ASSUME Init PROVE IInv
  OBVIOUS
<1>1. TypeOK
  BY TypeInit
<1>2. PastInv
  BY DEF Init, LimiterInit, PastInv
<1>3. FlowInv
  BY DEF Init, FlowInv, Flow
<1>4. BudgetInv
  <2>1. IsFiniteSet({q \in Requests : passedAt[q] # NotPassed})
    <3>1. {q \in Requests : passedAt[q] # NotPassed} = {}
      BY DEF Init
    <3> QED BY <3>1, FS_EmptySet
  <2>2. ASSUME NEW c \in Clients
        PROVE  Cardinality(Passed(c, 0)) + Available(c) <= Burst + Rate * (now - 0)
    <3>1. Cardinality(Passed(c, 0)) = 0
      <4>1. Passed(c, 0) = {}
        BY DEF Init, Passed
      <4> QED BY <4>1, FS_EmptySet
    <3>2. now = 0 /\ bucket[c].seen = 0 /\ Rate * 0 = 0
      BY Sizes DEF Init, LimiterInit
    <3>3. Available(c) \in 0..Burst
      BY <1>1, <3>2, AvailableFacts DEF TypeOK
    <3> QED BY <3>1, <3>2, <3>3, Sizes
  <2>3. now = 0
    BY DEF Init, LimiterInit
  <2> QED BY <2>1, <2>2, <2>3 DEF BudgetInv
<1> QED BY <1>1, <1>2, <1>3, <1>4 DEF IInv

LEMMA InvStep == IInv /\ [Next]_vars => IInv'
BY TypeStep, BudgetStep, FlowStep DEF IInv

LEMMA Invariance == Spec => []IInv
BY InvInit, InvStep, PTL DEF Spec
-------------------------------------------------------------------------------
(* The theorems.                                                           *)

\* The variables of Pipeline keep their types.
THEOREM TypeCorrect == Spec => []TypeOK
<1>1. IInv => TypeOK
  BY DEF IInv
<1> QED BY <1>1, Invariance, PTL

\* However many requests a client sends at once over the three listeners, what
\* rateLimitMiddleware lets in keeps to one budget.
THEOREM BudgetHolds == Spec => []BudgetIsShared
<1>1. ASSUME IInv, NEW c \in Clients, NEW since \in 0..now
      PROVE  Cardinality(Passed(c, since)) <= Burst + Rate * (now - since)
  <2>1. Available(c) \in 0..Burst
    BY <1>1, AvailableFacts DEF IInv, TypeOK, PastInv
  <2>2. Cardinality(Passed(c, since)) \in Nat
    BY <1>1, PassedFinite DEF IInv
  <2>3. Cardinality(Passed(c, since)) + Available(c) <= Burst + Rate * (now - since)
    BY <1>1 DEF IInv, BudgetInv
  <2>4. now - since \in Nat
    BY <1>1, Sizes DEF IInv, TypeOK, LimiterTypeOK, Time
  <2>5. Rate * (now - since) \in Nat
    BY <2>4, Sizes, Products
  <2> QED BY <2>1, <2>2, <2>3, <2>5, Sizes
<1>2. IInv => BudgetIsShared
  BY <1>1 DEF BudgetIsShared
<1> QED BY <1>2, Invariance, PTL

\* The middleware, the handlers and rootMethodFallback record what was answered.
THEOREM RecordsMatch == Spec => []RecordMatchesAnswer
<1>1. IInv => RecordMatchesAnswer
  BY DEF IInv, FlowInv, Flow, RecordMatchesAnswer
<1> QED BY <1>1, Invariance, PTL

\* Any method on "/" reaches the inspector, by its route or by rootMethodFallback.
THEOREM RootIsServed == Spec => []RootTakesEveryMethod
<1>1. IInv => RootTakesEveryMethod
  BY DEF IInv, FlowInv, Flow, RootTakesEveryMethod
<1> QED BY <1>1, Invariance, PTL
===============================================================================
