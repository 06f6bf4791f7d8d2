----------------------------- MODULE RateLimiter -----------------------------
(***************************************************************************)
(* The token buckets behind rateLimitMiddleware (server.go), one for each  *)
(* client address, in the one store that newRateLimiterStore makes for all *)
(* listeners. The store and its buckets are echo's and x/time's; they are  *)
(* modelled as the code configures them, in whole tokens and clock ticks.  *)
(***************************************************************************)
EXTENDS Integers

CONSTANTS
  Clients,     \* client addresses
  Rate,        \* tokens a bucket gains in a tick
  Burst,       \* tokens it holds at most
  ExpiresIn,   \* ticks after which the store may forget an idle client
  MaxNow       \* bound on the clock

\* Three minutes, the default of ExpiresIn, fill ten tokens at five per second.
ASSUME RateLimiterAssumption ==
  /\ {Rate, Burst} \subseteq Nat \ {0}
  /\ {ExpiresIn, MaxNow} \subseteq Nat
  /\ Burst <= Rate * ExpiresIn

VARIABLES
  now,      \* the clock
  bucket    \* for each client its tokens, and when they were last counted

limiterVars == <<now, bucket>>

Time == 0..MaxNow

LimiterTypeOK ==
  /\ now \in Time
  /\ bucket \in [Clients -> [tokens : 0..Burst, seen : Time]]

LimiterInit ==
  /\ now = 0
  /\ bucket = [c \in Clients |-> [tokens |-> Burst, seen |-> 0]]

Tick ==
  /\ now < MaxNow
  /\ now' = now + 1
  /\ UNCHANGED bucket

\* Broken form: an idle client saves up tokens without end.
AvailableUncapped(c) == bucket[c].tokens + Rate * (now - bucket[c].seen)

\* The tokens of client c now.
Available(c) ==
  LET filled == bucket[c].tokens + Rate * (now - bucket[c].seen)
  IN  IF filled > Burst THEN Burst ELSE filled

\* Clients whose bucket the call of another one may throw away, to be made anew
\* when they return. Which call cleans up, and how often, is left open.
Stale(c) == {d \in Clients \ {c} : now - bucket[d].seen > ExpiresIn}

\* One call of the store for client c takes a token, if there is one.
Allow(c, ok) ==
  /\ ok = (Available(c) > 0)
  /\ \E dropped \in SUBSET Stale(c) :
       bucket' = [d \in Clients |->
         CASE d = c        -> [tokens |-> Available(c) - (IF ok THEN 1 ELSE 0), seen |-> now]
           [] d \in dropped -> [tokens |-> Burst, seen |-> now]
           [] OTHER         -> bucket[d]]
  /\ UNCHANGED now
===============================================================================
