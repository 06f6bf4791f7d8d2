----------------------------- MODULE RecordLedger -----------------------------
(***************************************************************************)
(* What the persistence queue promises, with no goroutine, lock or         *)
(* channel in sight. A request offered by a handler is either turned away  *)
(* on the spot or accepted; an accepted one is settled exactly once, and   *)
(* it may be turned away only for a reason the caller could be told: it    *)
(* cannot be recorded, recording has stopped, or a full backlog is waiting.*)
(* Once the gate is drained nothing is outstanding any more.               *)
(***************************************************************************)
EXTENDS Integers, FiniteSets

CONSTANTS
  Requests,
  Addressed,   \* the requests that carry a client IP
  Backlog,     \* the least number of outstanding requests that justifies a drop
  InFlight     \* the most requests that are ever outstanding

VARIABLES recording, gate, status

vars == <<recording, gate, status>>

Outstanding == {r \in Requests : status[r] = "accepted"}

Init ==
  /\ recording \in BOOLEAN
  /\ gate = "open"
  /\ status = [r \in Requests |-> "offered"]

Accept(r) ==
  /\ status[r] = "offered"
  /\ recording /\ r \in Addressed /\ gate = "open"
  /\ status' = [status EXCEPT ![r] = "accepted"]
  /\ Cardinality(Outstanding') <= InFlight
  /\ UNCHANGED <<recording, gate>>

TurnAway(r) ==
  /\ status[r] = "offered"
  /\ \/ ~recording
     \/ r \notin Addressed
     \/ gate # "open"
     \/ Cardinality(Outstanding) >= Backlog
  /\ status' = [status EXCEPT ![r] = "turnedAway"]
  /\ UNCHANGED <<recording, gate>>

Settle(r) ==
  /\ status[r] = "accepted"
  /\ gate # "drained"
  /\ status' = [status EXCEPT ![r] = "settled"]
  /\ UNCHANGED <<recording, gate>>

Shut ==
  /\ gate = "open"
  /\ gate' = "shut"
  /\ UNCHANGED <<recording, status>>

Drain ==
  /\ gate = "shut"
  /\ Outstanding = {}
  /\ gate' = "drained"
  /\ UNCHANGED <<recording, status>>

Next ==
  \/ \E r \in Requests : Accept(r) \/ TurnAway(r) \/ Settle(r)
  \/ Shut
  \/ Drain

Spec == Init /\ [][Next]_vars
===============================================================================
