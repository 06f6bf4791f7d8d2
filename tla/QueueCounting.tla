----------------------------- MODULE QueueCounting -----------------------------
(***************************************************************************)
(* How many elements a bounded channel and its consumers hold: lemmas for  *)
(* the two queues of this project that implement RecordLedger, StoreQueue  *)
(* with its locks and Inspector with its database calls.                   *)
(***************************************************************************)
EXTENDS Integers, Sequences, FiniteSets, FiniteSetTheorems, TLAPS

Waiting(ch) == {ch[i] : i \in DOMAIN ch}
InHand(S, W, hand) == {x \in S : \E w \in W : x \in hand[w]}

\* A channel whose elements differ holds as many as it is long.
LEMMA WaitingCount ==
  ASSUME NEW S, NEW ch \in Seq(S), \A i, j \in DOMAIN ch : ch[i] = ch[j] => i = j
  PROVE  IsFiniteSet(Waiting(ch)) /\ Cardinality(Waiting(ch)) = Len(ch)
<1> DEFINE f == [i \in 1..Len(ch) |-> ch[i]]
<1>1. Len(ch) \in Nat /\ DOMAIN ch = 1..Len(ch)
  OBVIOUS
<1>2. f \in Bijection(1..Len(ch), Waiting(ch))
  <2>1. f \in [1..Len(ch) -> Waiting(ch)]
    BY <1>1 DEF Waiting
  <2>2. \A i, j \in 1..Len(ch) : f[i] = f[j] => i = j
    BY <1>1
  <2>3. \A x \in Waiting(ch) : \E i \in 1..Len(ch) : f[i] = x
    BY <1>1 DEF Waiting
  <2> QED BY <2>1, <2>2, <2>3 DEF Bijection, Injection, Surjection, IsInjective
<1>3. IsFiniteSet(1..Len(ch)) /\ Cardinality(1..Len(ch)) = Len(ch)
  <2>1. /\ IsFiniteSet(1..Len(ch))
        /\ Cardinality(1..Len(ch)) = IF 1 > Len(ch) THEN 0 ELSE Len(ch) - 1 + 1
    <3>1. 1 \in Int /\ Len(ch) \in Int
      BY <1>1
    <3> HIDE <1>1
    <3> QED BY <3>1, FS_Interval, Zenon
  <2> QED BY <1>1, <2>1
<1>4. ExistsBijection(1..Len(ch), Waiting(ch))
  BY <1>2 DEF ExistsBijection
<1> QED BY <1>3, <1>4, FS_Bijection

\* Consumers with at most one element in hand hold no more than they are.
LEMMA InHandCount ==
  ASSUME NEW S, NEW W, IsFiniteSet(W), NEW hand \in [W -> SUBSET S],
         \A w \in W : \A x, y \in hand[w] : x = y
  PROVE  IsFiniteSet(InHand(S, W, hand)) /\ Cardinality(InHand(S, W, hand)) <= Cardinality(W)
<1> DEFINE Busy == {w \in W : hand[w] # {}}
           Held == InHand(S, W, hand)
           g == [w \in Busy |-> CHOOSE x \in hand[w] : TRUE]
<1>1. IsFiniteSet(Busy) /\ Cardinality(Busy) <= Cardinality(W)
  BY FS_Subset
<1>2. \A w \in Busy : g[w] \in hand[w]
  OBVIOUS
<1>3. g \in [Busy -> Held]
  BY <1>2 DEF InHand
<1>4. \A x \in Held : \E w \in Busy : g[w] = x
  BY <1>2 DEF InHand
<1>5. g \in Surjection(Busy, Held)
  BY <1>3, <1>4 DEF Surjection
<1> HIDE DEF Held, g
<1>6. IsFiniteSet(Held) /\ Cardinality(Held) <= Cardinality(Busy)
  BY <1>1, <1>5, FS_Surjection
<1>7. {Cardinality(Held), Cardinality(Busy), Cardinality(W)} \subseteq Nat
  BY <1>1, <1>6, FS_CardinalityType
<1> QED BY <1>1, <1>6, <1>7 DEF Held

\* What is outstanding is at least what waits, and at most that and one element
\* for each consumer.
LEMMA OutstandingCount ==
  ASSUME NEW S, NEW ch \in Seq(S), \A i, j \in DOMAIN ch : ch[i] = ch[j] => i = j,
         NEW W, IsFiniteSet(W), NEW hand \in [W -> SUBSET S],
         \A w \in W : \A x, y \in hand[w] : x = y,
         NEW Out, Out = Waiting(ch) \cup InHand(S, W, hand)
  PROVE  /\ IsFiniteSet(Out)
         /\ {Cardinality(Out), Cardinality(W)} \subseteq Nat
         /\ Len(ch) <= Cardinality(Out)
         /\ Cardinality(Out) <= Len(ch) + Cardinality(W)
<1> DEFINE A == Waiting(ch)
           B == InHand(S, W, hand)
<1>1. IsFiniteSet(A) /\ Cardinality(A) = Len(ch)
  BY WaitingCount
<1>2. IsFiniteSet(B) /\ Cardinality(B) <= Cardinality(W)
  BY InHandCount
<1>3. Out = A \cup B
  OBVIOUS
<1> HIDE DEF A, B
<1>4. IsFiniteSet(Out)
      /\ Cardinality(Out) = Cardinality(A) + Cardinality(B) - Cardinality(A \cap B)
  BY <1>1, <1>2, <1>3, FS_Union
<1>5. Cardinality(A \cap B) <= Cardinality(B) /\ IsFiniteSet(A \cap B)
  BY <1>1, <1>2, FS_Intersection
<1>6. {Cardinality(A), Cardinality(B), Cardinality(A \cap B), Cardinality(W), Cardinality(Out)}
        \subseteq Nat
  BY <1>1, <1>2, <1>4, <1>5, FS_CardinalityType
<1> QED BY <1>1, <1>2, <1>4, <1>5, <1>6
===============================================================================
