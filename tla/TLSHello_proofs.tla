---------------------------- MODULE TLSHello_proofs ----------------------------
(***************************************************************************)
(* Proofs about TLSHello, for any connections, addresses and hellos: that  *)
(* no request sees the fingerprint of a connection it cannot be confused   *)
(* with, and that TCP leaves no entry behind; and that JA3's bit test      *)
(* finds exactly the GREASE values.                                        *)
(***************************************************************************)
EXTENDS TLSHello, TLAPS

(***************************************************************************)
(* JA3.                                                                    *)
(***************************************************************************)

\* The bit test of isTLSGrease holds of the sixteen values RFC 8701 reserves,
\* and of no other 16-bit value.
THEOREM GreaseIsRecognised == \A v \in Word : isTLSGrease(v) <=> v \in GreaseValues
<1> SUFFICES ASSUME NEW v \in Word
             PROVE  isTLSGrease(v) <=> v \in GreaseValues
  OBVIOUS
<1>1. ASSUME isTLSGrease(v) PROVE v \in GreaseValues
  <2>1. v \div 256 = v % 256 /\ v % 16 = 10 /\ v = 256 * (v \div 256) + (v % 256)
    BY <1>1 DEF isTLSGrease, Word
  <2> DEFINE b == v % 256
  <2>2. b \in 0..255 /\ v = 257 * b
    BY <2>1 DEF Word
  <2>3. b % 16 = 10
    BY <2>1, <2>2
  <2> DEFINE k == b \div 16
  <2>4. k \in 0..15 /\ b = 16 * k + 10
    BY <2>2, <2>3
  <2>5. v = 2570 + 4112 * k
    BY <2>2, <2>4
  <2> QED BY <2>4, <2>5 DEF GreaseValues
<1>2. ASSUME v \in GreaseValues PROVE isTLSGrease(v)
  <2>1. PICK k \in 0..15 : v = 2570 + 4112 * k
    BY <1>2 DEF GreaseValues
  <2>2. v = 16 * (160 + 257 * k) + 10 /\ v = 256 * (10 + 16 * k) + (10 + 16 * k)
    BY <2>1
  <2>3. v % 16 = 10
    BY <2>2
  <2>4. v \div 256 = 10 + 16 * k /\ v % 256 = 10 + 16 * k
    BY <2>2
  <2> QED BY <2>3, <2>4 DEF isTLSGrease
<1> QED BY <1>1, <1>2

(***************************************************************************)
(* The inductive invariant.                                                *)
(***************************************************************************)

Live == {"accepted", "open"}

\* An address belongs to one connection of each TCP listener at a time, from the
\* accept to the close of its socket.
OneOwner ==
  \A c, d \in Conns :
    kind[c] = kind[d] /\ kind[c] # "quic" /\ addr[c] = addr[d]
      /\ phase[c] \in Live /\ phase[d] \in Live => c = d

\* What the end of a socket interrupted is remembered.
CutInv ==
  /\ \A c \in Conns : phase[c] \in {"new", "accepted", "open"} => cut[c] = "nothing"
  /\ \A c \in Conns : phase[c] = "late" => cut[c] = "handshake"
  /\ \A c \in inFlight : phase[c] = "open" \/ cut[c] = "request"

\* While a connection is open, the entry of its address is its own, or gone,
\* unless it may be confused with another.
OwnEntry ==
  \A c \in Conns : ~Confusable(c) /\ phase[c] = "open" =>
    byAddr[addr[c]] \in (IF kind[c] = "plain" THEN {} ELSE {Own(c)}) \cup {Missing}

\* EntryIsBacked, by a connection that had a hello to remember.
Backed ==
  \A a \in Addrs : byAddr[a] # Missing =>
    \E c \in Conns :
      /\ addr[c] = a
      /\ byAddr[a] = Own(c)
      /\ \/ kind[c] = "quic"
         \/ kind[c] = "tls" /\ phase[c] \in {"open", "hungUp"}

IInv == TypeOK /\ OneOwner /\ CutInv /\ OwnEntry /\ Backed /\ NeverForeign

LEMMA TypeInit == Init => TypeOK
  BY DEF Init, TypeOK, Phase

LEMMA TypeStep == ASSUME TypeOK, [Next]_vars PROVE TypeOK'
<1> USE DEF TypeOK, Phase
<1>1. ASSUME NEW c \in Conns, Accept(c) PROVE TypeOK'
  BY <1>1 DEF Accept
<1>2. ASSUME NEW c \in Conns, Remember(c) PROVE TypeOK'
  <2>1. addr[c] \in Addrs /\ Own(c) \in Fingerprints
    BY <1>2, TLSHelloAssumption DEF Remember, Handshake, Fingerprints
  <2> QED BY <1>2, <2>1 DEF Remember, Handshake
<1>3. ASSUME NEW c \in Conns, Arrive(c) PROVE TypeOK'
  BY <1>3 DEF Arrive
<1>4. ASSUME NEW c \in Conns, Lookup(c) PROVE TypeOK'
  <2>1. byAddr[addr[c]] \in Fingerprints \cup {Missing}
    BY TLSHelloAssumption
  <2>2. seen[c] \cup {byAddr[addr[c]]} \in SUBSET (Fingerprints \cup {Missing})
    BY <2>1
  <2> QED BY <1>4, <2>2 DEF Lookup
<1>5. ASSUME NEW c \in Conns, HangUp(c) PROVE TypeOK'
  BY <1>5 DEF HangUp
<1>6. ASSUME NEW c \in Conns, ConnState(c) PROVE TypeOK'
  BY <1>6 DEF ConnState, Closed
<1>7. ASSUME Finished \/ UNCHANGED vars PROVE TypeOK'
  BY <1>7 DEF Finished, vars
<1> QED BY <1>1, <1>2, <1>3, <1>4, <1>5, <1>6, <1>7 DEF Next

LEMMA OwnerStep == ASSUME TypeOK, OneOwner, [Next]_vars PROVE OneOwner'
<1> USE DEF TypeOK, OneOwner, Live
<1>1. ASSUME NEW c \in Conns, Accept(c) PROVE OneOwner'
  BY <1>1 DEF Accept
<1>2. ASSUME NEW c \in Conns, Remember(c) PROVE OneOwner'
  BY <1>2 DEF Remember, Handshake
<1>3. ASSUME NEW c \in Conns, HangUp(c) PROVE OneOwner'
  BY <1>3 DEF HangUp
<1>4. ASSUME NEW c \in Conns, ConnState(c) PROVE OneOwner'
  BY <1>4 DEF ConnState, Closed
<1>5. ASSUME UNCHANGED phase PROVE OneOwner'
  BY <1>5
<1> QED BY <1>1, <1>2, <1>3, <1>4, <1>5 DEF Next, Arrive, Lookup, Finished, vars

LEMMA CutStep == ASSUME TypeOK, CutInv, [Next]_vars PROVE CutInv'
<1> USE DEF TypeOK, CutInv
<1>1. ASSUME NEW c \in Conns, Accept(c) PROVE CutInv'
  BY <1>1 DEF Accept
<1>2. ASSUME NEW c \in Conns, Remember(c) PROVE CutInv'
  BY <1>2 DEF Remember, Handshake
<1>3. ASSUME NEW c \in Conns, Arrive(c) \/ Lookup(c) PROVE CutInv'
  BY <1>3 DEF Arrive, Lookup
<1>4. ASSUME NEW c \in Conns, HangUp(c) PROVE CutInv'
  BY <1>4 DEF HangUp
<1>5. ASSUME NEW c \in Conns, ConnState(c) PROVE CutInv'
  BY <1>5 DEF ConnState, Closed
<1>6. ASSUME Finished \/ UNCHANGED vars PROVE CutInv'
  BY <1>6 DEF Finished, vars
<1> QED BY <1>1, <1>2, <1>3, <1>4, <1>5, <1>6 DEF Next

\* Nothing makes a connection less confusable.
LEMMA ConfusionStays ==
  ASSUME TypeOK, CutInv, [Next]_vars, NEW c \in Conns, Confusable(c)
  PROVE  Confusable(c)'
<1> USE DEF Confusable, Crossing, TypeOK
<1>1. ASSUME NEW d \in Conns, HangUp(d) PROVE Confusable(c)'
  <2>1. \A e \in Conns : cut[e] \in {"request", "handshake"} => cut'[e] = cut[e]
    BY <1>1 DEF HangUp, CutInv
  <2> QED BY <2>1
<1>2. ASSUME UNCHANGED cut PROVE Confusable(c)'
  BY <1>2
<1> QED BY <1>1, <1>2 DEF Next, Accept, Remember, Handshake, Arrive, Lookup, ConnState, Closed,
                         Finished, vars

\* A second connection of an address that could remember its hello is of the
\* same listener, or the two may be confused, and then OneOwner excludes it.
LEMMA EntryStep ==
  ASSUME TypeOK, OneOwner, CutInv, OwnEntry, Backed, [Next]_vars
  PROVE  OwnEntry'
<1> USE DEF TypeOK
<1> DEFINE Entry(c) == (IF kind[c] = "plain" THEN {} ELSE {Own(c)}) \cup {Missing}
<1> SUFFICES ASSUME NEW d \in Conns, ~Confusable(d), phase'[d] = "open"
             PROVE  byAddr'[addr[d]] \in Entry(d)
  BY ConfusionStays DEF OwnEntry
<1> addr[d] \in Addrs
  BY TLSHelloAssumption
<1>0. ASSUME phase[d] = "open", byAddr'[addr[d]] \in {byAddr[addr[d]], Missing}
      PROVE  byAddr'[addr[d]] \in Entry(d)
  BY <1>0 DEF OwnEntry
<1>1. ASSUME NEW c \in Conns, Accept(c) PROVE byAddr'[addr[d]] \in Entry(d)
  <2>1. CASE c = d /\ kind[c] = "plain"
    <3>1. byAddr[addr[d]] = Missing
      BY <2>1 DEF Backed, Crossing, Confusable
    <3> QED BY <1>1, <3>1 DEF Accept
  <2>2. CASE c # d \/ kind[c] # "plain"
    BY <1>1, <2>2, <1>0 DEF Accept
  <2> QED BY <2>1, <2>2
<1>2. ASSUME NEW c \in Conns, Remember(c) PROVE byAddr'[addr[d]] \in Entry(d)
  <2>1. CASE c = d
    BY <1>2, <2>1 DEF Remember, Handshake
  <2>2. CASE c # d /\ addr[c] = addr[d]
    <3>1. kind[c] = kind[d] /\ kind[d] # "quic" /\ cut[c] # "handshake"
      BY <2>2 DEF Crossing, Confusable
    <3>2. phase[c] = "accepted" /\ phase[d] = "open"
      BY <1>2, <2>2, <3>1 DEF Remember, Handshake, CutInv
    <3> QED BY <2>2, <3>1, <3>2 DEF OneOwner, Live
  <2>3. CASE c # d /\ addr[c] # addr[d]
    BY <1>2, <2>3, <1>0 DEF Remember, Handshake
  <2> QED BY <2>1, <2>2, <2>3
<1>3. ASSUME NEW c \in Conns, HangUp(c) PROVE byAddr'[addr[d]] \in Entry(d)
  BY <1>3, <1>0 DEF HangUp
<1>4. ASSUME NEW c \in Conns, ConnState(c) PROVE byAddr'[addr[d]] \in Entry(d)
  BY <1>4, <1>0 DEF ConnState, Closed
<1>5. ASSUME UNCHANGED <<byAddr, phase>> PROVE byAddr'[addr[d]] \in Entry(d)
  BY <1>5, <1>0
<1> QED BY <1>1, <1>2, <1>3, <1>4, <1>5 DEF Next, Arrive, Lookup, Finished, vars

LEMMA BackedStep == ASSUME TypeOK, Backed, [Next]_vars PROVE Backed'
<1> USE DEF TypeOK
<1> SUFFICES ASSUME NEW a \in Addrs, byAddr'[a] # Missing
             PROVE  \E c \in Conns :
                      /\ addr[c] = a
                      /\ byAddr'[a] = Own(c)
                      /\ \/ kind[c] = "quic"
                         \/ kind[c] = "tls" /\ phase'[c] \in {"open", "hungUp"}
  BY DEF Backed
<1> DEFINE Goal == \E c \in Conns :
                      /\ addr[c] = a
                      /\ byAddr'[a] = Own(c)
                      /\ \/ kind[c] = "quic"
                         \/ kind[c] = "tls" /\ phase'[c] \in {"open", "hungUp"}
\* The witness is the one there was, if its address has not been touched.
<1>0. ASSUME byAddr'[a] = byAddr[a],
             \A b \in Conns : addr[b] = a /\ kind[b] = "tls" /\ phase[b] \in {"open", "hungUp"}
               => phase'[b] \in {"open", "hungUp"}
      PROVE  Goal
  <2>1. PICK b \in Conns : /\ addr[b] = a
                           /\ byAddr[a] = Own(b)
                           /\ \/ kind[b] = "quic"
                              \/ kind[b] = "tls" /\ phase[b] \in {"open", "hungUp"}
    BY <1>0 DEF Backed
  <2> QED BY <1>0, <2>1
<1>1. ASSUME NEW c \in Conns, Accept(c) PROVE Goal
  BY <1>1, <1>0 DEF Accept
<1>2. ASSUME NEW c \in Conns, Remember(c) PROVE Goal
  <2>1. CASE addr[c] = a
    <3>1. byAddr'[a] = Own(c) /\ phase'[c] \in {"open", "hungUp"} /\ kind[c] \in {"tls", "quic"}
      BY <1>2, <2>1, TLSHelloAssumption DEF Remember, Handshake
    <3> QED BY <2>1, <3>1
  <2>2. CASE addr[c] # a
    BY <1>2, <2>2, <1>0 DEF Remember, Handshake
  <2> QED BY <2>1, <2>2
<1>3. ASSUME NEW c \in Conns, HangUp(c) PROVE Goal
  BY <1>3, <1>0 DEF HangUp
<1>4. ASSUME NEW c \in Conns, ConnState(c) PROVE Goal
  <2>1. addr[c] # a
    BY <1>4 DEF ConnState
  <2> QED BY <1>4, <2>1, <1>0 DEF ConnState, Closed
<1>5. ASSUME UNCHANGED <<byAddr, phase>> PROVE Goal
  BY <1>5, <1>0
<1> QED BY <1>1, <1>2, <1>3, <1>4, <1>5 DEF Next, Arrive, Lookup, Finished, vars

LEMMA ForeignStep ==
  ASSUME TypeOK, CutInv, OwnEntry, NeverForeign, [Next]_vars
  PROVE  NeverForeign'
<1> USE DEF TypeOK
<1> DEFINE Entry(c) == (IF kind[c] = "plain" THEN {} ELSE {Own(c)}) \cup {Missing}
<1> SUFFICES ASSUME NEW d \in Conns, ~Confusable(d) PROVE seen'[d] \subseteq Entry(d)
  BY ConfusionStays DEF NeverForeign
<1>1. seen[d] \subseteq Entry(d)
  BY DEF NeverForeign
<1>2. ASSUME NEW c \in Conns, Lookup(c) PROVE seen'[d] \subseteq Entry(d)
  <2>1. CASE c = d
    <3>1. phase[d] = "open"
      BY <1>2, <2>1 DEF Lookup, CutInv, Confusable
    <3>2. byAddr[addr[d]] \in Entry(d)
      BY <3>1 DEF OwnEntry
    <3> QED BY <1>1, <1>2, <2>1, <3>2 DEF Lookup
  <2>2. CASE c # d
    BY <1>1, <1>2, <2>2 DEF Lookup
  <2> QED BY <2>1, <2>2
<1>3. ASSUME UNCHANGED seen PROVE seen'[d] \subseteq Entry(d)
  BY <1>1, <1>3
<1> QED BY <1>2, <1>3 DEF Next, Accept, Remember, Handshake, Arrive, HangUp, ConnState, Closed,
                         Finished, vars

(***************************************************************************)
(* The theorems.                                                           *)
(***************************************************************************)

\* The strengthened invariant holds of every reachable state of the store.
THEOREM Inductive == Spec => []IInv
<1>1. Init => IInv
  <2>1. ASSUME Init PROVE OneOwner /\ CutInv /\ OwnEntry /\ Backed /\ NeverForeign
    BY <2>1, TLSHelloAssumption DEF Init, OneOwner, CutInv, OwnEntry, Backed, NeverForeign, Live
  <2> QED BY <2>1, TypeInit DEF IInv
<1>2. IInv /\ [Next]_vars => IInv'
  BY TypeStep, OwnerStep, CutStep, EntryStep, BackedStep, ForeignStep DEF IInv
<1> QED BY <1>1, <1>2, PTL DEF Spec

\* tlsHelloStore's map and the connections around it are well typed.
THEOREM TypeCorrect == Spec => []TypeOK
<1>1. IInv => TypeOK
  BY DEF IInv
<1> QED BY <1>1, Inductive, PTL

\* Lookup never returns the fingerprint of another connection, however closes,
\* late ConnState callbacks and reconnects on one address interleave, unless the
\* connection is one that the address cannot tell from another.
THEOREM FingerprintsAreOwn == Spec => []NeverForeign
<1>1. IInv => NeverForeign
  BY DEF IInv
<1> QED BY <1>1, Inductive, PTL

\* ConnState removes what the TCP handshakes stored: an entry left behind can
\* only come from HTTP/3.
THEOREM TCPLeavesNothing == Spec => []EntryIsBacked
<1>1. IInv => EntryIsBacked
  BY DEF IInv, Backed, EntryIsBacked
<1> QED BY <1>1, Inductive, PTL
\* While an HTTPS connection that cannot be confused is open, a step leaves the
\* entry of its address alone: any other handshake on the address would be of a
\* connection that shares it, and any other end of one a late callback.
LEMMA KeptStep ==
  ASSUME IInv, [Next]_vars, NEW c \in Conns, ~Confusable(c), kind[c] = "tls",
         phase[c] = "open", phase'[c] = "open", byAddr[addr[c]] = Own(c),
         \A d \in Conns : addr[d] = addr[c] /\ phase[d] = "hungUp" => phase'[d] = "hungUp"
  PROVE  byAddr'[addr[c]] = Own(c)
<1> USE DEF IInv, TypeOK
<1>1. ASSUME NEW d \in Conns, Remember(d) PROVE byAddr'[addr[c]] = Own(c)
  <2>1. addr[d] # addr[c]
    <3> SUFFICES ASSUME addr[d] = addr[c] PROVE FALSE
      OBVIOUS
    <3>1. d # c /\ phase[d] \in {"accepted", "late"}
      BY <1>1 DEF Remember, Handshake
    <3>2. kind[d] = kind[c] /\ cut[d] # "handshake"
      BY <3>1 DEF Confusable, Crossing
    <3>3. phase[d] = "accepted"
      BY <3>1, <3>2 DEF CutInv
    <3> QED BY <3>1, <3>2, <3>3 DEF OneOwner, Live
  <2> QED BY <1>1, <2>1 DEF Remember
<1>2. ASSUME NEW d \in Conns, ConnState(d) PROVE byAddr'[addr[c]] = Own(c)
  <2>1. addr[d] # addr[c]
    <3> SUFFICES ASSUME addr[d] = addr[c] PROVE FALSE
      OBVIOUS
    <3>1. phase'[d] = "closed" /\ phase[d] \in {"late", "hungUp"}
      BY <1>2 DEF ConnState, Closed
    <3>2. cut[d] # "handshake"
      BY DEF Confusable
    <3> QED BY <3>1, <3>2 DEF CutInv
  <2> QED BY <1>2, <2>1 DEF ConnState
<1>3. ASSUME UNCHANGED byAddr PROVE byAddr'[addr[c]] = Own(c)
  BY <1>3
<1> QED BY <1>1, <1>2, <1>3 DEF Next, Accept, Arrive, Lookup, HangUp, Finished, vars

\* What an HTTPS handshake stored is there for every request of its connection,
\* for as long as it is open, but for the late callback of an earlier one.
THEOREM FingerprintIsKept == Spec => KeptWhileOpen
<1> DEFINE Kept ==
      \A c \in Conns :
        /\ ~Confusable(c) /\ kind[c] = "tls"
        /\ phase[c] = "open" /\ phase'[c] = "open" /\ byAddr[addr[c]] = Own(c)
        /\ \A d \in Conns : addr[d] = addr[c] /\ phase[d] = "hungUp" => phase'[d] = "hungUp"
        => byAddr'[addr[c]] = Own(c)
<1>1. IInv /\ [Next]_vars => [Kept]_vars
  BY KeptStep
<1> QED BY <1>1, Inductive, PTL DEF Spec, KeptWhileOpen

\* "for the life of a connection" is true of TCP: an address no QUIC connection
\* uses has no entry once its connections are closed. HTTP/3 alone leaves them.
THEOREM TCPEntriesDie ==
  Spec => [](\A a \in Addrs :
               (\A c \in Conns : addr[c] = a => kind[c] # "quic" /\ phase[c] = "closed")
               => byAddr[a] = Missing)
<1>1. EntryIsBacked => \A a \in Addrs :
        (\A c \in Conns : addr[c] = a => kind[c] # "quic" /\ phase[c] = "closed")
        => byAddr[a] = Missing
  BY DEF EntryIsBacked
<1> QED BY <1>1, TCPLeavesNothing, PTL
===============================================================================
