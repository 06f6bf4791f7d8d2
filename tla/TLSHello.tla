------------------------------- MODULE TLSHello -------------------------------
(***************************************************************************)
(* tlsHelloStore (tls_hello.go): fingerprints of ClientHellos, kept by     *)
(* remote address, between the handshakes that remember them and the       *)
(* requests that look them up. One store serves the TCP listener for HTTPS *)
(* and the QUIC listener for HTTP/3; requests over plain HTTP look it up   *)
(* as well. Only the TCP server reports the end of its connections.        *)
(***************************************************************************)
EXTENDS JA3, FiniteSets

CONSTANTS
  Conns,     \* connections, each accepted at most once
  Addrs,     \* remote addresses, IP and port
  Hellos,    \* the ClientHello of each TLS or QUIC connection
  kind,      \* "tls", "quic" or "plain"
  addr,      \* the remote address of each connection
  Missing    \* the result of a Lookup that finds nothing

ASSUME TLSHelloAssumption ==
  /\ kind \in [Conns -> {"tls", "quic", "plain"}]
  /\ addr \in [Conns -> Addrs]

VARIABLES
  byAddr,    \* the sync.Map
  phase,     \* where each connection is in its life
  inFlight,  \* the connections with a request that has not been looked up yet
  seen,      \* what the requests of each connection found
  cut        \* what the end of each connection's socket interrupted

vars == <<byAddr, phase, inFlight, seen, cut>>

Phase == {"new", "accepted", "open", "late", "hungUp", "closed"}

\* The fingerprint of the connection's own hello.
Own(c) == ja3FromClientHello(Hellos[c])
Fingerprints == {Own(c) : c \in {d \in Conns : kind[d] # "plain"}}

TypeOK ==
  /\ byAddr \in [Addrs -> Fingerprints \cup {Missing}]
  /\ phase \in [Conns -> Phase]
  /\ inFlight \subseteq Conns
  /\ seen \in [Conns -> SUBSET (Fingerprints \cup {Missing})]
  /\ cut \in [Conns -> {"nothing", "handshake", "request"}]

Init ==
  /\ byAddr = [a \in Addrs |-> Missing]
  /\ phase = [c \in Conns |-> "new"]
  /\ inFlight = {}
  /\ seen = [c \in Conns |-> {}]
  /\ cut = [c \in Conns |-> "nothing"]

\* A remote address names one socket of a TCP listener at a time. It may be used
\* again as soon as the socket is closed, before the server notices. QUIC tells
\* connections apart by their identifiers, not by their addresses.
Accept(c) ==
  /\ phase[c] = "new"
  /\ kind[c] = "quic" \/ \A d \in Conns :
       kind[d] = kind[c] /\ addr[d] = addr[c] => phase[d] \notin {"accepted", "open"}
  /\ phase' = [phase EXCEPT ![c] = IF kind[c] = "plain" THEN "open" ELSE "accepted"]
  /\ UNCHANGED <<byAddr, inFlight, seen, cut>>

\* A handshake goes on with the hello it has read, even on a socket that is gone.
Handshake(c) ==
  /\ kind[c] # "plain" /\ phase[c] \in {"accepted", "late"}
  /\ phase' = [phase EXCEPT ![c] = IF phase[c] = "late" THEN "hungUp" ELSE "open"]
  /\ UNCHANGED <<inFlight, seen, cut>>

\* Broken form: the first hello of an address is kept.
RememberFirst(c) ==
  /\ Handshake(c)
  /\ byAddr' = [byAddr EXCEPT ![addr[c]] = IF @ = Missing THEN Own(c) ELSE @]

\* Broken form: the digest leaves out the version.
RememberVersionless(c) ==
  /\ Handshake(c)
  /\ byAddr' = [byAddr EXCEPT ![addr[c]] = Tail(Own(c))]

\* GetConfigForClient, during the handshake.
Remember(c) ==
  /\ Handshake(c)
  /\ byAddr' = [byAddr EXCEPT ![addr[c]] = Own(c)]

\* A request comes in and its handler starts.
Arrive(c) ==
  /\ phase[c] = "open" /\ c \notin inFlight
  /\ inFlight' = inFlight \cup {c}
  /\ UNCHANGED <<byAddr, phase, seen, cut>>

\* Broken form: the entry is taken out as it is read.
LookupTaking(c) ==
  /\ c \in inFlight
  /\ inFlight' = inFlight \ {c}
  /\ seen' = [seen EXCEPT ![c] = @ \cup {byAddr[addr[c]]}]
  /\ byAddr' = [byAddr EXCEPT ![addr[c]] = Missing]
  /\ UNCHANGED <<phase, cut>>

\* buildHTTPRequest, after the lookup of the client's geolocation: by then the
\* client may be gone, and over HTTP/2 its end reported.
Lookup(c) ==
  /\ c \in inFlight
  /\ inFlight' = inFlight \ {c}
  /\ seen' = [seen EXCEPT ![c] = @ \cup {byAddr[addr[c]]}]
  /\ UNCHANGED <<byAddr, phase, cut>>

\* The socket is closed, by either side. Only net/http's TLS server calls
\* ConnState afterwards, from the connection's own goroutine.
HangUp(c) ==
  /\ phase[c] \in {"accepted", "open"}
  /\ phase' = [phase EXCEPT ![c] =
       IF kind[c] # "tls" THEN "closed" ELSE IF phase[c] = "open" THEN "hungUp" ELSE "late"]
  /\ cut' = [cut EXCEPT ![c] =
       IF phase[c] = "accepted" THEN "handshake" ELSE IF c \in inFlight THEN "request" ELSE @]
  /\ UNCHANGED <<byAddr, inFlight, seen>>

Closed(c) ==
  /\ phase[c] \in {"late", "hungUp"}
  /\ phase' = [phase EXCEPT ![c] = "closed"]
  /\ UNCHANGED <<inFlight, seen, cut>>

\* Broken form: only StateHijacked deletes.
ConnStateHijackedOnly(c) == Closed(c) /\ UNCHANGED byAddr

\* StateClosed.
ConnState(c) ==
  /\ Closed(c)
  /\ byAddr' = [byAddr EXCEPT ![addr[c]] = Missing]

Finished ==
  /\ \A c \in Conns : phase[c] = "closed"
  /\ inFlight = {}
  /\ UNCHANGED vars

Next ==
  \/ \E c \in Conns : Accept(c) \/ Remember(c) \/ Arrive(c) \/ Lookup(c) \/ HangUp(c) \/ ConnState(c)
  \/ Finished

Spec == Init /\ [][Next]_vars
-------------------------------------------------------------------------------
(* Properties.                                                             *)

\* The connections that may share c's address with it while both are open.
Crossing(c) ==
  {d \in Conns \ {c} : addr[d] = addr[c] /\ (kind[d] # kind[c] \/ kind[c] = "quic")}

\* What the map's key cannot tell apart: those, the client that reconnected while
\* c's request was still being looked up, and the one cut off in its handshake,
\* whose hello is remembered late.
Confusable(c) ==
  \/ Crossing(c) # {}
  \/ cut[c] = "request"
  \/ \E d \in Conns : addr[d] = addr[c] /\ cut[d] = "handshake"

\* In no other case is a request shown another connection's fingerprint: whatever
\* the order of closes, callbacks and reconnects on an address, it finds its own
\* or, when a late callback has removed it, none.
NeverForeign ==
  \A c \in Conns : ~Confusable(c) =>
    seen[c] \subseteq (IF kind[c] = "plain" THEN {} ELSE {Own(c)}) \cup {Missing}

\* The fingerprint of an open HTTPS connection stays until it ends: nothing takes
\* it away but the late callback of a connection that had its address before.
KeptWhileOpen ==
  [][\A c \in Conns :
       /\ ~Confusable(c) /\ kind[c] = "tls"
       /\ phase[c] = "open" /\ phase'[c] = "open" /\ byAddr[addr[c]] = Own(c)
       /\ \A d \in Conns : addr[d] = addr[c] /\ phase[d] = "hungUp" => phase'[d] = "hungUp"
       => byAddr'[addr[c]] = Own(c)]_vars

\* The entry of an address is backed by a TCP connection whose end is still to
\* be reported, or comes from HTTP/3: TCP leaves nothing behind.
EntryIsBacked ==
  \A a \in Addrs : byAddr[a] # Missing =>
    \E c \in Conns :
      /\ addr[c] = a
      /\ byAddr[a] = Own(c)
      /\ kind[c] = "quic" \/ phase[c] \in {"open", "hungUp"}

\* "for the life of a connection": once the connections of an address are gone,
\* so is its entry.
EntryDiesWithConnection ==
  \A a \in Addrs :
    (\A c \in Conns : addr[c] = a => phase[c] = "closed") => byAddr[a] = Missing
===============================================================================
