--------------------------------- MODULE JA3 ---------------------------------
(***************************************************************************)
(* The JA3 fingerprint of a TLS ClientHello (tls_hello.go). Numbers are    *)
(* 16 bits wide, as in the hello. The digest of the five fields is taken   *)
(* to be collision-free: it is the tuple of the fields it is computed from.*)
(***************************************************************************)
EXTENDS Integers, Sequences

Word == 0..65535

\* v&0x000f == 0x000a && v>>8 == v&0x00ff, in arithmetic.
isTLSGrease(v) == v % 16 = 10 /\ v \div 256 = v % 256

\* The values RFC 8701 reserves: 0x0A0A, 0x1A1A, ..., 0xFAFA.
GreaseValues == {2570 + 4112 * k : k \in 0..15}

WithoutGrease(s) == SelectSeq(s, LAMBDA v : ~isTLSGrease(v))

\* The highest advertised version that is not GREASE, 0 if there is none.
HighestVersion(versions) ==
  LET vs == {0} \cup {versions[i] : i \in {j \in DOMAIN versions : ~isTLSGrease(versions[j])}}
  IN  CHOOSE v \in vs : \A u \in vs : u <= v

\* EC point formats are bytes and are not filtered.
ja3FromClientHello(hello) ==
  <<HighestVersion(hello.versions), WithoutGrease(hello.ciphers),
    WithoutGrease(hello.extensions), WithoutGrease(hello.curves), hello.points>>
===============================================================================
