------------------------------ MODULE MCTLSHello ------------------------------
(* Two HTTPS connections that reuse one address, with hellos that differ for  *)
(* real, and an address that HTTP/3 and plain HTTP share.                     *)
EXTENDS TLSHello, TLC

CONSTANTS c1, c2, h3, http, a1, a2

MCkind == c1 :> "tls" @@ c2 :> "tls" @@ h3 :> "quic" @@ http :> "plain"
MCaddr == c1 :> a1 @@ c2 :> a1 @@ h3 :> a2 @@ http :> a2

Hello(grease, cipher) ==
  [versions |-> <<grease, 772, 771>>, ciphers |-> <<grease, cipher>>,
   extensions |-> <<0, grease, 43>>, curves |-> <<29>>, points |-> <<0>>]

MCHellos ==
  c1 :> Hello(2570, 4865) @@ c2 :> Hello(6682, 4866) @@ h3 :> Hello(2570, 4867)

\* The bit test against the reserved values, for every 16-bit value.
ASSUME GreaseByEnumeration == \A v \in Word : isTLSGrease(v) <=> v \in GreaseValues
===============================================================================
