--------------------------- MODULE MCConnectionPool ---------------------------
(* Three requests to one host, one alternative server name, two usable   *)
(* Fingerprints pinning the host's and the alternative name's            *)
(* certificate and one sha1-length digest that construction refuses; up  *)
(* to two connections, so a second request can find the first's          *)
(* connection idle in the pool or open its own.                           *)
EXTENDS ConnectionPool, TLC

CONSTANTS s1, s2, s3, h1, n1, f1, f2, f3

MCSlots == {s1, s2, s3}
MCHosts == {h1}
MCNames == {n1}
MCFpObjs == {f1, f2, f3}
MCFpLen == (f1 :> 32) @@ (f2 :> 32) @@ (f3 :> 20)
MCPin == (f1 :> h1) @@ (f2 :> n1) @@ (f3 :> h1)
MCMaxConns == 2

\* The requests are interchangeable: each picks its arguments in Init.
MCSymmetry == Permutations(MCSlots)

=============================================================================
