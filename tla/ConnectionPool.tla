--------------------------- MODULE ConnectionPool ---------------------------
(***************************************************************************)
(* Requests that take a connection from a pool bucketed by ConnectionKey, *)
(* open one (TLS handshake, then Fingerprint.check) when the bucket is    *)
(* empty, and give it back when done.  ConnectionKey, connection_key,    *)
(* is_ssl and Fingerprint are the repository's; the pool itself lives in  *)
(* the connector, outside this repository, and follows the spec's pool   *)
(* key contract (spec 6): connections are bucketed by key equality only. *)
(* The proxy fields of the key are None throughout.                      *)
(*                                                                         *)
(* A certificate is named by the server name it was issued for: a        *)
(* server shown name n in the handshake presents the certificate for n,  *)
(* and its digest is that name.                                           *)
(***************************************************************************)
EXTENDS Naturals, Sequences

CONSTANTS
    Slots,      \* the requests made
    Hosts,      \* url.raw_host values
    Names,      \* server_hostname values other than None
    FpObjs,     \* Fingerprint(...) objects the caller built
    FpLen,      \* FpObjs -> the byte length of the digest given
    Pin,        \* FpObjs -> the certificate (server name) the digest is of
    NoName,     \* server_hostname=None
    MaxConns    \* connections the pool may open in a run

ASSUME PoolAssumption ==
    /\ MaxConns \in Nat
    /\ FpLen \in [FpObjs -> {16, 20, 32}]
    /\ Pin \in [FpObjs -> Hosts \cup Names]
    /\ NoName \notin Names

VARIABLES
    spec,     \* Slots -> the request's url host, scheme, ssl and server_hostname
    phase,    \* Slots -> "new", "connected", "done" or "failed"
    connOf,   \* Slots -> the connection the request holds (0: none)
    conns,    \* 1..opened -> the connections opened: key, name, certificate
    idle      \* the pool: connections free for reuse

vars == <<spec, phase, connOf, conns, idle>>

-----------------------------------------------------------------------------
(* Fingerprint.__init__: the digest length picks the hash; md5 (16) and  *)
(* sha1 (20) are refused, so only a sha256 digest builds an object.      *)
HashFuncByDigestLen == [l \in {16, 20, 32} |->
                           CASE l = 16 -> "md5" [] l = 20 -> "sha1" [] l = 32 -> "sha256"]

FingerprintBuilt(f) == HashFuncByDigestLen[FpLen[f]] \notin {"md5", "sha1"}

(* Fingerprint.check: a no-op without TLS, else the peer certificate's  *)
(* digest must be the pinned one (ServerFingerprintMismatch otherwise).  *)
FingerprintCheck(f, tls, cert) == ~tls \/ cert = Pin[f]

\* The ssl argument: True (verify), False (no verification) or a
\* Fingerprint; an SSLContext is left out.
SslPolicies == {"verify", "noverify"} \cup {f \in FpObjs : FingerprintBuilt(f)}

Requests == [host : Hosts, isSsl : BOOLEAN, ssl : SslPolicies,
             serverHostname : Names \cup {NoName}]

\* Seeded fault: a key without the ssl policy.
MutKeyNoSsl(r) == [host |-> r.host, port |-> IF r.isSsl THEN 443 ELSE 80,
                   isSsl |-> r.isSsl, ssl |-> "verify"]

(* ClientRequest.connection_key: host, port, is_ssl(), ssl, proxy,        *)
(* proxy_auth and the proxy-header hash; the port follows the scheme and *)
(* the proxy fields are None.  Fingerprint has no __eq__, so two objects *)
(* are equal only if they are the same one: model values.               *)
ConnectionKey(r) == [host |-> r.host, port |-> IF r.isSsl THEN 443 ELSE 80,
                     isSsl |-> r.isSsl, ssl |-> r.ssl]

\* The name the TLS handshake sends (SNI) and checks the certificate for.
HandshakeName(r) == IF r.serverHostname = NoName THEN r.host ELSE r.serverHostname

\* An opened connection: its pool key, the name its TLS handshake used
\* (the certificate it got) and whether it is TLS.
Connections == [key : {ConnectionKey(r) : r \in Requests},
                name : Hosts \cup Names, tls : BOOLEAN]

TypeOK ==
    /\ spec \in [Slots -> Requests]
    /\ phase \in [Slots -> {"new", "connected", "done", "failed"}]
    /\ connOf \in [Slots -> 0..MaxConns]
    /\ conns \in Seq(Connections) /\ Len(conns) <= MaxConns
    /\ idle \subseteq 1..Len(conns)

Init ==
    /\ spec \in [Slots -> Requests]
    /\ phase = [s \in Slots |-> "new"]
    /\ connOf = [s \in Slots |-> 0]
    /\ conns = <<>>
    /\ idle = {}

-----------------------------------------------------------------------------
\* The idle connections of request s's bucket.
Bucket(s) == {c \in idle : conns[c].key = ConnectionKey(spec[s])}

(* The pool hands request s an idle connection of its bucket.            *)
Acquire(s) ==
    /\ phase[s] = "new"
    /\ \E c \in Bucket(s) :
         /\ connOf' = [connOf EXCEPT ![s] = c]
         /\ idle' = idle \ {c}
    /\ phase' = [phase EXCEPT ![s] = "connected"]
    /\ UNCHANGED <<spec, conns>>

(* The bucket is empty: a connection is opened.  Over TLS the handshake  *)
(* sends HandshakeName and the server presents that name's certificate; *)
(* a Fingerprint is then checked and a mismatch fails the request.      *)
Connect(s) ==
    /\ phase[s] = "new"
    /\ Bucket(s) = {}
    /\ Len(conns) < MaxConns
    /\ LET r == spec[s]
           c == [key |-> ConnectionKey(r), name |-> HandshakeName(r), tls |-> r.isSsl]
       IN  IF r.ssl \in FpObjs /\ ~FingerprintCheck(r.ssl, r.isSsl, c.name)
           THEN /\ phase' = [phase EXCEPT ![s] = "failed"]
                /\ UNCHANGED <<connOf, conns>>
           ELSE /\ conns' = Append(conns, c)
                /\ connOf' = [connOf EXCEPT ![s] = Len(conns) + 1]
                /\ phase' = [phase EXCEPT ![s] = "connected"]
    /\ UNCHANGED <<spec, idle>>

\* Seeded fault: a release that does not check the request holds one.
MutReleaseUnguarded(s) ==
    /\ idle' = idle \cup {connOf[s]}
    /\ connOf' = [connOf EXCEPT ![s] = 0]
    /\ phase' = [phase EXCEPT ![s] = "done"]
    /\ UNCHANGED <<spec, conns>>

(* The response is released: the connection goes back to the pool.      *)
Release(s) ==
    /\ phase[s] = "connected"
    /\ idle' = idle \cup {connOf[s]}
    /\ connOf' = [connOf EXCEPT ![s] = 0]
    /\ phase' = [phase EXCEPT ![s] = "done"]
    /\ UNCHANGED <<spec, conns>>

Next == \E s \in Slots : Acquire(s) \/ Connect(s) \/ Release(s)

Spec == Init /\ [][Next]_vars

-----------------------------------------------------------------------------
(* The refinement mapping onto ConnectionLease: a request's scheme and   *)
(* ssl argument, and a connection's TLS session (whether it is TLS and   *)
(* the certificate its handshake got).                                    *)
LeaseReq == [s \in Slots |-> [isSsl |-> spec[s].isSsl, ssl |-> spec[s].ssl]]

LeaseSessions == [i \in 1..Len(conns) |-> [tls |-> conns[i].tls, cert |-> conns[i].name]]

Lease == INSTANCE ConnectionLease
             WITH Certs <- Hosts \cup Names, SslArgs <- SslPolicies,
                  req <- LeaseReq, holder <- connOf, sessions <- LeaseSessions,
                  pool <- idle

(* Connection reuse keeps its promise: the pool, bucketed by             *)
(* ConnectionKey, serves a request only over a connection it holds alone *)
(* whose TLS session fits its scheme and its Fingerprint pin.             *)
LeaseRefined == Lease!Spec

\* The connection request s holds.
Held(s) == conns[connOf[s]]

(* A request pinned to a Fingerprint is only ever served over a TLS       *)
(* connection whose certificate has the pinned digest: a connection      *)
(* opened under another ssl policy, whose certificate was never checked *)
(* against the pin, is never handed to it from the pool.                 *)
FingerprintPinned ==
    \A s \in Slots :
        (phase[s] = "connected" /\ spec[s].ssl \in FpObjs /\ spec[s].isSsl)
            => Held(s).tls /\ Held(s).name = Pin[spec[s].ssl]

(* Spec 3: two requests that would negotiate incompatible TLS must never  *)
(* share a key; a request is served over TLS negotiated for its own      *)
(* server name (server_hostname, else the URL host).                      *)
ServedUnderOwnServerName ==
    \A s \in Slots :
        (phase[s] = "connected" /\ spec[s].isSsl)
            => Held(s).name = HandshakeName(spec[s])

=============================================================================
