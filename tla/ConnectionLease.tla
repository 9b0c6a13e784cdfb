--------------------------- MODULE ConnectionLease ---------------------------
(***************************************************************************)
(* What connection reuse promises a request (spec 3 and 6): it is served *)
(* over a connection it holds alone, either a new one whose TLS session   *)
(* satisfies it, or one taken from the pool whose session satisfies it:  *)
(* TLS exactly when the request's scheme is, and for a request pinned to *)
(* a Fingerprint a certificate with the pinned digest.  Connections go   *)
(* back to the pool when their holder is done.  How the pool finds a     *)
(* fitting connection (ConnectionKey buckets) is left open;              *)
(* ConnectionPool implements it (ConnectionPool!Lease).                  *)
(***************************************************************************)
EXTENDS Naturals, Sequences

CONSTANTS
    Slots,     \* the requests
    Certs,     \* the certificates a server may present
    SslArgs,   \* the ssl arguments a request may carry
    FpObjs,    \* those that are Fingerprints
    Pin        \* FpObjs -> the certificate a Fingerprint pins

VARIABLES
    req,      \* Slots -> the request's scheme (isSsl) and ssl argument
    phase,    \* Slots -> "new", "connected", "done" or "failed"
    holder,   \* Slots -> the connection the request holds (0: none)
    sessions, \* 1..opened -> the TLS session of each connection opened
    pool      \* the connections free for reuse

vars == <<req, phase, holder, sessions, pool>>

Sessions == [tls : BOOLEAN, cert : Certs]

TypeOK ==
    /\ req \in [Slots -> [isSsl : BOOLEAN, ssl : SslArgs]]
    /\ phase \in [Slots -> {"new", "connected", "done", "failed"}]
    /\ sessions \in Seq(Sessions)
    /\ holder \in [Slots -> 0..Len(sessions)]
    /\ pool \subseteq 1..Len(sessions)

\* A TLS session n satisfies request s.
FitsSession(n, s) ==
    /\ n.tls = req[s].isSsl
    /\ (req[s].isSsl /\ req[s].ssl \in FpObjs) => n.cert = Pin[req[s].ssl]

Fits(c, s) == FitsSession(sessions[c], s)

Init ==
    /\ req \in [Slots -> [isSsl : BOOLEAN, ssl : SslArgs]]
    /\ phase = [s \in Slots |-> "new"]
    /\ holder = [s \in Slots |-> 0]
    /\ sessions = <<>>
    /\ pool = {}

\* Request s takes a fitting connection out of the pool.
Lease(s) ==
    /\ phase[s] = "new"
    /\ \E c \in pool :
         /\ Fits(c, s)
         /\ holder' = [holder EXCEPT ![s] = c]
         /\ pool' = pool \ {c}
    /\ phase' = [phase EXCEPT ![s] = "connected"]
    /\ UNCHANGED <<req, sessions>>

\* Request s opens a connection of its scheme and is served over it; a
\* session that does not fit is never kept (see Fail).
Open(s) ==
    /\ phase[s] = "new"
    /\ \E cert \in Certs :
         LET n == [tls |-> req[s].isSsl, cert |-> cert] IN
         /\ FitsSession(n, s)
         /\ sessions' = Append(sessions, n)
         /\ holder' = [holder EXCEPT ![s] = Len(sessions) + 1]
    /\ phase' = [phase EXCEPT ![s] = "connected"]
    /\ UNCHANGED <<req, pool>>

\* Opening a connection for request s fails; nothing is kept.
Fail(s) ==
    /\ phase[s] = "new"
    /\ phase' = [phase EXCEPT ![s] = "failed"]
    /\ UNCHANGED <<req, holder, sessions, pool>>

\* Request s is done: its connection goes back to the pool.
Return(s) ==
    /\ phase[s] = "connected"
    /\ pool' = pool \cup {holder[s]}
    /\ holder' = [holder EXCEPT ![s] = 0]
    /\ phase' = [phase EXCEPT ![s] = "done"]
    /\ UNCHANGED <<req, sessions>>

Next == \E s \in Slots : Lease(s) \/ Open(s) \/ Fail(s) \/ Return(s)

Spec == Init /\ [][Next]_vars

=============================================================================
