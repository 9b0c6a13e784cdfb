------------------------ MODULE ConnectionPoolRefinement ------------------------
(***************************************************************************)
(* Proof that ConnectionPool implements ConnectionLease under the mapping *)
(* LeaseReq / LeaseSessions (ConnectionPool!Lease).                       *)
(*                                                                         *)
(* Reuse: a connection of the request's bucket has the request's key, and *)
(* PoolInv's ConnsSound says a connection's session matches its key: TLS  *)
(* exactly when the key's scheme is, and the pinned certificate when the *)
(* key holds a Fingerprint.  So the connection fits (Lease).  Opening:    *)
(* Connect keeps a connection only when Fingerprint.check passed, which   *)
(* is FitsSession for the new session (Open); otherwise the request       *)
(* fails (Fail).  Release is Return.                                      *)
(***************************************************************************)
EXTENDS ConnectionPoolProofs

USE PoolAssumption

(* A connection of request s's bucket fits request s.                     *)
LEMMA BucketFits ==
    ASSUME PoolInv, NEW s \in Slots, NEW c \in Bucket(s)
    PROVE  /\ c \in 1..Len(conns)
           /\ LeaseSessions[c].tls = LeaseReq[s].isSsl
           /\ (LeaseReq[s].isSsl /\ LeaseReq[s].ssl \in FpObjs)
                 => LeaseSessions[c].cert = Pin[LeaseReq[s].ssl]
<1>1. c \in idle /\ c \in 1..Len(conns) /\ conns[c].key = ConnectionKey(spec[s])
  BY DEF Bucket, PoolInv, TypeOK
<1>2. conns[c].key.isSsl = spec[s].isSsl /\ conns[c].key.ssl = spec[s].ssl
  BY <1>1 DEF ConnectionKey
<1>3. /\ conns[c].tls = conns[c].key.isSsl
      /\ (conns[c].key.ssl \in FpObjs /\ conns[c].tls) => conns[c].name = Pin[conns[c].key.ssl]
  BY <1>1 DEF PoolInv, ConnsSound
<1>4. QED
  BY <1>1, <1>2, <1>3 DEF LeaseSessions, LeaseReq

(* Appending a connection appends its session.                            *)
LEMMA SessionsAppend ==
    ASSUME NEW c \in Connections, conns \in Seq(Connections),
           conns' = Append(conns, c)
    PROVE  LeaseSessions' = Append(LeaseSessions, [tls |-> c.tls, cert |-> c.name])
  BY DEF LeaseSessions

LEMMA MapAcquire ==
    ASSUME PoolInv, NEW s \in Slots, Acquire(s)
    PROVE  Lease!Lease(s)
<1>1. PICK c \in Bucket(s) : connOf' = [connOf EXCEPT ![s] = c] /\ idle' = idle \ {c}
  BY DEF Acquire
<1>2. LeaseSessions' = LeaseSessions /\ LeaseReq' = LeaseReq
  BY DEF Acquire, LeaseSessions, LeaseReq
<1>3. c \in idle
  BY DEF Bucket
<1>4. QED
  BY <1>1, <1>2, <1>3, BucketFits
  DEF Acquire, Lease!Lease, Lease!Fits, Lease!FitsSession

LEMMA MapConnect ==
    ASSUME PoolInv, NEW s \in Slots, Connect(s)
    PROVE  Lease!Open(s) \/ Lease!Fail(s)
<1> DEFINE r == spec[s]
           c == [key |-> ConnectionKey(r), name |-> HandshakeName(r), tls |-> r.isSsl]
<1>0. r \in Requests
  BY DEF PoolInv, TypeOK
<1>1. CASE r.ssl \in FpObjs /\ ~FingerprintCheck(r.ssl, r.isSsl, c.name)
  <2>1. LeaseSessions' = LeaseSessions /\ LeaseReq' = LeaseReq
    BY <1>1 DEF Connect, LeaseSessions, LeaseReq
  <2>2. QED
    BY <1>1, <2>1 DEF Connect, Lease!Fail
<1>2. CASE ~(r.ssl \in FpObjs /\ ~FingerprintCheck(r.ssl, r.isSsl, c.name))
  <2>1. c \in Connections /\ HandshakeName(r) \in Hosts \cup Names
    BY <1>0 DEF Connections, HandshakeName, Requests
  <2>2. conns' = Append(conns, c) /\ conns \in Seq(Connections)
    BY <1>2 DEF Connect, PoolInv, TypeOK
  <2>3. LeaseSessions' = Append(LeaseSessions, [tls |-> r.isSsl, cert |-> HandshakeName(r)])
    BY <2>1, <2>2, SessionsAppend
  <2>4. Len(LeaseSessions) = Len(conns) /\ LeaseReq' = LeaseReq
    BY DEF LeaseSessions, Connect, LeaseReq, PoolInv, TypeOK
  <2>5. (r.isSsl /\ r.ssl \in FpObjs) => HandshakeName(r) = Pin[r.ssl]
    BY <1>2 DEF FingerprintCheck
  <2>6. connOf' = [connOf EXCEPT ![s] = Len(conns) + 1]
        /\ phase' = [phase EXCEPT ![s] = "connected"] /\ phase[s] = "new" /\ idle' = idle
    BY <1>2 DEF Connect
  <2>7. Lease!Open(s)
    BY <2>1, <2>3, <2>4, <2>5, <2>6 DEF Lease!Open, Lease!FitsSession, LeaseReq
  <2>8. QED
    BY <2>7
<1>3. QED
  BY <1>1, <1>2

LEMMA MapRelease ==
    ASSUME NEW s \in Slots, Release(s)
    PROVE  Lease!Return(s)
  BY DEF Release, Lease!Return, LeaseSessions, LeaseReq

(* The pool serves requests only in the ways ConnectionLease allows: a    *)
(* connection of the request's ConnectionKey bucket fits it, a new one is *)
(* kept only when Fingerprint.check passed, and release puts it back.    *)
THEOREM LeaseRefinement == Spec => LeaseRefined
<1>1. Init => Lease!Init
  <2> SUFFICES ASSUME Init PROVE Lease!Init
    OBVIOUS
  <2>1. LeaseSessions = <<>>
    BY DEF Init, LeaseSessions
  <2>2. LeaseReq \in [Slots -> [isSsl : BOOLEAN, ssl : SslPolicies]]
    BY DEF Init, LeaseReq, Requests
  <2>3. QED
    BY <2>1, <2>2 DEF Init, Lease!Init
<1>2. PoolInv /\ [Next]_vars => [Lease!Next]_Lease!vars
  <2> SUFFICES ASSUME PoolInv, [Next]_vars PROVE [Lease!Next]_Lease!vars
    OBVIOUS
  <2>1. CASE \E s \in Slots : Acquire(s)
    BY <2>1, MapAcquire DEF Lease!Next
  <2>2. CASE \E s \in Slots : Connect(s)
    BY <2>2, MapConnect DEF Lease!Next
  <2>3. CASE \E s \in Slots : Release(s)
    BY <2>3, MapRelease DEF Lease!Next
  <2>4. CASE UNCHANGED vars
    BY <2>4 DEF vars, Lease!vars, LeaseSessions, LeaseReq
  <2>5. QED
    BY <2>1, <2>2, <2>3, <2>4 DEF Next
<1>3. QED
  BY <1>1, <1>2, InitPoolInv, StepPoolInv, PTL DEF Spec, LeaseRefined, Lease!Spec

=============================================================================
