------------------------ MODULE ConnectionPoolProofs ------------------------
(***************************************************************************)
(* Proofs about ConnectionPool, for every set of requests, hosts, server *)
(* names, Fingerprints and pool bound: FingerprintPinned holds.          *)
(*                                                                         *)
(* The inductive invariant: every opened connection records the key it   *)
(* was opened under, and one opened over TLS under a Fingerprint got the *)
(* pinned certificate (Fingerprint.check passed); every request that     *)
(* holds a connection holds one of its own key.  Key equality carries   *)
(* the ssl policy and the scheme from the opener to the reuser.          *)
(***************************************************************************)
EXTENDS ConnectionPool, TLAPS

USE PoolAssumption

\* What every opened connection records.
ConnsSound ==
    \A i \in 1..Len(conns) :
        /\ conns[i].tls = conns[i].key.isSsl
        /\ (conns[i].key.ssl \in FpObjs /\ conns[i].tls)
              => conns[i].name = Pin[conns[i].key.ssl]

\* A request holds a connection of its own key.
HeldMatches ==
    \A s \in Slots :
        phase[s] = "connected" =>
            /\ connOf[s] \in 1..Len(conns)
            /\ conns[connOf[s]].key = ConnectionKey(spec[s])

PoolInv == TypeOK /\ ConnsSound /\ HeldMatches

LEMMA InitPoolInv == Init => PoolInv
  BY DEF Init, PoolInv, TypeOK, ConnsSound, HeldMatches

(* Reusing an idle connection of the request's bucket keeps the          *)
(* invariant: the bucket is the connections of the request's key.        *)
LEMMA AcquireInv ==
    ASSUME PoolInv, NEW s \in Slots, Acquire(s)
    PROVE  PoolInv'
<1>1. PICK c \in Bucket(s) : connOf' = [connOf EXCEPT ![s] = c] /\ idle' = idle \ {c}
  BY DEF Acquire
<1>2. c \in 1..Len(conns) /\ conns[c].key = ConnectionKey(spec[s])
  BY <1>1 DEF Bucket, PoolInv, TypeOK
<1>3. TypeOK'
  BY <1>1, <1>2 DEF Acquire, PoolInv, TypeOK
<1>4. ConnsSound'
  BY DEF Acquire, PoolInv, ConnsSound
<1>5. HeldMatches'
  BY <1>1, <1>2 DEF Acquire, PoolInv, TypeOK, HeldMatches
<1>6. QED
  BY <1>3, <1>4, <1>5 DEF PoolInv

(* Opening a connection appends it with the request's key; over TLS      *)
(* under a Fingerprint it is kept only if the check passed.              *)
LEMMA ConnectInv ==
    ASSUME PoolInv, NEW s \in Slots, Connect(s)
    PROVE  PoolInv'
<1> DEFINE r == spec[s]
           c == [key |-> ConnectionKey(r), name |-> HandshakeName(r), tls |-> r.isSsl]
<1>0. r \in Requests
  BY DEF PoolInv, TypeOK
<1>1. CASE r.ssl \in FpObjs /\ ~FingerprintCheck(r.ssl, r.isSsl, c.name)
  <2>1. phase' = [phase EXCEPT ![s] = "failed"] /\ UNCHANGED <<spec, connOf, conns, idle>>
    BY <1>1 DEF Connect
  <2>2. QED
    BY <2>1 DEF PoolInv, TypeOK, ConnsSound, HeldMatches
<1>2. CASE ~(r.ssl \in FpObjs /\ ~FingerprintCheck(r.ssl, r.isSsl, c.name))
  <2>1. /\ conns' = Append(conns, c)
        /\ connOf' = [connOf EXCEPT ![s] = Len(conns) + 1]
        /\ phase' = [phase EXCEPT ![s] = "connected"]
        /\ UNCHANGED <<spec, idle>>
        /\ Len(conns) < MaxConns
    BY <1>2 DEF Connect
  <2>2. c \in Connections
    BY <1>0 DEF Connections, HandshakeName, Requests
  <2>3. TypeOK'
    BY <2>1, <2>2 DEF PoolInv, TypeOK
  <2>4. c.tls = c.key.isSsl /\ ((c.key.ssl \in FpObjs /\ c.tls) => c.name = Pin[c.key.ssl])
    BY <1>2 DEF ConnectionKey, FingerprintCheck
  <2>5. ConnsSound'
    BY <2>1, <2>4 DEF PoolInv, TypeOK, ConnsSound
  <2>6. HeldMatches'
    BY <2>1 DEF PoolInv, TypeOK, HeldMatches
  <2>7. QED
    BY <2>3, <2>5, <2>6 DEF PoolInv
<1>3. QED
  BY <1>1, <1>2

(* Giving the connection back to the pool keeps the invariant.           *)
LEMMA ReleaseInv ==
    ASSUME PoolInv, NEW s \in Slots, Release(s)
    PROVE  PoolInv'
<1>1. connOf[s] \in 1..Len(conns)
  BY DEF Release, PoolInv, HeldMatches
<1>2. TypeOK'
  <2>1. idle' \subseteq 1..Len(conns')
    BY <1>1 DEF Release, PoolInv, TypeOK
  <2>2. connOf' \in [Slots -> 0..MaxConns]
    BY DEF Release, PoolInv, TypeOK
  <2>3. phase' \in [Slots -> {"new", "connected", "done", "failed"}]
    BY DEF Release, PoolInv, TypeOK
  <2>4. QED
    BY <2>1, <2>2, <2>3 DEF Release, PoolInv, TypeOK
<1>3. ConnsSound'
  BY DEF Release, PoolInv, ConnsSound
<1>4. HeldMatches'
  BY DEF Release, PoolInv, TypeOK, HeldMatches
<1>5. QED
  BY <1>2, <1>3, <1>4 DEF PoolInv

LEMMA StepPoolInv == PoolInv /\ [Next]_vars => PoolInv'
<1> SUFFICES ASSUME PoolInv, [Next]_vars PROVE PoolInv'
  OBVIOUS
<1>1. CASE \E s \in Slots : Acquire(s)
  BY <1>1, AcquireInv
<1>2. CASE \E s \in Slots : Connect(s)
  BY <1>2, ConnectInv
<1>3. CASE \E s \in Slots : Release(s)
  BY <1>3, ReleaseInv
<1>4. CASE UNCHANGED vars
  BY <1>4 DEF vars, PoolInv, TypeOK, ConnsSound, HeldMatches
<1>5. QED
  BY <1>1, <1>2, <1>3, <1>4 DEF Next

(* For every pool and every set of requests: a request pinned to a       *)
(* Fingerprint is served only over a TLS connection whose certificate    *)
(* has the pinned digest, because ConnectionKey carries the ssl policy   *)
(* and the scheme into the pool bucket.                                  *)
THEOREM Pinned == Spec => []FingerprintPinned
<1>1. PoolInv => FingerprintPinned
  <2> SUFFICES ASSUME PoolInv, NEW s \in Slots,
                      phase[s] = "connected", spec[s].ssl \in FpObjs, spec[s].isSsl
               PROVE  Held(s).tls /\ Held(s).name = Pin[spec[s].ssl]
    BY DEF FingerprintPinned
  <2>1. connOf[s] \in 1..Len(conns) /\ conns[connOf[s]].key = ConnectionKey(spec[s])
    BY DEF PoolInv, HeldMatches
  <2>2. conns[connOf[s]].key.ssl = spec[s].ssl /\ conns[connOf[s]].key.isSsl = spec[s].isSsl
    BY <2>1 DEF ConnectionKey
  <2>3. QED
    BY <2>1, <2>2 DEF PoolInv, ConnsSound, Held
<1>2. QED
  BY <1>1, InitPoolInv, StepPoolInv, PTL DEF Spec

(* The pool's state keeps its type: connOf, conns and idle stay within    *)
(* the connections opened, below MaxConns.                                *)
THEOREM PoolTypeCorrect == Spec => []TypeOK
<1>1. PoolInv => TypeOK
  BY DEF PoolInv
<1>2. QED
  BY <1>1, InitPoolInv, StepPoolInv, PTL DEF Spec

=============================================================================
