----------------------- MODULE ClientLifecycleProofs -----------------------
(***************************************************************************)
(* Proofs about ClientLifecycle, for every value of the constants:        *)
(*   - TypeCorrect: the specification keeps TypeOK;                        *)
(*   - WriterOrdering: the inductive invariant LifecycleInv holds, hence   *)
(*     NoReleaseWhileWriting (the connection reaches the pool only after  *)
(*     the write_bytes task finished) and ConnectionReturnedOnce.          *)
(***************************************************************************)
EXTENDS ClientLifecycle, TLAPS

USE ConstantsAssumption

(* The SMT backend does not conclude x \in BOOLEAN from x = FALSE by     *)
(* itself; this fact, proved by Zenon, supplies it.                       *)
LEMMA FalseIsBoolean == \A x : x = FALSE => x \in BOOLEAN
  BY Zenon

(* The done-callbacks of a task, scheduled in registration order, are a  *)
(* sequence of callbacks.                                                 *)
LEMMA ScheduledType ==
    ASSUME cbReqReset \in BOOLEAN, cbRespReset \in BOOLEAN, cbRelease \in Nat
    PROVE  Scheduled \in Seq(Callbacks)
<1>1. (IF cbReqReset THEN <<"ReqReset">> ELSE <<>>) \in Seq(Callbacks)
  <2>1. CASE cbReqReset
    BY <2>1 DEF Callbacks
  <2>2. CASE ~cbReqReset
    BY <2>2 DEF Callbacks
  <2>3. QED
    BY <2>1, <2>2
<1>2. (IF cbRespReset THEN <<"RespReset">> ELSE <<>>) \in Seq(Callbacks)
  <2>1. CASE cbRespReset
    BY <2>1 DEF Callbacks
  <2>2. CASE ~cbRespReset
    BY <2>2 DEF Callbacks
  <2>3. QED
    BY <2>1, <2>2
<1>3. [i \in 1..cbRelease |-> "Release"] \in Seq(Callbacks)
  BY DEF Callbacks
<1>4. QED
  BY <1>1, <1>2, <1>3 DEF Scheduled

-----------------------------------------------------------------------------
(* Type correctness.  First the types of what each shared helper writes.  *)

ConnTypes == conn \in {"acquired", "released", "closed"} /\ connOps \in Nat
             /\ respConn \in BOOLEAN
CbTypes == cbReqReset \in BOOLEAN /\ cbRespReset \in BOOLEAN
           /\ cbRelease \in Nat /\ ready \in Seq(Callbacks)

(* _release_connection keeps the connection and the callbacks typed.      *)
LEMMA ReleaseConnectionType ==
    ASSUME TypeOK, NEW q \in Seq(Callbacks), ReleaseConnection(q)
    PROVE  ConnTypes' /\ CbTypes'
<1> USE FalseIsBoolean DEF TypeOK, ConnTypes, CbTypes, cbs, Callbacks
<1>1. CASE ~respConn /\ ready' = q /\ UNCHANGED <<conn, connOps, respConn, cbs>>
  BY <1>1
<1>2. CASE /\ respConn /\ ~respWriter
           /\ conn' = "released" /\ connOps' = connOps + 1
           /\ respConn' = FALSE /\ ready' = q /\ UNCHANGED cbs
  BY <1>2
<1>3. CASE /\ respConn /\ respWriter
           /\ IF wpc = "done"
              THEN ready' = Append(q, "Release") /\ UNCHANGED cbs
              ELSE cbRelease' = cbRelease + 1 /\ ready' = q
           /\ UNCHANGED <<conn, connOps, respConn, cbReqReset, cbRespReset>>
  BY <1>3
<1>4. QED
  BY <1>1, <1>2, <1>3 DEF ReleaseConnection

(* A finishing task schedules its callbacks and forgets them.             *)
FinishTypes == CbTypes /\ wpc \in WriterStates /\ cancelled \in BOOLEAN
               /\ cancelReq \in BOOLEAN

LEMMA FinishType ==
    ASSUME TypeOK, NEW byCancel \in BOOLEAN, Finish(byCancel)
    PROVE  FinishTypes'
<1>1. ready \o Scheduled \in Seq(Callbacks)
  BY ScheduledType DEF TypeOK
<1>2. QED
  BY <1>1, FalseIsBoolean DEF Finish, FinishTypes, CbTypes, WriterStates

LEMMA CleanupWriterType ==
    ASSUME TypeOK, CleanupWriter PROVE cancelReq' \in BOOLEAN
  BY DEF TypeOK, CleanupWriter

LEMMA NotifyContentType ==
    ASSUME TypeOK, NotifyContent
    PROVE  released' \in BOOLEAN /\ contentExc' \in BOOLEAN
  BY Zenon DEF TypeOK, NotifyContent

LEMMA CloseConnectionType ==
    ASSUME TypeOK, CloseConnection PROVE ConnTypes'
  BY FalseIsBoolean DEF TypeOK, CloseConnection, ConnTypes

(* _response_eof, release() and close() keep their variables typed.      *)
LEMMA ResponseEofType ==
    ASSUME TypeOK, NEW up, ResponseEof(up)
    PROVE  ConnTypes' /\ CbTypes' /\ closed' \in BOOLEAN
           /\ cancelReq' \in BOOLEAN
<1>1. CASE closed \/ (respConn /\ up)
  BY <1>1 DEF ResponseEof, TypeOK, ConnTypes, CbTypes, cbs
<1>2. CASE ~(closed \/ (respConn /\ up))
  BY <1>2, ReleaseConnectionType, CleanupWriterType DEF ResponseEof, TypeOK
<1>3. QED
  BY <1>1, <1>2

LEMMA DoReleaseType ==
    ASSUME TypeOK, DoRelease
    PROVE  ConnTypes' /\ CbTypes' /\ closed' \in BOOLEAN
           /\ cancelReq' \in BOOLEAN /\ released' \in BOOLEAN
           /\ contentExc' \in BOOLEAN
  BY ReleaseConnectionType, CleanupWriterType, NotifyContentType
  DEF DoRelease, TypeOK

LEMMA DoCloseType ==
    ASSUME TypeOK, DoClose
    PROVE  ConnTypes' /\ CbTypes' /\ closed' \in BOOLEAN
           /\ cancelReq' \in BOOLEAN /\ released' \in BOOLEAN
           /\ contentExc' \in BOOLEAN
  BY CloseConnectionType, CleanupWriterType, NotifyContentType
  DEF DoClose, TypeOK, CbTypes, cbVars, cbs

(* The tail of read() keeps the owner, the result and the connection typed. *)
LEMMA ReadTailType ==
    ASSUME TypeOK, ReadTail
    PROVE  ConnTypes' /\ CbTypes' /\ owner' \in OwnerStates
           /\ readResult' \in {"none", "body", "error"}
<1> USE DEF TypeOK, ConnTypes, CbTypes, cbs, OwnerStates
<1>1. CASE respConn /\ upgraded
  BY <1>1 DEF ReadTail
<1>2. CASE ~(respConn /\ upgraded) /\ respWriter
  BY <1>2 DEF ReadTail
<1>3. CASE ~(respConn /\ upgraded) /\ ~respWriter
  BY <1>3, ReleaseConnectionType DEF ReadTail
<1>4. QED
  BY <1>1, <1>2, <1>3

(* No step of the lifecycle takes a variable out of its type.             *)
LEMMA TypeStep == TypeOK /\ [Next]_vars => TypeOK'
<1> SUFFICES ASSUME TypeOK, [Next]_vars PROVE TypeOK'
  OBVIOUS
<1> USE FalseIsBoolean DEF TypeOK, Requests, OwnerStates, WriterStates,
        Callbacks, ConnTypes, CbTypes, taskVars, cbs, cbVars, respVars,
        netVars, connVars
<1>a. ready # <<>> /\ ReleaseConnection(Tail(ready)) => ConnTypes' /\ CbTypes'
  <2> SUFFICES ASSUME ready # <<>>, ReleaseConnection(Tail(ready))
               PROVE  ConnTypes' /\ CbTypes'
    OBVIOUS
  <2>1. Tail(ready) \in Seq(Callbacks)
    OBVIOUS
  <2>2. QED
    BY <2>1, ReleaseConnectionType
<1>f. /\ Finish(TRUE) => FinishTypes'
      /\ Finish(FALSE) => FinishTypes'
      /\ Finish(cancelReq) => FinishTypes'
  BY FinishType
<1>1. CASE Send
  BY <1>1 DEF Send
<1>2. CASE StartResponse
  BY <1>2 DEF StartResponse
<1>3. CASE WStart
  <2>1. CASE cancelReq
    BY <1>3, <2>1, <1>f DEF FinishTypes, WStart
  <2>2. CASE ~cancelReq
    BY <1>3, <2>2 DEF WStart
  <2>3. QED
    BY <2>1, <2>2
<1>4. CASE WContinue
  <2>1. CASE cancelReq /\ Finish(FALSE)
    BY <1>4, <2>1, <1>f DEF FinishTypes, WContinue
  <2>2. CASE ~cancelReq /\ cont = "set" /\ wpc' = "body"
             /\ UNCHANGED <<cancelReq, cancelled, cbVars>>
    BY <1>4, <2>2 DEF WContinue
  <2>3. QED
    BY <1>4, <2>1, <2>2 DEF WContinue
<1>5. CASE WBody
  <2>1. CASE /\ ~cancelReq /\ sent < req.chunks
             /\ protoExc' = TRUE
             /\ contentExc' = (contentExc \/ content # "unbound")
             /\ Finish(FALSE)
             /\ UNCHANGED <<sent, eofWritten>>
    BY <1>5, <2>1, <1>f DEF FinishTypes, WBody
  <2>2. CASE /\ cancelReq /\ cancelReq' = FALSE /\ eofWritten' = TRUE
             /\ wpc' = "cancelEof"
             /\ UNCHANGED <<sent, cancelled, cbVars, contentExc, protoExc>>
    BY <1>5, <2>2 DEF WBody
  <2>3. CASE /\ ~cancelReq /\ sent < req.chunks /\ sent' = sent + 1
             /\ UNCHANGED <<wpc, eofWritten, cancelReq, cancelled, cbVars,
                            contentExc, protoExc>>
    BY <1>5, <2>3 DEF WBody
  <2>4. CASE /\ ~cancelReq /\ sent = req.chunks /\ eofWritten' = TRUE
             /\ wpc' = "eof"
             /\ UNCHANGED <<sent, cancelReq, cancelled, cbVars, contentExc,
                            protoExc>>
    BY <1>5, <2>4 DEF WBody
  <2>5. QED
    BY <1>5, <2>1, <2>2, <2>3, <2>4 DEF WBody
<1>6. CASE WEof
  BY <1>6, <1>f DEF FinishTypes, WEof, WriterMayRun
<1>7. CASE RunCallback
  <2>1. CASE Head(ready) = "ReqReset" \/ Head(ready) = "RespReset"
    BY <1>7, <2>1 DEF RunCallback
  <2>2. CASE Head(ready) = "Release"
    BY <1>7, <2>2, <1>a DEF RunCallback
  <2>3. QED
    BY <1>7, <2>1, <2>2 DEF RunCallback
<1>8. CASE StartInfo
  BY <1>8 DEF StartInfo, WriterStarted
<1>9. CASE StartFinal
  BY <1>9, ResponseEofType DEF StartFinal, WriterStarted
<1>10. CASE StartFails
  BY <1>10 DEF StartFails
<1>11. CASE PayloadEof
  BY <1>11, ResponseEofType DEF PayloadEof, WriterStarted
<1>12. CASE ReadBegin
  BY <1>12, ReadTailType DEF ReadBegin
<1>13. CASE ReadContentDone
  <2>1. CASE /\ content = "eof" /\ ~contentExc /\ body' = TRUE /\ ReadTail
             /\ UNCHANGED <<cancelReq, closed, released, contentExc>>
    BY <1>13, <2>1, ReadTailType DEF ReadContentDone
  <2>2. CASE DoClose /\ owner' = "open" /\ readResult' = "error"
             /\ UNCHANGED body
    BY <1>13, <2>2, DoCloseType DEF ReadContentDone
  <2>3. QED
    BY <1>13, <2>1, <2>2 DEF ReadContentDone
<1>14. CASE ReadWaitDone
  BY <1>14, ReleaseConnectionType DEF ReadWaitDone, RoomForCallback
<1>15. CASE CancelOwner
  BY <1>15 DEF CancelOwner
<1>16. CASE WaitForClose
  BY <1>16, DoReleaseType DEF WaitForClose
<1>17. CASE CloseWaitDone
  BY <1>17, DoReleaseType DEF CloseWaitDone, RoomForCallback
<1>18. CASE Release
  BY <1>18, DoReleaseType DEF Release, Holding
<1>19. CASE Close
  BY <1>19, DoCloseType DEF Close, Holding
<1>20. CASE Drop
  BY <1>20 DEF Drop
<1>21. CASE Collect
  BY <1>21 DEF Collect
<1>22. CASE Terminate
  BY <1>22 DEF Terminate
<1>23. CASE UNCHANGED vars
  BY <1>23 DEF vars
<1>24. QED
  BY <1>1, <1>2, <1>3, <1>4, <1>5, <1>6, <1>7, <1>8, <1>9, <1>10, <1>11,
     <1>12, <1>13, <1>14, <1>15, <1>16, <1>17, <1>18, <1>19, <1>20, <1>21,
     <1>22, <1>23 DEF Next, Writer

(* The specification keeps every variable within its type.                *)
LEMMA TypeInit == Init => TypeOK
  BY FalseIsBoolean DEF Init, TypeOK, Requests, OwnerStates, WriterStates,
                        Callbacks

THEOREM TypeCorrect == Spec => []TypeOK
  BY TypeInit, TypeStep, PTL DEF Spec

-----------------------------------------------------------------------------
(* The lifecycle invariant.                                               *)

(* _release_connection, called while the owner still holds the response  *)
(* and with a call_soon queue that is empty unless the task finished,    *)
(* hands the connection back only when ClientResponse._writer is None,    *)
(* which the invariant ties to a finished task, and clears                *)
(* ClientResponse._connection as it does.                                 *)
LEMMA ReleaseConnectionInv ==
    ASSUME TypeOK, LifecycleInv, NEW q \in Seq(Callbacks),
           q # <<>> => wpc = "done", owner # "collected",
           ReleaseConnection(q)
    PROVE  /\ ready' # <<>> => wpc = "done"
           /\ respConn' => respConn
           /\ conn' = "released" => wpc = "done"
           /\ connOps' \in {0, 1}
           /\ respConn' => connOps' = 0
           /\ (owner # "collected" /\ respConn) \/ UNCHANGED <<conn, connOps>>
<1> USE DEF TypeOK, LifecycleInv, NoReleaseWhileWriting, cbs
<1>1. CASE ~respConn /\ ready' = q /\ UNCHANGED <<conn, connOps, respConn, cbs>>
  BY <1>1
<1>2. CASE /\ respConn /\ ~respWriter
           /\ conn' = "released" /\ connOps' = connOps + 1
           /\ respConn' = FALSE /\ ready' = q /\ UNCHANGED cbs
  BY <1>2
<1>3. CASE /\ respConn /\ respWriter
           /\ IF wpc = "done"
              THEN ready' = Append(q, "Release") /\ UNCHANGED cbs
              ELSE cbRelease' = cbRelease + 1 /\ ready' = q
           /\ UNCHANGED <<conn, connOps, respConn, cbReqReset, cbRespReset>>
  BY <1>3
<1>4. QED
  BY <1>1, <1>2, <1>3 DEF ReleaseConnection

(* No step breaks the lifecycle invariant.                                *)
LEMMA InvStep == TypeOK /\ LifecycleInv /\ [Next]_vars => LifecycleInv'
<1> SUFFICES ASSUME TypeOK, LifecycleInv, [Next]_vars PROVE LifecycleInv'
  OBVIOUS
<1> USE DEF TypeOK, LifecycleInv, NoReleaseWhileWriting, taskVars, cbs,
            cbVars, respVars, netVars, connVars
<1>a. ASSUME ready # <<>>, ReleaseConnection(Tail(ready))
      PROVE  /\ ready' # <<>> => wpc = "done"
             /\ respConn' => respConn
             /\ conn' = "released" => wpc = "done"
             /\ connOps' \in {0, 1}
             /\ respConn' => connOps' = 0
             /\ (owner # "collected" /\ respConn) \/ UNCHANGED <<conn, connOps>>
  <2>1. /\ Tail(ready) \in Seq(Callbacks)
        /\ Tail(ready) # <<>> => wpc = "done"
        /\ owner # "collected"
    BY <1>a
  <2>2. QED
    BY <1>a, <2>1, ReleaseConnectionInv
<1>1. CASE Send
  BY <1>1 DEF Send
<1>2. CASE StartResponse
  BY <1>2 DEF StartResponse
<1>3. CASE WStart
  BY <1>3 DEF WStart, Finish
<1>4. CASE WContinue
  BY <1>4 DEF WContinue, Finish
<1>5. CASE WBody
  BY <1>5 DEF WBody, Finish
<1>6. CASE WEof
  BY <1>6 DEF WEof, Finish
<1>7. CASE RunCallback
  BY <1>7, <1>a DEF RunCallback
<1>8. CASE StartInfo
  BY <1>8 DEF StartInfo
<1>9. CASE StartFinal
  BY <1>9, ReleaseConnectionInv DEF StartFinal, ResponseEof, CleanupWriter
<1>10. CASE StartFails
  BY <1>10 DEF StartFails
<1>11. CASE PayloadEof
  BY <1>11, ReleaseConnectionInv DEF PayloadEof, ResponseEof, CleanupWriter
<1>12. CASE ReadBegin
  BY <1>12, ReleaseConnectionInv DEF ReadBegin, ReadTail
<1>13. CASE ReadContentDone
  BY <1>13, ReleaseConnectionInv DEF ReadContentDone, ReadTail, DoClose,
     NotifyContent, CleanupWriter, CloseConnection
<1>14. CASE ReadWaitDone
  BY <1>14, ReleaseConnectionInv DEF ReadWaitDone
<1>15. CASE CancelOwner
  BY <1>15 DEF CancelOwner
<1>16. CASE WaitForClose
  BY <1>16, ReleaseConnectionInv DEF WaitForClose, DoRelease, NotifyContent,
     CleanupWriter
<1>17. CASE CloseWaitDone
  BY <1>17, ReleaseConnectionInv DEF CloseWaitDone, DoRelease, NotifyContent,
     CleanupWriter
<1>18. CASE Release
  BY <1>18, ReleaseConnectionInv DEF Release, DoRelease, NotifyContent,
     CleanupWriter, Holding
<1>19. CASE Close
  BY <1>19 DEF Close, DoClose, NotifyContent, CleanupWriter, CloseConnection,
     Holding
<1>20. CASE Drop
  BY <1>20 DEF Drop
<1>21. CASE Collect
  BY <1>21 DEF Collect
<1>22. CASE Terminate
  BY <1>22 DEF Terminate
<1>23. CASE UNCHANGED vars
  BY <1>23 DEF vars
<1>24. QED
  BY <1>1, <1>2, <1>3, <1>4, <1>5, <1>6, <1>7, <1>8, <1>9, <1>10, <1>11,
     <1>12, <1>13, <1>14, <1>15, <1>16, <1>17, <1>18, <1>19, <1>20, <1>21,
     <1>22, <1>23 DEF Next, Writer

(* Whatever the interleaving, the lifecycle invariant holds.              *)
THEOREM LifecycleInvariant == Spec => []LifecycleInv
<1>1. Init => LifecycleInv
  BY DEF Init, LifecycleInv, NoReleaseWhileWriting
<1>2. TypeOK /\ LifecycleInv /\ [Next]_vars => (TypeOK /\ LifecycleInv)'
  BY TypeStep, InvStep
<1>3. QED
  BY <1>1, <1>2, TypeInit, PTL DEF Spec

(* The connection reaches the pool only after write_bytes finished.       *)
THEOREM ReleaseAfterWriter == Spec => []NoReleaseWhileWriting
  BY LifecycleInvariant, PTL DEF LifecycleInv

(* The connection is handed back or closed at most once.                  *)
THEOREM ReturnedOnce == Spec => []ConnectionReturnedOnce
<1>1. LifecycleInv => ConnectionReturnedOnce
  BY DEF LifecycleInv, ConnectionReturnedOnce
<1>2. QED
  BY <1>1, LifecycleInvariant, PTL

-----------------------------------------------------------------------------
(* The 100-continue gate.  The waiter is resolved only by start() reading *)
(* an informational head; the writer enters the body only through        *)
(* WContinue, which waits for it, when the request expects 100-continue; *)
(* and a chunk is written only in the body state.                        *)
GateInv ==
    /\ cont = "set" => infoSeen > 0
    /\ req.expect /\ wpc \in {"body", "eof", "cancelEof"} => cont = "set"
    /\ req.expect /\ sent > 0 => cont = "set"

\* The variables the gate speaks of.
gateVars == <<req, wpc, sent, cont, infoSeen>>

(* A writer step moves into the body only past the waiter, and writes a  *)
(* chunk only in the body.                                               *)
LEMMA WriterGate ==
    ASSUME TypeOK, GateInv, Writer PROVE GateInv'
<1> USE DEF TypeOK, GateInv, cbVars, cbs, respVars, netVars, connVars
<1>1. CASE WStart
  BY <1>1 DEF WStart, Finish
<1>2. CASE WContinue
  BY <1>2 DEF WContinue, Finish
<1>3. CASE WBody
  BY <1>3 DEF WBody, Finish
<1>4. CASE WEof
  BY <1>4 DEF WEof, Finish
<1>5. QED
  BY <1>1, <1>2, <1>3, <1>4 DEF Writer

LEMMA GateStep == TypeOK /\ GateInv /\ [Next]_vars => GateInv'
<1> SUFFICES ASSUME TypeOK, GateInv, [Next]_vars PROVE GateInv'
  OBVIOUS
<1> USE DEF taskVars, cbs, cbVars, respVars, netVars, connVars
<1>u. UNCHANGED gateVars => GateInv'
  BY DEF GateInv, gateVars
<1>1. CASE Writer
  BY <1>1, WriterGate
<1>2. CASE StartInfo
  BY <1>2 DEF StartInfo, GateInv, TypeOK
<1>3. CASE Send
  BY <1>3 DEF Send, GateInv
<1>4. CASE StartResponse \/ RunCallback \/ StartFails \/ ReadWaitDone
           \/ CancelOwner \/ Drop \/ Collect \/ Terminate \/ UNCHANGED vars
  BY <1>4, <1>u DEF StartResponse, RunCallback, StartFails, ReadWaitDone,
     CancelOwner, Drop, Collect, Terminate, vars, gateVars
<1>5. CASE StartFinal \/ PayloadEof \/ ReadBegin \/ ReadContentDone
           \/ WaitForClose \/ CloseWaitDone \/ Release \/ Close
  BY <1>5, <1>u DEF StartFinal, PayloadEof, ReadBegin, ReadContentDone,
     WaitForClose, CloseWaitDone, Release, Close, gateVars
<1>6. QED
  BY <1>1, <1>2, <1>3, <1>4, <1>5 DEF Next

(* With an armed 100-continue waiter, write_bytes writes no chunk before *)
(* start() has read an informational head.                               *)
THEOREM ContinueGates == Spec => []ContinueGatesBody
<1>1. Init => GateInv
  BY DEF Init, GateInv
<1>2. GateInv => ContinueGatesBody
  BY DEF GateInv, ContinueGatesBody
<1>3. QED
  BY <1>1, <1>2, GateStep, TypeCorrect, PTL DEF Spec

=============================================================================
