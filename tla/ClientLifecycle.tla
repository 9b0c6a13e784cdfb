-------------------------- MODULE ClientLifecycle --------------------------
(***************************************************************************)
(* The lifecycle of one request/response pair on one acquired connection, *)
(* as implemented by ClientRequest.send / write_bytes / terminate and by   *)
(* ClientResponse.start / read / release / close / _response_eof /        *)
(* __del__ in src/aiohttp/client_reqrep.py.                               *)
(*                                                                         *)
(* Processes of the single asyncio event loop, interleaved at the await   *)
(* points of the code:                                                     *)
(*   - the owner (the session and user code holding the response),        *)
(*   - the body-writer task created by send() (write_bytes),              *)
(*   - the loop running the done-callbacks scheduled with call_soon,       *)
(*   - the protocol (the peer's response heads and payload end).          *)
(* Data is abstracted away: a body is a number of chunks, a response head *)
(* a status class.                                                         *)
(***************************************************************************)
EXTENDS Naturals, Sequences

CONSTANTS
    MaxChunks,   \* largest number of body chunks a request may have
    MaxInfo,     \* largest number of 1xx heads the peer sends before the final one
    MaxPending   \* bound on callbacks pending at once (release() may be repeated)

ASSUME ConstantsAssumption ==
    MaxChunks \in Nat /\ MaxInfo \in Nat /\ MaxPending \in Nat

VARIABLES
    req,         \* the request as built by ClientRequest.__init__ (never changes)
    owner,       \* where the owner's coroutine is
    wpc,         \* where the write_bytes task is
    sent,        \* body chunks written so far
    eofWritten,  \* writer.write_eof() has put the end-of-body marker on the wire
    cancelReq,   \* Task.cancel() requested and not yet delivered
    cancelled,   \* the task finished by a CancelledError
    cbReqReset,  \* ClientRequest.__reset_writer registered as a done-callback
    cbRespReset, \* ClientResponse.__reset_writer registered as a done-callback
    cbRelease,   \* number of release lambdas registered as done-callbacks
    ready,       \* callbacks scheduled by call_soon, run in FIFO order
    reqWriter,   \* ClientRequest._writer is not None
    respWriter,  \* ClientResponse._writer is not None
    cont,        \* the '100 Continue' future: "none", "pending" or "set"
    respCont,    \* ClientResponse._continue is not None
    closed,      \* ClientResponse._closed
    released,    \* ClientResponse._released
    respConn,    \* ClientResponse._connection is not None
    body,        \* ClientResponse._body is not None (body cached)
    readResult,  \* outcome of the last read(): "none", "body" or "error"
    content,     \* payload stream: "unbound", "open" (on_eof pending) or "eof"
    contentExc,  \* an exception is set on the payload stream
    upgraded,    \* protocol.upgraded (the final head was 101)
    infoSeen,    \* 1xx heads read by start()
    protoExc,    \* the writer set an exception on the protocol (should_close)
    conn,        \* the connection: "acquired", "released" (to the pool), "closed"
    connOps      \* number of Connection.release()/close() calls made

taskVars == <<wpc, sent, eofWritten, cancelReq, cancelled>>
cbs      == <<cbReqReset, cbRespReset, cbRelease>>
cbVars   == <<cbs, ready>>
respVars == <<reqWriter, respWriter, cont, respCont, closed, released,
              respConn, body, readResult>>
netVars  == <<content, contentExc, upgraded, infoSeen, protoExc>>
connVars == <<conn, connOps>>
vars     == <<req, owner, taskVars, cbVars, respVars, netVars, connVars>>

Callbacks == {"ReqReset", "RespReset", "Release"}

(* A request: its number of body chunks, whether it arms a 100-continue  *)
(* waiter, whether the StreamWriter frames the body as chunks, whether   *)
(* its headers announce no body at all (a GET without data, whose body   *)
(* is b"" sent as one empty chunk), and whether the task starts eagerly  *)
(* (Python >= 3.12, line 674).                                           *)
Requests ==
    {r \in [chunks : 0..MaxChunks, expect : BOOLEAN, chunked : BOOLEAN,
            bodyless : BOOLEAN, eager : BOOLEAN] :
        r.bodyless => (r.chunks = 1 /\ ~r.chunked)}

OwnerStates == {"idle", "sending", "starting", "open", "failed", "readContent",
                "readWait", "closeWait", "dropped", "collected"}
WriterStates == {"none", "new", "continue", "body", "eof", "cancelEof", "done"}

\* States in which some task holding the response may call release()/close().
Holding == {"open", "failed", "readContent", "readWait", "closeWait"}

TypeOK ==
    /\ req \in Requests
    /\ owner \in OwnerStates
    /\ wpc \in WriterStates
    /\ sent \in 0..MaxChunks
    /\ eofWritten \in BOOLEAN
    /\ cancelReq \in BOOLEAN
    /\ cancelled \in BOOLEAN
    /\ cbReqReset \in BOOLEAN
    /\ cbRespReset \in BOOLEAN
    /\ cbRelease \in Nat
    /\ ready \in Seq(Callbacks)
    /\ reqWriter \in BOOLEAN
    /\ respWriter \in BOOLEAN
    /\ cont \in {"none", "pending", "set"}
    /\ respCont \in BOOLEAN
    /\ closed \in BOOLEAN
    /\ released \in BOOLEAN
    /\ respConn \in BOOLEAN
    /\ body \in BOOLEAN
    /\ readResult \in {"none", "body", "error"}
    /\ content \in {"unbound", "open", "eof"}
    /\ contentExc \in BOOLEAN
    /\ upgraded \in BOOLEAN
    /\ infoSeen \in 0..MaxInfo
    /\ protoExc \in BOOLEAN
    /\ conn \in {"acquired", "released", "closed"}
    /\ connOps \in Nat

Init ==
    /\ req \in Requests
    /\ owner = "idle"
    /\ wpc = "none"
    /\ sent = 0
    /\ eofWritten = FALSE
    /\ cancelReq = FALSE
    /\ cancelled = FALSE
    /\ cbReqReset = FALSE
    /\ cbRespReset = FALSE
    /\ cbRelease = 0
    /\ ready = <<>>
    /\ reqWriter = FALSE
    /\ respWriter = FALSE
    /\ cont = IF req.expect THEN "pending" ELSE "none"
    /\ respCont = FALSE
    /\ closed = TRUE
    /\ released = FALSE
    /\ respConn = FALSE
    /\ body = FALSE
    /\ readResult = "none"
    /\ content = "unbound"
    /\ contentExc = FALSE
    /\ upgraded = FALSE
    /\ infoSeen = 0
    /\ protoExc = FALSE
    /\ conn = "acquired"
    /\ connOps = 0

-----------------------------------------------------------------------------
(* Helpers: the pieces of code several handlers share.                    *)

\* The done-callbacks of a finished task, in registration order.
Scheduled ==
    (IF cbReqReset THEN <<"ReqReset">> ELSE <<>>)
    \o (IF cbRespReset THEN <<"RespReset">> ELSE <<>>)
    \o [i \in 1..cbRelease |-> "Release"]

\* The task finishes: its callbacks are handed to call_soon.
Finish(byCancel) ==
    /\ wpc' = "done"
    /\ cancelled' = byCancel
    /\ cancelReq' = FALSE
    /\ ready' = ready \o Scheduled
    /\ cbReqReset' = FALSE /\ cbRespReset' = FALSE /\ cbRelease' = 0

\* _cleanup_writer: cancel the writer if the response still holds it.
CleanupWriter ==
    cancelReq' = (cancelReq \/ (respWriter /\ wpc # "done"))

\* _notify_content, done by release() and close() unless already released.
NotifyContent ==
    IF released
    THEN UNCHANGED <<released, contentExc>>
    ELSE /\ released' = TRUE
         /\ contentExc' = (contentExc \/ content # "unbound")

\* Seeded fault: _release_connection without the self._writer check.
MutReleaseIgnoresWriter(q) ==
    \/ /\ ~respConn
       /\ ready' = q
       /\ UNCHANGED <<conn, connOps, respConn, cbs>>
    \/ /\ respConn
       /\ conn' = "released" /\ connOps' = connOps + 1 /\ respConn' = FALSE
       /\ ready' = q
       /\ UNCHANGED cbs

\* Seeded fault: _release_connection that keeps self._connection set.
MutReleaseKeepsConnection(q) ==
    \/ /\ ~respConn
       /\ ready' = q
       /\ UNCHANGED <<conn, connOps, respConn, cbs>>
    \/ /\ respConn /\ ~respWriter
       /\ conn' = "released" /\ connOps' = connOps + 1
       /\ ready' = q
       /\ UNCHANGED <<respConn, cbs>>
    \/ /\ respConn /\ respWriter
       /\ IF wpc = "done"
          THEN ready' = Append(q, "Release") /\ UNCHANGED cbs
          ELSE cbRelease' = cbRelease + 1 /\ ready' = q
       /\ UNCHANGED <<conn, connOps, respConn, cbReqReset, cbRespReset>>

\* Seeded fault: _release_connection that drops the deferred release.
MutReleaseForgetsCallback(q) ==
    \/ /\ ~respConn
       /\ ready' = q
       /\ UNCHANGED <<conn, connOps, respConn, cbs>>
    \/ /\ respConn /\ ~respWriter
       /\ conn' = "released" /\ connOps' = connOps + 1 /\ respConn' = FALSE
       /\ ready' = q
       /\ UNCHANGED cbs
    \/ /\ respConn /\ respWriter
       /\ ready' = q
       /\ UNCHANGED <<conn, connOps, respConn, cbs>>

\* _release_connection; q is the call_soon queue as the caller leaves it.
ReleaseConnection(q) ==
    \/ /\ ~respConn
       /\ ready' = q
       /\ UNCHANGED <<conn, connOps, respConn, cbs>>
    \/ /\ respConn /\ ~respWriter
       /\ conn' = "released"
       /\ connOps' = connOps + 1
       /\ respConn' = FALSE
       /\ ready' = q
       /\ UNCHANGED cbs
    \/ /\ respConn /\ respWriter
       \* add_done_callback: a done task schedules the callback at once
       /\ IF wpc = "done"
          THEN ready' = Append(q, "Release") /\ UNCHANGED cbs
          ELSE cbRelease' = cbRelease + 1 /\ ready' = q
       /\ UNCHANGED <<conn, connOps, respConn, cbReqReset, cbRespReset>>

\* Model bound: an owner step that may register one more release callback
\* waits while MaxPending are pending.
RoomForCallback == Len(ready) + cbRelease < MaxPending

\* Seeded fault: close() that closes the connection but keeps the reference.
MutCloseKeepsConnection ==
    IF respConn
    THEN conn' = "closed" /\ connOps' = connOps + 1 /\ UNCHANGED respConn
    ELSE UNCHANGED <<conn, connOps, respConn>>

\* The tail of close(): the connection is closed, never pooled.
CloseConnection ==
    IF respConn
    THEN conn' = "closed" /\ connOps' = connOps + 1 /\ respConn' = FALSE
    ELSE UNCHANGED <<conn, connOps, respConn>>

\* _response_eof, with the protocol's upgraded flag as it is at the call.
ResponseEof(up) ==
    IF closed \/ (respConn /\ up)
    THEN UNCHANGED <<closed, cancelReq, conn, connOps, respConn, cbs, ready>>
    ELSE /\ closed' = TRUE
         /\ CleanupWriter
         /\ ReleaseConnection(ready)

\* The body of release() and close().
DoRelease ==
    NotifyContent /\ closed' = TRUE /\ CleanupWriter /\ ReleaseConnection(ready)
DoClose ==
    NotifyContent /\ closed' = TRUE /\ CleanupWriter /\ CloseConnection
    /\ UNCHANGED cbVars

(* The writer's first step was scheduled by create_task (call_soon)     *)
(* before start() suspended, and the loop runs its ready handles in FIFO *)
(* order: whatever is woken after that (an I/O callback delivering the   *)
(* response, the owner resuming from protocol.read(), a task calling     *)
(* terminate()) runs after the writer's first step.  With eager start    *)
(* that step ran inside send() already.                                  *)
WriterStarted == wpc # "new"

-----------------------------------------------------------------------------
(* ClientRequest.send: status line and headers are written, the writer   *)
(* task is created.  With eager start the task runs before send goes on. *)
Send ==
    /\ owner = "idle"
    /\ owner' = "sending"
    /\ wpc' = "new"
    /\ UNCHANGED <<req, sent, eofWritten, cancelReq, cancelled, cbVars,
                   respVars, netVars, connVars>>

(* The rest of send (self._writer = task, the response is built with     *)
(* the same task) and the prologue of ClientResponse.start.  Each _writer *)
(* setter resets the handle at once if the task is already done.          *)
StartResponse ==
    /\ owner = "sending"
    /\ req.eager => WriterStarted   \* asyncio.Task(..., eager_start=True) ran it
    /\ reqWriter' = (wpc # "done")
    /\ respWriter' = (wpc # "done")
    /\ cbReqReset' = (wpc # "done")
    /\ cbRespReset' = (wpc # "done")
    /\ respCont' = req.expect
    /\ closed' = FALSE
    /\ respConn' = TRUE
    /\ owner' = "starting"
    /\ UNCHANGED <<req, taskVars, cbRelease, ready, cont, released, body, readResult,
                   netVars, connVars>>

-----------------------------------------------------------------------------
(* The write_bytes task.  Without eager start it first runs after send.  *)
WriterMayRun == owner # "sending" \/ req.eager

\* First step: a cancel already requested is thrown in before the try.
WStart ==
    /\ wpc = "new" /\ WriterMayRun
    /\ IF cancelReq
       THEN Finish(TRUE) /\ UNCHANGED <<sent, eofWritten>>
       ELSE /\ wpc' = IF req.expect THEN "continue" ELSE "body"
            /\ UNCHANGED <<sent, eofWritten, cancelReq, cancelled, cbVars>>
    /\ UNCHANGED <<req, owner, respVars, netVars, connVars>>

\* Seeded fault: write_bytes that does not await self._continue.
MutWContinueNoWait ==
    /\ wpc = "continue" /\ WriterMayRun
    /\ \/ cancelReq /\ Finish(FALSE)
       \/ ~cancelReq /\ wpc' = "body" /\ UNCHANGED <<cancelReq, cancelled, cbVars>>
    /\ UNCHANGED <<req, owner, sent, eofWritten, respVars, netVars, connVars>>

\* await writer.drain(); await self._continue; a cancel here returns.
WContinue ==
    /\ wpc = "continue" /\ WriterMayRun
    /\ \/ /\ cancelReq
          /\ Finish(FALSE)
       \/ /\ ~cancelReq /\ cont = "set"
          /\ wpc' = "body"
          /\ UNCHANGED <<cancelReq, cancelled, cbVars>>
    /\ UNCHANGED <<req, owner, sent, eofWritten, respVars, netVars, connVars>>

\* Seeded fault: the chunk loop runs once past the end of the body.
MutWBodyExtraChunk ==
    /\ wpc = "body" /\ WriterMayRun
    /\ \/ /\ cancelReq        \* except CancelledError: await write_eof()
          /\ cancelReq' = FALSE
          /\ eofWritten' = TRUE
          /\ wpc' = "cancelEof"
          /\ UNCHANGED <<sent, cancelled, cbVars, contentExc, protoExc>>
       \/ /\ ~cancelReq /\ sent <= req.chunks
          /\ sent' = sent + 1
          /\ UNCHANGED <<wpc, eofWritten, cancelReq, cancelled, cbVars,
                         contentExc, protoExc>>
       \/ /\ ~cancelReq /\ sent < req.chunks   \* OSError or other Exception
          /\ protoExc' = TRUE
          /\ contentExc' = (contentExc \/ content # "unbound")
          /\ Finish(FALSE)
          /\ UNCHANGED <<sent, eofWritten>>
       \/ /\ ~cancelReq /\ sent = req.chunks   \* else: await write_eof()
          /\ eofWritten' = TRUE
          /\ wpc' = "eof"
          /\ UNCHANGED <<sent, cancelReq, cancelled, cbVars, contentExc, protoExc>>
    /\ UNCHANGED <<req, owner, respVars, content, upgraded, infoSeen, connVars>>

\* The try block: one chunk per step, its failure, its cancellation, and
\* the else clause that writes the end-of-body marker.
WBody ==
    /\ wpc = "body" /\ WriterMayRun
    /\ \/ /\ cancelReq        \* except CancelledError: await write_eof()
          /\ cancelReq' = FALSE
          /\ eofWritten' = TRUE
          /\ wpc' = "cancelEof"
          /\ UNCHANGED <<sent, cancelled, cbVars, contentExc, protoExc>>
       \/ /\ ~cancelReq /\ sent < req.chunks
          /\ sent' = sent + 1
          /\ UNCHANGED <<wpc, eofWritten, cancelReq, cancelled, cbVars,
                         contentExc, protoExc>>
       \/ /\ ~cancelReq /\ sent < req.chunks   \* OSError or other Exception
          /\ protoExc' = TRUE
          /\ contentExc' = (contentExc \/ content # "unbound")
          /\ Finish(FALSE)
          /\ UNCHANGED <<sent, eofWritten>>
       \/ /\ ~cancelReq /\ sent = req.chunks   \* else: await write_eof()
          /\ eofWritten' = TRUE
          /\ wpc' = "eof"
          /\ UNCHANGED <<sent, cancelReq, cancelled, cbVars, contentExc, protoExc>>
    /\ UNCHANGED <<req, owner, respVars, content, upgraded, infoSeen, connVars>>

\* write_eof's drain completes, or a cancel delivered there escapes.
WEof ==
    /\ wpc \in {"eof", "cancelEof"} /\ WriterMayRun
    /\ Finish(cancelReq)
    /\ UNCHANGED <<req, owner, sent, eofWritten, respVars, netVars, connVars>>

Writer == WStart \/ WContinue \/ WBody \/ WEof

-----------------------------------------------------------------------------
(* The event loop runs the first scheduled callback.                      *)
RunCallback ==
    /\ ready # <<>>
    /\ \/ /\ Head(ready) = "ReqReset"      \* ClientRequest.__reset_writer
          /\ reqWriter' = FALSE
          /\ ready' = Tail(ready)
          /\ UNCHANGED <<respWriter, cbs, respConn, connVars>>
       \/ /\ Head(ready) = "RespReset"     \* ClientResponse.__reset_writer
          /\ respWriter' = FALSE
          /\ ready' = Tail(ready)
          /\ UNCHANGED <<reqWriter, cbs, respConn, connVars>>
       \/ /\ Head(ready) = "Release"       \* lambda f: self._release_connection()
          /\ ReleaseConnection(Tail(ready))
          /\ UNCHANGED <<reqWriter, respWriter>>
    /\ UNCHANGED <<req, owner, taskVars, cont, respCont, closed, released, body,
                   readResult, netVars>>

-----------------------------------------------------------------------------
(* ClientResponse.start: one protocol.read() per step.                   *)

\* A 1xx other than 101: the continue waiter is resolved the first time.
StartInfo ==
    /\ owner = "starting" /\ ~protoExc /\ WriterStarted
    /\ infoSeen < MaxInfo
    /\ infoSeen' = infoSeen + 1
    /\ IF respCont
       THEN cont' = "set" /\ respCont' = FALSE
       ELSE UNCHANGED <<cont, respCont>>
    /\ UNCHANGED <<req, owner, taskVars, cbVars, reqWriter, respWriter, closed,
                   released, respConn, body, readResult, content, contentExc,
                   upgraded, protoExc, connVars>>

\* The final head (101 or >= 200): on_eof is registered, and runs at once
\* if the payload already ended.
StartFinal ==
    /\ owner = "starting" /\ ~protoExc /\ WriterStarted
    /\ \E up \in BOOLEAN, eofNow \in BOOLEAN :
          /\ upgraded' = up
          /\ IF eofNow
             THEN content' = "eof" /\ ResponseEof(up)
             ELSE content' = "open"
                  /\ UNCHANGED <<closed, cancelReq, conn, connOps, respConn, cbs, ready>>
    /\ owner' = "open"
    /\ UNCHANGED <<req, wpc, sent, eofWritten, cancelled, reqWriter, respWriter,
                   cont, respCont, released, body, readResult, contentExc,
                   infoSeen, protoExc>>

\* protocol.read() raises (HttpProcessingError, the writer's exception) or
\* the owner is cancelled: start() raises with the response still open.
StartFails ==
    /\ owner = "starting" /\ WriterStarted
    /\ owner' = "failed"
    /\ UNCHANGED <<req, taskVars, cbVars, respVars, netVars, connVars>>

\* The protocol feeds the end of the payload: on_eof callbacks run.
PayloadEof ==
    /\ content = "open" /\ WriterStarted
    /\ content' = "eof"
    /\ ResponseEof(upgraded)
    /\ UNCHANGED <<req, owner, wpc, sent, eofWritten, cancelled, reqWriter,
                   respWriter, cont, respCont, released, body, readResult,
                   contentExc, upgraded, infoSeen, protoExc>>

-----------------------------------------------------------------------------
(* read(), wait_for_close(), release(), close(), __del__, terminate().    *)

\* Lines 1075-1078: unless upgraded, wait for the writer, then release.
ReadTail ==
    IF respConn /\ upgraded
    THEN /\ owner' = "open" /\ readResult' = "body"
         /\ UNCHANGED <<conn, connOps, respConn, cbs, ready>>
    ELSE IF respWriter
         THEN /\ owner' = "readWait"
              /\ UNCHANGED <<readResult, conn, connOps, respConn, cbs, ready>>
         ELSE /\ owner' = "open" /\ readResult' = "body"
              /\ ReleaseConnection(ready)

ReadBegin ==
    /\ owner = "open"
    /\ \/ /\ ~body
          /\ owner' = "readContent"
          /\ UNCHANGED <<readResult, conn, connOps, respConn, cbs, ready>>
       \/ /\ body /\ released          \* ClientConnectionError("Connection closed")
          /\ readResult' = "error"
          /\ UNCHANGED <<owner, conn, connOps, respConn, cbs, ready>>
       \/ /\ body /\ ~released
          /\ ReadTail
    /\ UNCHANGED <<req, taskVars, reqWriter, respWriter, cont, respCont, closed,
                   released, body, netVars>>

\* await self.content.read() returns the body, or raises (an exception on
\* the stream, no stream at all, the owner cancelled): close() and raise.
ReadContentDone ==
    /\ owner = "readContent"
    /\ \/ /\ content = "eof" /\ ~contentExc
          /\ body' = TRUE
          /\ ReadTail
          /\ UNCHANGED <<cancelReq, closed, released, contentExc>>
       \/ /\ DoClose
          /\ owner' = "open" /\ readResult' = "error"
          /\ UNCHANGED body
    /\ UNCHANGED <<req, wpc, sent, eofWritten, cancelled, reqWriter, respWriter,
                   cont, respCont, content, upgraded, infoSeen, protoExc>>

\* _wait_released: await self._writer returns, or re-raises its CancelledError.
ReadWaitDone ==
    /\ owner = "readWait" /\ wpc = "done" /\ RoomForCallback
    /\ \/ /\ ~cancelled
          /\ readResult' = "body"
          /\ ReleaseConnection(ready)
       \/ /\ cancelled
          /\ readResult' = "error"
          /\ UNCHANGED <<conn, connOps, respConn, cbs, ready>>
    /\ owner' = "open"
    /\ UNCHANGED <<req, taskVars, reqWriter, respWriter, cont, respCont, closed,
                   released, body, netVars>>

\* The owner is cancelled while awaiting the writer task: asyncio cancels
\* the awaited task, and the owner goes on waiting for it to finish.
CancelOwner ==
    /\ owner \in {"readWait", "closeWait"}
    /\ wpc # "done" /\ ~cancelReq
    /\ cancelReq' = TRUE
    /\ UNCHANGED <<req, owner, wpc, sent, eofWritten, cancelled, cbVars,
                   respVars, netVars, connVars>>

WaitForClose ==
    /\ owner = "open"
    /\ IF respWriter
       THEN /\ owner' = "closeWait"
            /\ UNCHANGED <<cancelReq, closed, released, contentExc, conn, connOps,
                           respConn, cbs, ready>>
       ELSE DoRelease /\ UNCHANGED owner
    /\ UNCHANGED <<req, wpc, sent, eofWritten, cancelled, reqWriter, respWriter,
                   cont, respCont, body, readResult, content, upgraded,
                   infoSeen, protoExc>>

CloseWaitDone ==
    /\ owner = "closeWait" /\ wpc = "done" /\ RoomForCallback
    /\ owner' = "open"
    /\ IF cancelled
       THEN UNCHANGED <<cancelReq, closed, released, contentExc, conn, connOps,
                        respConn, cbs, ready>>
       ELSE DoRelease
    /\ UNCHANGED <<req, wpc, sent, eofWritten, cancelled, reqWriter, respWriter,
                   cont, respCont, body, readResult, content, upgraded,
                   infoSeen, protoExc>>

\* release(), also reached by __aexit__ and raise_for_status.
Release ==
    /\ owner \in Holding /\ RoomForCallback
    /\ DoRelease
    /\ UNCHANGED <<req, owner, wpc, sent, eofWritten, cancelled, reqWriter,
                   respWriter, cont, respCont, body, readResult, content,
                   upgraded, infoSeen, protoExc>>

Close ==
    /\ owner \in Holding
    /\ DoClose
    /\ UNCHANGED <<req, owner, wpc, sent, eofWritten, cancelled, reqWriter,
                   respWriter, cont, respCont, body, readResult, content,
                   upgraded, infoSeen, protoExc>>

\* The owner drops its last reference to the response.
Drop ==
    /\ owner \in {"open", "failed"}
    /\ owner' = "dropped"
    /\ UNCHANGED <<req, taskVars, cbVars, respVars, netVars, connVars>>

(* __del__: the garbage collector finalises the response once nothing    *)
(* references it: the writer coroutine holds the request, which holds    *)
(* the response (comment at lines 190-193), as do scheduled callbacks    *)
(* and a pending on_eof registration.                                    *)
Collect ==
    /\ owner = "dropped"
    /\ wpc = "done" /\ ready = <<>> /\ content # "open"
    /\ owner' = "collected"
    /\ IF ~closed /\ respConn
       THEN conn' = "released" /\ connOps' = connOps + 1
       ELSE UNCHANGED <<conn, connOps>>
    /\ UNCHANGED <<req, taskVars, cbVars, respVars, netVars>>

\* ClientRequest.terminate: cancel the task and forget it.
Terminate ==
    /\ owner \notin {"idle", "sending", "collected"} /\ WriterStarted
    /\ reqWriter
    /\ cancelReq' = (cancelReq \/ wpc # "done")
    /\ cbReqReset' = FALSE
    /\ reqWriter' = FALSE
    /\ UNCHANGED <<req, owner, wpc, sent, eofWritten, cancelled, cbRespReset,
                   cbRelease, ready,
                   respWriter, cont, respCont, closed, released, respConn, body,
                   readResult, netVars, connVars>>

-----------------------------------------------------------------------------
Next ==
    \/ Send \/ StartResponse
    \/ Writer
    \/ RunCallback
    \/ StartInfo \/ StartFinal \/ StartFails \/ PayloadEof
    \/ ReadBegin \/ ReadContentDone \/ ReadWaitDone \/ CancelOwner
    \/ WaitForClose \/ CloseWaitDone
    \/ Release \/ Close \/ Drop \/ Collect \/ Terminate

(* Fairness is what the event loop guarantees on its own.  The scheduled *)
(* callbacks are weakly fair, and so is a writer step the loop wakes by  *)
(* itself: the first step of the task, and the delivery of a requested   *)
(* cancel (Task.cancel() cancels the future the task awaits, whether it  *)
(* is drain(), the continue waiter or write_eof's drain).  Every other   *)
(* writer step resumes from a drain or from the 100-continue future and  *)
(* needs the peer to read or to answer; neither the peer nor the owner   *)
(* gets fairness.                                                        *)
Spec == Init /\ [][Next]_vars
WriterWoken == Writer /\ (wpc = "new" \/ cancelReq)
FairSpec == Spec /\ WF_vars(WriterWoken) /\ WF_vars(RunCallback)

-----------------------------------------------------------------------------
(* Properties.                                                           *)

(* The core ordering guarantee of the lifecycle (spec section 5, scenario *)
(* D): Connection.release() hands the connection back to the pool only    *)
(* once the write_bytes task has finished, whichever of release(), read(),*)
(* the end of the payload, a done-callback or __del__ does it.            *)
NoReleaseWhileWriting == conn = "released" => wpc = "done"

(* The connection is handed back (released or closed) at most once,      *)
(* however release(), close(), read(), _response_eof and the deferred     *)
(* done-callbacks interleave (the double-release question of the spec).   *)
ConnectionReturnedOnce == connOps <= 1

(* The invariant the two properties above rest on.  The write_bytes task *)
(* never leaves "done"; a callback is scheduled only by a finished task;  *)
(* ClientResponse._writer is reset only once the task finished (by its    *)
(* done-callback, or at once by the setter in send()); and whoever hands  *)
(* the connection back clears ClientResponse._connection in the same      *)
(* step, except __del__, after which nothing runs.                        *)
LifecycleInv ==
    /\ owner = "idle" => wpc = "none"
    /\ owner \in {"idle", "sending"} =>
          ~respConn /\ connOps = 0 /\ content = "unbound"
    /\ ready # <<>> => wpc = "done"
    /\ respConn /\ ~respWriter => wpc = "done"
    /\ NoReleaseWhileWriting
    /\ connOps \in {0, 1}
    /\ respConn /\ owner # "collected" => connOps = 0
    /\ owner = "collected" => ready = <<>> /\ wpc = "done" /\ content # "open"

(* With an armed 100-continue waiter, no body chunk is written before     *)
(* start() has read an informational head and resolved the waiter.       *)
ContinueGatesBody == (req.expect /\ sent > 0) => infoSeen > 0

(* The connection is handed back (to the pool or closed).                *)
Returned == conn \in {"released", "closed"}

(* The writer is suspended in a drain, in write_eof's drain or on the    *)
(* continue waiter, with no cancel pending: only the peer can wake it.   *)
AwaitingPeer == wpc \in {"continue", "body", "eof", "cancelEof"} /\ ~cancelReq

(* Once release() or close() has been called on the response, the        *)
(* connection is eventually handed back, unless the write_bytes task is  *)
(* left waiting on the peer (a cancelled writer's write_eof drain); and   *)
(* once that task has finished, it is handed back in any case: the       *)
(* cancel of _cleanup_writer reaches the writer and the deferred release *)
(* callback registered by _release_connection fires.                      *)
ReleaseEventuallyReturnsConnection ==
    /\ released ~> (Returned \/ AwaitingPeer)
    /\ (released /\ wpc = "done") ~> Returned

(* Spec 4.4: "any failure during read triggers close() before           *)
(* propagating": a read() that raises has closed the response (close()    *)
(* marks it released), or it raised because it already was released.    *)
ReadFailureCloses == readResult = "error" => released

(* A connection handed back to the pool carries a complete request: no   *)
(* body was announced, or all the Content-Length body was written, or a  *)
(* chunked body was terminated by write_eof's last chunk, or the protocol *)
(* was marked failed so that the pool closes it.                         *)
RequestFramed ==
    \/ req.bodyless
    \/ ~req.chunked /\ sent = req.chunks
    \/ req.chunked /\ eofWritten
PooledOnlyWhenFramed == conn = "released" => (RequestFramed \/ protoExc)

=============================================================================
