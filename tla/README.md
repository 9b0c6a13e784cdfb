# TLA+ models of the aiohttp client request/response engine

This directory holds the TLA+ verification project for `src/aiohttp/client_reqrep.py`.
That file is the request/response core of the HTTP/1.x client. It builds a request, writes it with a background
task, parses the response and decides when the connection goes back to the
pool. The project has three parts:

* TLA+ modules that model the code;
* TLC configurations that model-check them on small instances;
* TLAPS proofs of the main safety properties, valid for every value of the
  constants.

## 1. The system and its parts

| Part (spec §2) | Code | Status |
|---|---|---|
| ConnectionKey | `ConnectionKey`, `ClientRequest.connection_key`, `is_ssl`, `host`, `port` (154-164, 294-327) | modelled in `ConnectionPool` (proxy fields are None) |
| Fingerprint | `Fingerprint`, `SSL_ALLOWED_TYPES` (114-151) | modelled in `ConnectionPool`: which objects can be built, and `check()` on a new TLS connection |
| HeaderNegotiator | `ClientRequest.__init__`, `update_*`, `keep_alive`, the header part of `send` (195-554, 636-662) | partly: `RequestHeaders` models the steps that decide framing, compression, 100-continue and the `Connection` header |
| RequestEngine | `send`, `write_bytes`, `terminate`, the `_writer` setter (274-292, 542-704) | modelled in `ClientLifecycle`, except the request-target form, the proxy path and `ClientRequest.close` |
| ResponseEngine | `start`, `_response_eof`, `read`, `_wait_released`, `wait_for_close`, `release`, `close`, `raise_for_status`, `__del__`, the `_writer` setter (717-1154) | lifecycle modelled in `ClientLifecycle`; the header parsing behind `get_encoding`, `json`, `links` and `content_disposition` is not |
| RequestInfo, trace hooks | 107-112, 706-715 | not modelled: an immutable snapshot and observers that never change control flow |

### How the parts interact

There is one asyncio event loop and no threads. The model has four actors. Each
one advances only at the code's `await` points.

* **The owner** is the session or user code. It calls `send()`, `start()`, then
  `read()`, `release()`, `close()` or `wait_for_close()`. It may drop the
  response, or call `terminate()`.
* **The writer task** is created by `send()` and runs `write_bytes`. Its steps
  are: wait for `100 Continue`, write one chunk per step, then `write_eof`.
  Its error paths are `OSError`/`Exception` (it sets an exception on the
  protocol) and `CancelledError` (it writes the end marker and returns).
* **The done-callbacks** are queued by `call_soon` when the task finishes and
  run in FIFO order. There are three kinds:
  * `ClientRequest.__reset_writer`;
  * `ClientResponse.__reset_writer`;
  * the lambda that `_release_connection` registers while the writer is still
    running.
* **The peer/protocol** delivers 1xx heads, the final head and the end of the
  payload. The end of the payload runs `_response_eof`.

## 2. Modules

| Module | Contents |
|---|---|
| `ClientLifecycle.tla` | The lifecycle of one request/response pair on one connection: state, one action per handler step, properties, seeded faults for the mutants |
| `MCClientLifecycle.tla` | Gives the constants small values for TLC |
| `ClientLifecycleProofs.tla` | TLAPS proofs: type correctness, the inductive `LifecycleInv` and its two corollaries, and the 100-continue gate (`GateInv`) |
| `RequestHeaders.tla`, `MCRequestHeaders.tla` | Header negotiation of one request, from the constructor's `update_*` steps to the writer settings of `send()` |
| `ConnectionPool.tla`, `MCConnectionPool.tla` | Requests sharing a pool bucketed by `ConnectionKey`, with the TLS handshake and `Fingerprint.check` on a new connection |
| `ConnectionPoolProofs.tla` | TLAPS proofs: type correctness, and the pin is respected |
| `ConnectionLease.tla` | The abstract promise of connection reuse: a request is served over a connection it holds alone, whose TLS session fits its scheme and pin |
| `ConnectionPoolRefinement.tla` | TLAPS proof that `ConnectionPool` implements `ConnectionLease` |
| `RequestHeadersProofs.tla` | TLAPS proofs of `RequestHeaders`' type, conflict and length properties, through the inductive `HInv` |

### `ClientLifecycle`: state

Each variable corresponds to a piece of program state:

* `owner` is the owner's program counter.
* `wpc` is the writer task's program counter: `new`, `continue`, `body`,
  `eof`, `cancelEof`, `done`.
* `sent` and `eofWritten` record what is on the wire.
* `cancelReq` means `Task.cancel()` is pending. `cancelled` means the task
  ended by a `CancelledError`.
* `cbReqReset`, `cbRespReset` and `cbRelease` are the callbacks registered on
  the task. `ready` is the `call_soon` queue.
* `reqWriter` and `respWriter` are the two `_writer` handles.
* `cont` and `respCont` are the continue future and `ClientResponse._continue`.
* `closed`, `released`, `respConn` and `body` are `_closed`, `_released`,
  `_connection is not None` and `_body is not None`.
* `content` and `contentExc` are the payload stream and its exception.
* `upgraded` and `protoExc` are `protocol.upgraded` and the protocol's
  exception.
* `conn` and `connOps` are the connection's fate and the number of
  `Connection.release()`/`close()` calls.

Data is abstracted away. A request is a record with these fields:

* the number of chunks, at most `MaxChunks`;
* whether it arms a 100-continue waiter;
* whether the writer frames the body as chunks;
* whether the body is empty;
* whether the task starts eagerly (Python ≥ 3.12, line 674).

### Actions

`PROJECT.json` "map" gives the exact lines of each action.

* `Send` and `StartResponse` model `send()` (606-692), the two `_writer`
  setters, and the prologue of `start()`.
* The writer is modelled by `WStart`, `WContinue`, `WBody` and `WEof`
  (556-604). When the task finishes, `Finish` hands the registered
  callbacks to `call_soon`.
* `RunCallback` runs the head of `ready`.
* `start()` is split into three actions: `StartInfo` (the 1xx loop and the
  continue waiter), `StartFinal` (the final head and `on_eof`) and
  `StartFails`. `PayloadEof` is the peer ending the payload, which runs
  `_response_eof`.
* `read()` is modelled by `ReadBegin`, `ReadContentDone`, `ReadWaitDone`
  and the helper `ReadTail`. `CancelOwner` models a cancel delivered while
  the owner awaits the writer: asyncio cancels the awaited task.
* `WaitForClose`/`CloseWaitDone` model `wait_for_close()`. `Release`,
  `Close`, `Drop`/`Collect` (`__del__`) and `Terminate` model the remaining
  owner calls.
* Helpers shared between handlers are single operators: `ReleaseConnection`,
  `CleanupWriter`, `NotifyContent`, `ResponseEof`, `CloseConnection`,
  `DoRelease` and `DoClose`.

### Scheduling facts the model relies on

* Without eager start, the writer's first step runs only after `send()`
  returns (`WriterMayRun`).
* `create_task` schedules the writer's first step before `start()` suspends
  on `protocol.read()`. The FIFO loop therefore runs that step before
  anything woken later: an I/O callback delivering the response, the owner
  resuming from `protocol.read()` (`StartFails`), or a task calling
  `terminate()` (`WriterStarted`). With eager start (Python >= 3.12, 674)
  the step runs inside `send()`, before `StartResponse`.
* A task that finishes schedules its callbacks in registration order.
  `add_done_callback` on a finished task schedules the callback at once.
  `remove_done_callback` does not remove a callback that is already scheduled.
* `__del__` runs only once nothing references the response. Until then these
  keep it alive:
  * the writer coroutine, per the comment at 190-193;
  * queued callbacks;
  * a pending `on_eof` registration.

### `RequestHeaders`: header negotiation

`ClientRequest.__init__` runs its `update_*` steps in a fixed order, and
`send()` then configures the `StreamWriter`. `pc` follows that order:
`UpdateHeaders`, `UpdateContentEncoding`, `UpdateBodyFromData`,
`UpdateTransferEncoding` (only for a body or a non-GET method, lines 265-266),
`UpdateExpectContinue`, `Send`. A `ValueError` moves `pc` to `failed`.

* `args` holds the constructor's inputs, chosen once in `Init`:
  * method GET or POST;
  * version 0.9, 1.0 or 1.1;
  * the caller's headers: each of `Content-Length`, `Transfer-Encoding`,
    `Content-Encoding`, `Expect`, `Connection` is absent or takes one of a few
    values, in mixed case where the code lowercases;
  * data none, bytes or a stream of unknown size;
  * `chunked` None, True or False, `compress`, `expect100`.
* `headers`, `chunked`, `body` and `cont` are `self.headers` (restricted to
  those names), `self.chunked`, the kind of `self.body`, and whether
  `self._continue` is armed.
* `writerChunked` and `writerCompressed` record the `enable_chunking()` and
  `enable_compression()` calls of `send()`.
* `KeepAlive` and `ConnectionHeader` are `keep_alive()` and the `Connection`
  header choice of `send()` (651-662).

Auto headers, host, cookies, auth, proxy and the content type do not touch
these headers and are left out.

### `ConnectionPool`: pool keys and fingerprints

Several requests share one pool. The pool is in the connector, outside this
repository. Its behaviour is modelled from the spec's pool-key contract: an
idle connection goes to a request with an equal `ConnectionKey`.

* `spec[s]` is request `s`'s host, scheme, `ssl` argument and
  `server_hostname`.
* `phase`, `connOf`, `conns` and `idle` are the request's progress, the
  connection it holds, the connections opened and the idle ones.
* `ConnectionKey(r)` is `connection_key` (301-316). The proxy fields are
  None.
* `FingerprintBuilt` is `Fingerprint.__init__`: only a 32-byte (sha256)
  digest builds an object. `FingerprintCheck` is `check()`.
* `Acquire` reuses an idle connection of the bucket.
* `Connect` opens a connection and runs the TLS handshake for
  `HandshakeName` (`server_hostname`, else the host). For a pinned request it
  then runs `Fingerprint.check`; a mismatch fails the request.
* `Release` returns the connection to the pool.

A certificate is abstracted by the name it was issued for.

## 3. Runs

| Run | Config | Expect | What it shows |
|---|---|---|---|
| `clientlifecycle` | `MCClientLifecycle.cfg` | pass | Checks `TypeOK`, `NoReleaseWhileWriting`, `ConnectionReturnedOnce`, `ContinueGatesBody`, `LifecycleInv` and `ReleaseEventuallyReturnsConnection` over every interleaving. About 730k distinct states, 30 s. |
| `clientlifecycle_framing` | `MCClientLifecycleFraming.cfg` | violation | `PooledOnlyWhenFramed` fails: a request whose body never fully followed reaches the pool (finding 1). |
| `clientlifecycle_readfailure` | `MCClientLifecycle_ReadFailure.cfg` | violation | `ReadFailureCloses` fails: `read()` propagates the `CancelledError` of a writer `_response_eof` cancelled, without `close()`; the connection is pooled, not closed (finding 2). |
| `requestheaders` | `MCRequestHeaders.cfg` | pass | `TypeOK`, `ConflictsRejected`, `BodyLengthAnnounced` for every combination of the constructor's inputs (about 390k states). |
| `requestheaders_exclusive` | `MCRequestHeaders_LengthHeadersExclusive.cfg` | violation | Finding 3. |
| `requestheaders_framing` | `MCRequestHeaders_WireFramingMatchesHeaders.cfg` | violation | Finding 4. |
| `requestheaders_compress` | `MCRequestHeaders_CompressionAnnounced.cfg` | violation | Finding 5. |
| `requestheaders_onlyconflicts` | `MCRequestHeaders_OnlyConflictsRejected.cfg` | violation | Finding 6. |
| `connectionpool` | `MCConnectionPool.cfg` | pass | `TypeOK`, `FingerprintPinned` and `LeaseRefined` for three requests, two connections, under symmetry of the requests (about 24k states). `LeaseRefined`: the pool implements `ConnectionLease` under the mapping `LeaseReq`/`LeaseSessions`. |
| `connectionpool_servername` | `MCConnectionPool_ServerName.cfg` | violation | Finding 7. |

The properties:

* **NoReleaseWhileWriting** (spec §5, scenario D): `Connection.release()` is
  called only after `write_bytes` finished.
* **ConnectionReturnedOnce**: release/close happens at most once. Spec §9
  raises the double-release question.
* **ContinueGatesBody**: with 100-continue armed, no body chunk is written
  before a 1xx head was read.
* **LifecycleInv** is the inductive invariant behind the first two (§5 below).
* **ReleaseEventuallyReturnsConnection** has two parts:
  * after `release()` or `close()`, the connection is eventually released or
    closed, unless the writer is left waiting on the peer (`AwaitingPeer`: in
    a drain, on the continue waiter or in `write_eof`'s drain, with no
    cancel pending);
  * once `release()` or `close()` was called and the writer finished, the
    connection is eventually handed back in any case.

  **Fairness.** Weak fairness is given only to what the event loop wakes by
  itself:
  * the scheduled done-callbacks (`RunCallback`);
  * `WriterWoken`: the writer's first step, and the delivery of a requested
    cancel. `Task.cancel()` cancels whatever future the task awaits.

  The writer's other steps resume from `drain()`, from `write_eof`'s drain
  (593, 603) or from the continue future. They need the peer to read or to
  answer, so they get no fairness. Neither do the peer or the owner: user
  code may hold a response forever, and a peer may never read.

  So the property does not claim that a cancelled writer's `write_eof`
  finishes. `_response_eof` or `release()` cancels a writer mid-body; it
  enters `write_eof`'s drain; if the peer then stops reading, the connection
  stays held until the transport is lost.

Each property of the passing run has a mutant in `PROJECT.json`, a seeded
bug in the code it is about, and TLC finds the property violated under it:

| Mutant | Fault it models |
|---|---|
| `MutWBodyExtraChunk` | An off-by-one in the chunk loop |
| `MutReleaseIgnoresWriter` | `_release_connection` without the `_writer` check |
| `MutCloseKeepsConnection` | `close()` that forgets `_connection = None` |
| `MutWContinueNoWait` | No `await self._continue` |
| `MutReleaseKeepsConnection` | A release that keeps `_connection` |
| `MutReleaseForgetsCallback` | `_release_connection` that never registers the deferred release (breaks `ReleaseEventuallyReturnsConnection`) |
| `MutEnableCompressionRaw` | `update_content_encoding` that writes `compress=True` into the header unconverted instead of `"deflate"` (breaks `TypeOK` of `requestheaders`) |
| `MutChunkedNoLengthCheck` | the chunked branch without the `Content-Length` check (breaks `ConflictsRejected`) |
| `MutChunkedNoHeader` | the chunked branch without the `Transfer-Encoding` header (breaks `BodyLengthAnnounced`) |
| `MutReleaseUnguarded` | a pool release by a request that holds no connection (breaks `TypeOK` of `connectionpool`) |
| `MutKeyNoSsl` | a `ConnectionKey` without `ssl` (breaks `FingerprintPinned` and `LeaseRefined`) |

**Bounds.** The constants are `MaxChunks = 2`, `MaxInfo = 2` and
`MaxPending = 3`.

* Two chunks give a cancel *between* chunks, which is what truncates a
  Content-Length body.
* Two 1xx heads exercise the "resolve the waiter only once" branch.
* Three pending callbacks allow two reset callbacks and a deferred release,
  or repeated `release()` calls each adding a deferred callback.

`MaxPending` bounds only the owner steps that would register one more
callback (`RoomForCallback`). Every 0/1/many boundary of the code is reached:
zero chunks, one chunk, a cancel during the continue wait, mid-body and
during `write_eof`. A cancel before the writer's first step is not reachable:
everything that can cancel runs after that step (`WriterStarted`), so
`WStart`'s cancelled branch, kept as asyncio defines it, never fires.

The deadlock check is off because the lifecycle really ends. After `__del__`,
or once the owner stops calling, nothing is enabled.

## 4. Findings

**1. A request whose body never fully followed can reach the pool**
(`PooledOnlyWhenFramed`, run `clientlifecycle_framing`). `write_bytes`
returns on a cancel during the continue wait (565-566). A cancel mid-body is
caught, and the task runs `await writer.write_eof()` (592-593) and ends
normally; for a Content-Length body `write_eof` writes nothing. Nothing
marks the protocol as failed. The deferred `_release_connection` (1030-1036)
then calls `Connection.release()`, and the connection goes back to the pool
with the peer still expecting body bytes.

The shortest trace found by TLC is eight states:
1. a chunked request with `Expect: 100-continue` and an empty body is sent;
2. the writer's first step reaches the continue wait;
3. `terminate()` cancels it, and `write_bytes` returns without writing the
   terminating chunk;
4. the final head arrives with its payload complete, and `_response_eof`
   pools the connection.

`terminate()` is not needed. With `Terminate` left out of `Next`, TLC finds
the same state after a final status sent before 100 Continue: the cancel
then comes from `_response_eof`'s `_cleanup_writer`. With 100-continue also
excluded, the trace is a Content-Length request answered before its one
chunk was written.

Spec §4.3 step 5 claims the cancel path avoids "leaving the stream truncated".

**2. `read()` can fail without `close()`** (`ReadFailureCloses`, run
`clientlifecycle_readfailure`). `read()` wraps only `content.read()` in its
try/except-close (1062-1070). TLC's trace:
1. a Content-Length request's writer is in `write_eof`'s drain (603) when
   the final head arrives with the payload complete;
2. `_response_eof` cancels the writer (979) and registers the deferred
   release (1036);
3. the cancel escapes `write_eof`, so the task ends cancelled;
4. `read()` takes the cached body. Its `await self._wait_released()` (1077)
   awaits the task (1040), which re-raises the `CancelledError` out of
   `read()` without `close()`.

The caller sees a cancellation it never asked for, on a response whose body
was read completely. The release callback queued in step 2 then pools the
connection on the next loop turn. Spec §4.4 says any failure during read
triggers `close()`, which would have closed the connection instead.

**3. `Content-Length` and `Transfer-Encoding: chunked` together**
(`LengthHeadersExclusive`). The caller passes `Transfer-Encoding: chunked`
with a bytes body and no `chunked` argument. `update_body_from_data` adds
`Content-Length` (505), because `self.chunked` is falsy. The chunked branch of
`update_transfer_encoding` (444-449) raises only when `self.chunked` is set,
so both headers go on the wire. `send()` does not chunk, since `chunked` is
None. Spec §6 and §8 say the two are exclusive for any non-conflicting
request.

**4. The writer chunks when the headers do not say so**
(`WireFramingMatchesHeaders`). `send()` calls `enable_chunking()` whenever
`self.chunked is not None` (640). With `chunked=False` and a bytes body, it
chunk-encodes a body announced by `Content-Length`. With a GET,
`chunked=True` and no data, Transfer-Encoding resolution is skipped (265).
The body is then chunk-encoded with no `Transfer-Encoding` header.

**5. Compression without a header** (`CompressionAnnounced`).
`update_content_encoding` returns at once for `data=None` (424-425). `send()`
still calls `enable_compression()` (637-638), so the writer compresses with no
`Content-Encoding` header. Spec §4.1 says `compress` writes the header.

**6. A stream body with a caller's chunked header is refused**
(`OnlyConflictsRejected`). For a body of unknown size,
`update_body_from_data` sets `self.chunked = True` itself (502). If the caller
also passed `Transfer-Encoding: chunked`, `update_transfer_encoding` then
raises "chunked can not be set if Transfer-Encoding: chunked header is set",
although the caller never set `chunked`. Spec §4.1 and §8 list only the
caller's explicit conflicts as failures.

**7. A TLS connection is reused under another server name**
(`ServedUnderOwnServerName`). `connection_key` (302-316) leaves out
`server_hostname` (stored at 252). Two requests to the same host that differ
only in `server_hostname` share a bucket. The second is served over a TLS
session whose SNI and certificate check were for the first one's name. Spec
§3 says requests that would negotiate incompatible TLS must never have equal
keys. The pinned case is safe: `ssl` is in the key, and a `Fingerprint` is
compared by identity, so `FingerprintPinned` holds and is proved.

## 5. Proofs (checked by `tlapm`)

### `ClientLifecycleProofs.tla`

* `TypeCorrect: Spec => []TypeOK`.
* `LifecycleInvariant: Spec => []LifecycleInv`.
* `ReleaseAfterWriter: Spec => []NoReleaseWhileWriting`.
* `ReturnedOnce: Spec => []ConnectionReturnedOnce`.

They hold for all natural-number values of `MaxChunks`, `MaxInfo` and
`MaxPending`, and under the assumption `ConstantsAssumption`.
`NoReleaseWhileWriting` is not inductive by itself, so the proofs use
`LifecycleInv`, which strengthens it with these facts:

* the writer never leaves `done`, and it is `none` while the owner is idle;
* a callback is queued only once the task is done;
* `ClientResponse._writer` is `None` while `_connection` is set only if the
  task is done. The setter in `send()` and the reset callback make it so;
* `connOps ∈ {0, 1}`, and `_connection` is still set only while `connOps = 0`.
  The one exception is `__del__`, after which nothing is enabled.

TLC checks `LifecycleInv` as an invariant of the run before it is proved.
The proof of `InvStep` has one step per action. `_release_connection` is
covered once by the lemma `ReleaseConnectionInv`, which every caller cites.
The type proof cites one lemma per shared helper (`ReleaseConnectionType`,
`FinishType`, `ResponseEofType`, ...). `FalseIsBoolean` is a Zenon-proved
fact that the SMT backend needs for Boolean variables set to `FALSE`.

* `ContinueGates: Spec => []ContinueGatesBody`. The inductive strengthening
  is `GateInv`:
  * the continue future is resolved only after a 1xx head was read;
  * with 100-continue armed, a writer past the wait implies a resolved future;
  * so does a written chunk.
  `WriterGate` shows that no writer step leaves the wait otherwise, and
  `GateStep` shows that `GateInv` is preserved.

### `ConnectionPoolProofs.tla`

`Pinned: Spec => []FingerprintPinned`, for any sets of requests, hosts,
names and fingerprints, and any `MaxConns`, under `PoolAssumption`. The
inductive invariant `PoolInv` adds two facts to `TypeOK`:

* `ConnsSound`: an opened connection is TLS exactly when its key says so,
  and a TLS connection whose key holds a fingerprint was checked against it;
* `HeldMatches`: a connected request holds an opened connection of its own
  key.

Reuse preserves it because the bucket is defined by the key (`AcquireInv`).
Opening preserves it because `Connect` keeps a pinned connection only after
the check (`ConnectInv`). TLC checked `PoolInv` as an invariant before it was
proved.

* `PoolTypeCorrect: Spec => []TypeOK` follows from `PoolInv`.

### `ConnectionPoolRefinement.tla`

`LeaseRefinement: Spec => LeaseRefined`. The mapping sends a request to its
scheme and `ssl` argument (`LeaseReq`). It sends a connection to its TLS
session: whether it is TLS, and the certificate its handshake got
(`LeaseSessions`).

* `BucketFits` shows that a connection of the request's bucket fits it. Its
  key equals the request's, and `ConnsSound` ties the session to the key.
* `Acquire` is therefore `Lease`, and `Connect` is `Open` when
  `Fingerprint.check` passes, `Fail` otherwise. `SessionsAppend` states that
  appending a connection appends its session.
* `Release` is `Return`.

`ConnectionLease` asks nothing of the server name. Finding 7 shows that the
key cannot promise it.

### `RequestHeadersProofs.tla`

* `HeadersTypeCorrect: Spec => []TypeOK`.
* `ConflictsRefused: Spec => []ConflictsRejected`.
* `LengthAnnounced: Spec => []BodyLengthAnnounced`.

These hold for every combination of arguments, under `AbsentAssumption`
(None is not a header value). The inductive invariant `HInv` follows
`__init__`'s straight-line order. For the step `pc` has reached, it records
what the earlier `update_*` calls established:

* once `update_content_encoding` has run, compress with a `Content-Encoding`
  header was refused;
* once `update_content_encoding` has run, compress or `chunked=True` left
  `self.chunked` truthy;
* the caller's headers are never removed;
* `Transfer-Encoding` is still the caller's until `update_transfer_encoding`
  runs;
* once the transfer encoding is resolved, no conflict remains and the length
  is announced.

There is one lemma per step. `update_transfer_encoding` is split by the
code's branches. TLC checked `HInv` over all 393k states before it was
proved. Proving it found a precedence slip: `UNION {…} \cup {…}` had been
read as `UNION ({…} \cup {…})` in `TypeOK`, `UserHeaders` and the
assumption. It is fixed with parentheses.

### Only model-checked

* **Liveness** (`ReleaseEventuallyReturnsConnection`): TLAPS does not handle
  liveness under fairness or `ENABLED`, so it stays with TLC.
* **That a cancelled writer's `write_eof` drain completes.** This needs the
  peer to read, so no fairness covers it, and nothing is claimed.
* **The properties of the violation runs** (findings 1-7) are false of the
  code, so they have counterexamples instead of proofs.

Every invariant of a passing run is proved; the liveness property is not. Each proof holds for every value of the constants, and
TLC's runs check the same statements on small instances.

## 6. Not modelled, and why

* **Headers that do not decide framing or reuse.** `update_host`,
  `update_auto_headers`' defaults, `update_cookies`, `update_auth`,
  `update_proxy` and the default content type add headers no property tells
  apart. `keep_alive` is modelled as written, comparing `Connection`
  case-sensitively (547, 551).
* **Proxies and `SSLContext`.** The proxy fields of `ConnectionKey` are None,
  and `ssl` is True, False or a `Fingerprint`. An `SSLContext` is compared by
  identity like a `Fingerprint`, and the model adds nothing for it.
* **RequestInfo and trace hooks** (107-112, 329-331, 706-715): an immutable
  snapshot and observers that never change control flow.
* **A closed event loop** (`close()` at 991, `terminate()` at 702). Once the
  loop is closed nothing runs again.
* **`ClientRequest.close()`** (694-697) is awaited by the session outside this
  file.
* **Response decoding** (`get_encoding`, `text`, `json`, `links`,
  `content_disposition`): pure functions of headers and body bytes, with no
  interaction with the lifecycle.
