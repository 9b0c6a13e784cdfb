--------------------------- MODULE RequestHeaders ---------------------------
(***************************************************************************)
(* Header negotiation of one request: the update_* steps run by           *)
(* ClientRequest.__init__ in their order, then the header decisions of    *)
(* send() (chunking of the StreamWriter and the Connection header).       *)
(* Only the headers that decide framing, the 100-continue handshake and  *)
(* connection reuse are kept; a header maps to its value or to Absent.   *)
(* Header names are case-insensitive in a CIMultiDict, so one name each; *)
(* values keep their case, as the code compares them.                   *)
(***************************************************************************)
EXTENDS Naturals

CONSTANT Absent   \* the value of a header that is not set

VARIABLES
    args,       \* the arguments of ClientRequest.__init__ (never change)
    pc,         \* the next step of __init__ / send, or "failed" (ValueError)
    headers,    \* self.headers, restricted to the names below
    chunked,    \* self.chunked: "unset" (None), "true" or "false"
    body,       \* self.body: "empty" (b""), "sized" (size known), "stream"
    cont,       \* self._continue is a future (the waiter is armed)
    writerChunked,    \* send() called writer.enable_chunking()
    writerCompressed  \* send() called writer.enable_compression()

vars == <<args, pc, headers, chunked, body, cont, writerChunked, writerCompressed>>

Names == {"Content-Length", "Transfer-Encoding", "Content-Encoding",
          "Expect", "Connection"}

\* Body sizes as str(size) writes them into Content-Length: an empty body
\* and a non-empty one.
Sizes == {"0", "10"}

\* The values a caller may pass for each header.
UserValues ==
    [n \in Names |->
        CASE n = "Content-Length"    -> Sizes
          [] n = "Transfer-Encoding" -> {"chunked", "gzip"}
          [] n = "Content-Encoding"  -> {"gzip"}
          [] n = "Expect"            -> {"100-continue", "100-Continue"}
          [] n = "Connection"        -> {"close", "keep-alive"}]

UserHeaders == {h \in [Names -> (UNION {UserValues[n] : n \in Names}) \cup {Absent}] :
                   \A n \in Names : h[n] \in UserValues[n] \cup {Absent}}

Versions == {<<0, 9>>, <<1, 0>>, <<1, 1>>}

\* str.lower() on the values the model uses.
Lower(v) ==
    CASE v = "100-Continue" -> "100-continue"
        [] OTHER              -> v

\* `"chunked" in te` for te = headers.get(TRANSFER_ENCODING, "").lower()
HasChunked(te) == te # Absent /\ Lower(te) = "chunked"

\* data: None, a bytes-like body (its size known) or a stream (size None).
Args ==
    [method : {"GET", "POST"}, version : Versions, user : UserHeaders,
     data : {"none", "bytes", "stream"}, size : Sizes,
     chunked : {"unset", "true", "false"}, compress : BOOLEAN,
     expect100 : BOOLEAN]

Truthy(c) == c = "true"

\* None, the value of an unset header, is no header value a request carries.
ASSUME AbsentAssumption ==
    Absent \notin (UNION {UserValues[n] : n \in Names}) \cup {"deflate"}

TypeOK ==
    /\ args \in Args
    /\ pc \in {"headers", "contentEncoding", "bodyFromData", "transferEncoding",
               "expectContinue", "send", "sent", "failed"}
    /\ headers \in [Names -> (UNION {UserValues[n] : n \in Names})
                               \cup {"deflate", Absent}]
    /\ chunked \in {"unset", "true", "false"}
    /\ body \in {"empty", "sized", "stream"}
    /\ cont \in BOOLEAN
    /\ writerChunked \in BOOLEAN
    /\ writerCompressed \in BOOLEAN

Init ==
    /\ args \in Args
    /\ pc = "headers"
    /\ headers = [n \in Names |-> Absent]
    /\ chunked = args.chunked
    /\ body = "empty"
    /\ cont = FALSE
    /\ writerChunked = FALSE
    /\ writerCompressed = FALSE

Fail == pc' = "failed" /\ UNCHANGED <<args, headers, chunked, body, cont,
                                      writerChunked, writerCompressed>>

-----------------------------------------------------------------------------
(* update_headers: the caller's headers are copied into self.headers.     *)
UpdateHeaders ==
    /\ pc = "headers"
    /\ headers' = args.user
    /\ pc' = "contentEncoding"
    /\ UNCHANGED <<args, chunked, body, cont, writerChunked, writerCompressed>>

\* Seeded fault: compress=True written into the header unconverted.
MutEnableCompressionRaw ==
    /\ headers' = [headers EXCEPT !["Content-Encoding"] = "True"]
    /\ chunked' = "true"

(* compress=True becomes "deflate", the header is written and chunking   *)
(* is forced.                                                             *)
EnableCompression ==
    /\ headers' = [headers EXCEPT !["Content-Encoding"] = "deflate"]
    /\ chunked' = "true"

(* update_content_encoding: compress and Content-Encoding exclude each    *)
(* other; compress sets the header and forces chunking.                   *)
UpdateContentEncoding ==
    /\ pc = "contentEncoding"
    /\ \/ /\ args.data = "none"
          /\ pc' = "bodyFromData" /\ UNCHANGED <<headers, chunked>>
       \/ /\ args.data # "none" /\ headers["Content-Encoding"] # Absent
          /\ args.compress
          /\ Fail
       \/ /\ args.data # "none" /\ headers["Content-Encoding"] # Absent
          /\ ~args.compress
          /\ pc' = "bodyFromData" /\ UNCHANGED <<headers, chunked>>
       \/ /\ args.data # "none" /\ headers["Content-Encoding"] = Absent
          /\ args.compress
          /\ EnableCompression
          /\ pc' = "bodyFromData"
       \/ /\ args.data # "none" /\ headers["Content-Encoding"] = Absent
          /\ ~args.compress
          /\ pc' = "bodyFromData" /\ UNCHANGED <<headers, chunked>>
    /\ UNCHANGED <<args, body, cont, writerChunked, writerCompressed>>

(* update_body_from_data: a body without a known size forces chunking,    *)
(* one with a size sets Content-Length, unless chunked or already set.   *)
UpdateBodyFromData ==
    /\ pc = "bodyFromData"
    /\ pc' = IF args.data # "none" \/ args.method # "GET"
             THEN "transferEncoding" ELSE "expectContinue"
    /\ IF args.data = "none"
       THEN UNCHANGED <<headers, chunked, body>>
       ELSE /\ body' = IF args.data = "bytes" THEN "sized" ELSE "stream"
            /\ IF Truthy(chunked) \/ headers["Content-Length"] # Absent
               THEN UNCHANGED <<headers, chunked>>
               ELSE IF args.data = "stream"
                    THEN chunked' = "true" /\ UNCHANGED headers
                    ELSE /\ headers' = [headers EXCEPT !["Content-Length"] = args.size]
                         /\ UNCHANGED chunked
    /\ UNCHANGED <<args, cont, writerChunked, writerCompressed>>

\* Seeded fault: the Content-Length check of the chunked branch dropped.
MutChunkedNoLengthCheck ==
    /\ headers' = [headers EXCEPT !["Transfer-Encoding"] = "chunked"]
    /\ pc' = "expectContinue"

\* Seeded fault: the chunked branch forgets to write the header.
MutChunkedNoHeader ==
    /\ headers["Content-Length"] = Absent
    /\ pc' = "expectContinue" /\ UNCHANGED headers

(* The `elif self.chunked` branch of update_transfer_encoding: chunked   *)
(* with a Content-Length header raises, else the header is written.      *)
ChunkedBranch ==
    \/ headers["Content-Length"] # Absent /\ pc' = "failed" /\ UNCHANGED headers
    \/ /\ headers["Content-Length"] = Absent
       /\ headers' = [headers EXCEPT !["Transfer-Encoding"] = "chunked"]
       /\ pc' = "expectContinue"

(* The `else` branch: Content-Length from len(self.body).  A stream body *)
(* never gets here without the header (update_body_from_data made it    *)
(* chunked), so len() is taken of b"" or of a sized body.                *)
LengthBranch ==
    \/ headers["Content-Length"] # Absent /\ pc' = "expectContinue" /\ UNCHANGED headers
    \/ /\ headers["Content-Length"] = Absent
       /\ headers' = [headers EXCEPT !["Content-Length"] =
                        IF body = "sized" THEN args.size ELSE "0"]
       /\ pc' = "expectContinue"

(* update_transfer_encoding, run when there is data or the method is not *)
(* a GET-like one.                                                        *)
UpdateTransferEncoding ==
    /\ pc = "transferEncoding"
    /\ \/ /\ HasChunked(headers["Transfer-Encoding"]) /\ Truthy(chunked)
          /\ pc' = "failed" /\ UNCHANGED headers
       \/ /\ HasChunked(headers["Transfer-Encoding"]) /\ ~Truthy(chunked)
          /\ pc' = "expectContinue" /\ UNCHANGED headers
       \/ ~HasChunked(headers["Transfer-Encoding"]) /\ Truthy(chunked) /\ ChunkedBranch
       \/ ~HasChunked(headers["Transfer-Encoding"]) /\ ~Truthy(chunked) /\ LengthBranch
    /\ UNCHANGED <<args, chunked, body, cont, writerChunked, writerCompressed>>

(* update_expect_continue: the argument sets the header; a header set by *)
(* the caller arms the waiter as well.                                    *)
UpdateExpectContinue ==
    /\ pc = "expectContinue"
    /\ IF args.expect100
       THEN headers' = [headers EXCEPT !["Expect"] = "100-continue"] /\ cont' = TRUE
       ELSE UNCHANGED headers
            /\ cont' = (headers["Expect"] # Absent
                        /\ Lower(headers["Expect"]) = "100-continue")
    /\ pc' = "send"
    /\ UNCHANGED <<args, chunked, body, writerChunked, writerCompressed>>

-----------------------------------------------------------------------------
(* ClientRequest.keep_alive, on the headers as they are.                  *)
KeepAlive(version, h) ==
    IF version = <<0, 9>> THEN FALSE
    ELSE IF version = <<1, 0>> THEN h["Connection"] = "keep-alive"
    ELSE h["Connection"] # "close"

(* The Connection header send() writes when the caller set none: only    *)
(* where the version's default differs from keep_alive().                 *)
ConnectionHeader(version, h) ==
    CASE h["Connection"] # Absent                          -> h["Connection"]
      [] KeepAlive(version, h) /\ version = <<1, 0>>        -> "keep-alive"
      [] ~KeepAlive(version, h) /\ version = <<1, 1>>       -> "close"
      [] OTHER                                             -> Absent

(* send(), up to writing the headers: compression and chunking of the   *)
(* writer (chunking whenever self.chunked is not None), then the          *)
(* Connection header.                                                     *)
Send ==
    /\ pc = "send"
    /\ writerChunked' = (chunked # "unset")
    /\ headers' = [headers EXCEPT !["Connection"] = ConnectionHeader(args.version, headers)]
    /\ writerCompressed' = args.compress
    /\ pc' = "sent"
    /\ UNCHANGED <<args, chunked, body, cont>>

Next ==
    \/ UpdateHeaders \/ UpdateContentEncoding \/ UpdateBodyFromData
    \/ UpdateTransferEncoding \/ UpdateExpectContinue \/ Send

Spec == Init /\ [][Next]_vars

-----------------------------------------------------------------------------
(* Properties, about a request that was built and sent.                  *)

Sent == pc = "sent"

\* Transfer-Encoding resolution applies (spec 4.1): a body, or a method
\* that is not GET-like.
Resolves == args.data # "none" \/ args.method # "GET"

(* A request whose transfer encoding was resolved announces its body     *)
(* length: a Content-Length header or chunked transfer coding.           *)
BodyLengthAnnounced ==
    (Sent /\ Resolves) =>
        (headers["Content-Length"] # Absent \/ HasChunked(headers["Transfer-Encoding"]))

\* The spec 4.1 conflicts among the caller's arguments: compress with a
\* Content-Encoding header (for a request with data), chunked (or
\* compress, which forces it) with a Content-Length header or with a
\* "Transfer-Encoding: chunked" header, the last two where Transfer-Encoding
\* resolution applies.
Conflict(a) ==
    \/ a.data # "none" /\ a.compress /\ a.user["Content-Encoding"] # Absent
    \/ /\ a.data # "none" \/ a.method # "GET"
       /\ a.chunked = "true" \/ (a.compress /\ a.data # "none")
       /\ a.user["Content-Length"] # Absent
    \/ /\ a.data # "none" \/ a.method # "GET"
       /\ a.chunked = "true" \/ (a.compress /\ a.data # "none")
       /\ HasChunked(a.user["Transfer-Encoding"])

(* The configuration conflicts of spec 4.1 make the constructor raise:   *)
(* no request with one of them is built by update_content_encoding and   *)
(* update_transfer_encoding and sent.                                    *)
ConflictsRejected == Sent => ~Conflict(args)

(* Spec 4.1 / 8: a request without a conflict is built ("for all         *)
(* non-conflicting combinations the resulting header set is valid");     *)
(* the code raises in update_* only on a conflict.                        *)
OnlyConflictsRejected == pc = "failed" => Conflict(args)

(* Spec 6 / 8: Content-Length and "Transfer-Encoding: chunked" are never *)
(* both on the wire of a request built without a conflict; here the      *)
(* caller set no Content-Length, so any is the code's.                   *)
LengthHeadersExclusive ==
    (Sent /\ args.user["Content-Length"] = Absent) => ~(headers["Content-Length"] # Absent
              /\ HasChunked(headers["Transfer-Encoding"]))

(* The body is chunk-encoded by the StreamWriter exactly when the headers *)
(* announce chunked transfer coding, so the peer can find its end; for   *)
(* the framing the code chooses (the caller set no Transfer-Encoding).    *)
WireFramingMatchesHeaders ==
    (Sent /\ args.user["Transfer-Encoding"] = Absent) =>
        (writerChunked <=> HasChunked(headers["Transfer-Encoding"]))

(* Spec 4.1: compress "writes the header": a body compressed by the       *)
(* StreamWriter is announced by a Content-Encoding header.                *)
CompressionAnnounced == (Sent /\ writerCompressed) => headers["Content-Encoding"] # Absent

=============================================================================
