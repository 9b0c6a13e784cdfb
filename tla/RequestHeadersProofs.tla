------------------------- MODULE RequestHeadersProofs -------------------------
(***************************************************************************)
(* Proofs that the header negotiation of ClientRequest rejects every     *)
(* configuration conflict of spec 4.1 and announces the body length of   *)
(* every request whose transfer encoding is resolved, for every input.   *)
(*                                                                         *)
(* The argument follows __init__'s straight-line order: HInv records, for *)
(* each step pc has reached, what the earlier update_* calls established *)
(* about self.headers and self.chunked as functions of the arguments.    *)
(***************************************************************************)
EXTENDS RequestHeaders, TLAPS

\* The steps after update_content_encoding, and after the transfer encoding
\* was resolved (or skipped).
AfterEncoding == {"bodyFromData", "transferEncoding", "expectContinue", "send", "sent"}
Resolved == {"expectContinue", "send", "sent"}

(* The inductive invariant: once update_content_encoding ran, compress   *)
(* with a Content-Encoding header was refused and compress or chunked    *)
(* left self.chunked truthy; update_headers' values are never removed;    *)
(* Transfer-Encoding stays the caller's until update_transfer_encoding;   *)
(* once the transfer encoding is resolved no conflict remains and the    *)
(* body length is announced.                                              *)
HInv ==
    /\ TypeOK
    /\ pc \in {"headers", "contentEncoding"} => chunked = args.chunked
    /\ pc \in AfterEncoding =>
          /\ ~(args.data # "none" /\ args.compress /\ args.user["Content-Encoding"] # Absent)
          /\ (Truthy(args.chunked) \/ (args.compress /\ args.data # "none")) => Truthy(chunked)
    /\ pc # "headers" => \A n \in Names : args.user[n] # Absent => headers[n] # Absent
    /\ pc \in {"contentEncoding", "bodyFromData", "transferEncoding"}
          => headers["Transfer-Encoding"] = args.user["Transfer-Encoding"]
    /\ pc \in Resolved => ~Conflict(args)
    /\ pc \in Resolved /\ Resolves =>
          headers["Content-Length"] # Absent \/ HasChunked(headers["Transfer-Encoding"])

HeaderValues == (UNION {UserValues[n] : n \in Names}) \cup {"deflate", Absent}

LEMMA ArgsHeaders ==
    ASSUME NEW a \in Args
    PROVE  /\ a.user \in [Names -> HeaderValues]
           /\ a.size \in HeaderValues
           /\ a.size # Absent
           /\ "chunked" \in HeaderValues /\ "100-continue" \in HeaderValues
<1>1. a.user \in UserHeaders /\ a.size \in Sizes
  BY DEF Args
<1>2. a.user \in [Names -> HeaderValues]
  BY <1>1 DEF UserHeaders, HeaderValues
<1>3. Sizes \subseteq UNION {UserValues[n] : n \in Names}
  BY DEF UserValues, Names
<1>4. {"chunked", "100-continue"} \subseteq UNION {UserValues[n] : n \in Names}
  BY DEF UserValues, Names
<1>5. QED
  BY <1>1, <1>2, <1>3, <1>4, AbsentAssumption DEF HeaderValues

LEMMA InitHInv == Init => HInv
<1> SUFFICES ASSUME Init PROVE HInv
  OBVIOUS
<1>1. args \in Args /\ chunked = args.chunked /\ pc = "headers"
  BY DEF Init
<1>2. headers \in [Names -> HeaderValues]
  BY DEF Init, HeaderValues
<1>3. chunked \in {"unset", "true", "false"}
  BY <1>1 DEF Args
<1>4. TypeOK
  BY <1>1, <1>2, <1>3 DEF Init, TypeOK, HeaderValues
<1>5. QED
  BY <1>1, <1>4 DEF HInv, AfterEncoding, Resolved

\* The values the update_* steps and send() write are header values, not None.
LEMMA WrittenValues ==
    /\ {"0", "chunked", "100-continue", "deflate", "close", "keep-alive"} \subseteq HeaderValues
    /\ Absent \notin {"0", "chunked", "100-continue", "deflate", "close", "keep-alive"}
<1>1. {"0", "chunked", "100-continue", "close", "keep-alive"} \subseteq UNION {UserValues[n] : n \in Names}
  BY DEF UserValues, Names, Sizes
<1>2. QED
  BY <1>1, AbsentAssumption DEF HeaderValues

(* update_headers copies the caller's headers.                            *)
LEMMA UpdateHeadersInv == HInv /\ UpdateHeaders => HInv'
<1> SUFFICES ASSUME HInv, UpdateHeaders PROVE HInv'
  OBVIOUS
<1>1. args.user \in [Names -> HeaderValues]
  BY ArgsHeaders DEF HInv, TypeOK
<1>2. TypeOK'
  BY <1>1 DEF HInv, TypeOK, UpdateHeaders, HeaderValues
<1>3. QED
  BY <1>2 DEF HInv, UpdateHeaders, AfterEncoding, Resolved

(* update_content_encoding: refusing compress with a Content-Encoding     *)
(* header, or writing the header and forcing chunked.                     *)
LEMMA UpdateContentEncodingInv == HInv /\ UpdateContentEncoding => HInv'
<1> SUFFICES ASSUME HInv, UpdateContentEncoding PROVE HInv'
  OBVIOUS
<1> USE DEF UpdateContentEncoding
<1>0. /\ pc = "contentEncoding" /\ chunked = args.chunked /\ TypeOK
      /\ \A n \in Names : args.user[n] # Absent => headers[n] # Absent
      /\ headers["Transfer-Encoding"] = args.user["Transfer-Encoding"]
  BY DEF HInv
<1>k. ASSUME pc' = "bodyFromData", UNCHANGED <<headers, chunked>>,
             ~(args.data # "none" /\ args.compress)
      PROVE  HInv'
  BY <1>k, <1>0 DEF HInv, TypeOK, AfterEncoding, Resolved, Truthy
<1>1. CASE args.data = "none" /\ pc' = "bodyFromData" /\ UNCHANGED <<headers, chunked>>
  BY <1>1, <1>k
<1>2. CASE /\ args.data # "none" /\ headers["Content-Encoding"] # Absent
           /\ args.compress /\ Fail
  BY <1>2, <1>0 DEF Fail, HInv, TypeOK, AfterEncoding, Resolved
<1>3. CASE /\ args.data # "none" /\ headers["Content-Encoding"] # Absent
           /\ ~args.compress /\ pc' = "bodyFromData" /\ UNCHANGED <<headers, chunked>>
  BY <1>3, <1>k
<1>4. CASE /\ args.data # "none" /\ headers["Content-Encoding"] = Absent
           /\ args.compress /\ EnableCompression /\ pc' = "bodyFromData"
  <2>1. args.user["Content-Encoding"] = Absent
    BY <1>4, <1>0 DEF Names
  <2>2. TypeOK'
    BY <1>4, <1>0, WrittenValues DEF EnableCompression, TypeOK, HeaderValues
  <2>3. \A n \in Names : args.user[n] # Absent => headers'[n] # Absent
    BY <1>4, <1>0, WrittenValues DEF EnableCompression, TypeOK
  <2>4. headers'["Transfer-Encoding"] = args.user["Transfer-Encoding"]
    BY <1>4, <1>0 DEF EnableCompression, TypeOK
  <2>5. QED
    BY <1>4, <2>1, <2>2, <2>3, <2>4 DEF EnableCompression, HInv, AfterEncoding, Resolved, Truthy
<1>5. CASE /\ args.data # "none" /\ headers["Content-Encoding"] = Absent
           /\ ~args.compress /\ pc' = "bodyFromData" /\ UNCHANGED <<headers, chunked>>
  BY <1>5, <1>k
<1>6. QED
  BY <1>1, <1>2, <1>3, <1>4, <1>5

(* update_body_from_data: Content-Length from the body's size, or chunked *)
(* for a stream; a request without a body skips the transfer encoding,   *)
(* which leaves none of the conflicts that need one.                     *)
LEMMA UpdateBodyFromDataInv == HInv /\ UpdateBodyFromData => HInv'
<1> SUFFICES ASSUME HInv, UpdateBodyFromData PROVE HInv'
  OBVIOUS
<1> USE DEF UpdateBodyFromData
<1>0. /\ pc = "bodyFromData" /\ TypeOK /\ args \in Args
      /\ \A n \in Names : args.user[n] # Absent => headers[n] # Absent
      /\ headers["Transfer-Encoding"] = args.user["Transfer-Encoding"]
      /\ ~(args.data # "none" /\ args.compress /\ args.user["Content-Encoding"] # Absent)
      /\ (Truthy(args.chunked) \/ (args.compress /\ args.data # "none")) => Truthy(chunked)
  BY DEF HInv, TypeOK, AfterEncoding
<1> DEFINE Post ==
       /\ headers' \in [Names -> HeaderValues]
       /\ \A n \in Names : args.user[n] # Absent => headers'[n] # Absent
       /\ headers'["Transfer-Encoding"] = headers["Transfer-Encoding"]
       /\ Truthy(chunked) => Truthy(chunked')
       /\ chunked' \in {"unset", "true", "false"} /\ body' \in {"empty", "sized", "stream"}
<1>a. ASSUME args.data = "none" PROVE Post
  BY <1>a, <1>0 DEF TypeOK, HeaderValues
<1>b. ASSUME args.data # "none", Truthy(chunked) \/ headers["Content-Length"] # Absent
      PROVE  Post
  BY <1>b, <1>0 DEF TypeOK, HeaderValues
<1>c. ASSUME args.data = "stream", ~Truthy(chunked), headers["Content-Length"] = Absent
      PROVE  Post
  BY <1>c, <1>0 DEF TypeOK, HeaderValues, Truthy
<1>d. ASSUME args.data = "bytes", ~Truthy(chunked), headers["Content-Length"] = Absent
      PROVE  Post
  <2>1. args.size \in HeaderValues /\ args.size # Absent
    BY <1>0, ArgsHeaders
  <2>2. headers' = [headers EXCEPT !["Content-Length"] = args.size] /\ chunked' = chunked
        /\ body' = "sized"
    BY <1>d
  <2>3. headers' \in [Names -> HeaderValues]
    BY <2>1, <2>2, <1>0 DEF TypeOK, HeaderValues
  <2>4. \A n \in Names : args.user[n] # Absent => headers'[n] # Absent
    BY <2>1, <2>2, <1>0 DEF TypeOK
  <2>5. headers'["Transfer-Encoding"] = headers["Transfer-Encoding"]
    BY <2>2, <1>0 DEF TypeOK, Names
  <2>6. QED
    BY <2>2, <2>3, <2>4, <2>5, <1>0 DEF TypeOK
<1>1. Post
  <2>1. args.data \in {"none", "bytes", "stream"}
    BY <1>0 DEF Args
  <2>2. QED
    BY <2>1, <1>a, <1>b, <1>c, <1>d
<1>2. TypeOK'
  BY <1>0, <1>1 DEF TypeOK, HeaderValues
<1>3. pc' = "expectContinue" => ~Conflict(args)
  BY <1>0 DEF Conflict
<1>4. QED
  BY <1>0, <1>1, <1>2, <1>3 DEF HInv, AfterEncoding, Resolved, Resolves

(* update_transfer_encoding: a chunked flag meets a caller's chunked or  *)
(* Content-Length header and raises, or the length is announced by one  *)
(* of the two headers.                                                    *)
LEMMA UpdateTransferEncodingInv == HInv /\ UpdateTransferEncoding => HInv'
<1> SUFFICES ASSUME HInv, UpdateTransferEncoding PROVE HInv'
  OBVIOUS
<1>0. /\ pc = "transferEncoding" /\ TypeOK /\ args \in Args
      /\ \A n \in Names : args.user[n] # Absent => headers[n] # Absent
      /\ headers["Transfer-Encoding"] = args.user["Transfer-Encoding"]
      /\ ~(args.data # "none" /\ args.compress /\ args.user["Content-Encoding"] # Absent)
      /\ (Truthy(args.chunked) \/ (args.compress /\ args.data # "none")) => Truthy(chunked)
  BY DEF HInv, TypeOK, AfterEncoding, UpdateTransferEncoding
<1>u. UNCHANGED <<args, chunked, body, cont, writerChunked, writerCompressed>>
  BY DEF UpdateTransferEncoding
<1> DEFINE Announced == headers'["Content-Length"] # Absent
                        \/ HasChunked(headers'["Transfer-Encoding"])
           Post == /\ headers' \in [Names -> HeaderValues]
                   /\ \A n \in Names : args.user[n] # Absent => headers'[n] # Absent
                   /\ \/ pc' = "failed"
                      \/ pc' = "expectContinue" /\ ~Conflict(args) /\ Announced
<1>1. ASSUME HasChunked(headers["Transfer-Encoding"]), Truthy(chunked),
             pc' = "failed", UNCHANGED headers
      PROVE  Post
  BY <1>1, <1>0 DEF TypeOK, HeaderValues
<1>2. ASSUME HasChunked(headers["Transfer-Encoding"]), ~Truthy(chunked),
             pc' = "expectContinue", UNCHANGED headers
      PROVE  Post
  BY <1>2, <1>0 DEF TypeOK, HeaderValues, Conflict, Truthy
<1>3. ASSUME ~HasChunked(headers["Transfer-Encoding"]), Truthy(chunked),
             headers["Content-Length"] # Absent, pc' = "failed", UNCHANGED headers
      PROVE  Post
  BY <1>3, <1>0 DEF TypeOK, HeaderValues
<1>4. ASSUME ~HasChunked(headers["Transfer-Encoding"]), Truthy(chunked),
             headers["Content-Length"] = Absent,
             headers' = [headers EXCEPT !["Transfer-Encoding"] = "chunked"],
             pc' = "expectContinue"
      PROVE  Post
  <2>1. headers' \in [Names -> HeaderValues]
        /\ \A n \in Names : args.user[n] # Absent => headers'[n] # Absent
    BY <1>4, <1>0, WrittenValues DEF TypeOK, HeaderValues
  <2>2. args.user["Content-Length"] = Absent
        /\ ~HasChunked(args.user["Transfer-Encoding"])
    BY <1>4, <1>0 DEF Names
  <2>3. ~Conflict(args)
    BY <2>2, <1>0 DEF Conflict
  <2>4. HasChunked(headers'["Transfer-Encoding"])
    BY <1>4, <1>0, WrittenValues DEF TypeOK, HasChunked, Lower, Names
  <2>5. QED
    BY <1>4, <2>1, <2>3, <2>4
<1>5. ASSUME ~HasChunked(headers["Transfer-Encoding"]), ~Truthy(chunked),
             headers["Content-Length"] # Absent, pc' = "expectContinue", UNCHANGED headers
      PROVE  Post
  BY <1>5, <1>0 DEF TypeOK, HeaderValues, Conflict, Truthy
<1>6. ASSUME ~HasChunked(headers["Transfer-Encoding"]), ~Truthy(chunked),
             headers["Content-Length"] = Absent,
             headers' = [headers EXCEPT !["Content-Length"] =
                           IF body = "sized" THEN args.size ELSE "0"],
             pc' = "expectContinue"
      PROVE  Post
  <2>1. /\ args.size \in HeaderValues /\ args.size # Absent
        /\ "0" \in HeaderValues /\ "0" # Absent
    BY <1>0, ArgsHeaders, WrittenValues
  <2>2. headers' \in [Names -> HeaderValues]
        /\ \A n \in Names : args.user[n] # Absent => headers'[n] # Absent
    BY <1>6, <1>0, <2>1 DEF TypeOK, HeaderValues
  <2>3. headers'["Content-Length"] # Absent
    BY <1>6, <1>0, <2>1 DEF TypeOK, Names
  <2>4. ~Conflict(args)
    BY <1>6, <1>0 DEF Conflict, Truthy
  <2>5. QED
    BY <1>6, <2>2, <2>3, <2>4
<1>7. Post
  BY <1>1, <1>2, <1>3, <1>4, <1>5, <1>6 DEF UpdateTransferEncoding, ChunkedBranch, LengthBranch
<1>8. TypeOK'
  BY <1>0, <1>7, <1>u DEF TypeOK, HeaderValues
<1>9. QED
  BY <1>0, <1>7, <1>8, <1>u DEF HInv, AfterEncoding, Resolved

(* update_expect_continue only touches Expect: the announced length and  *)
(* the absence of conflicts carry over.                                   *)
LEMMA UpdateExpectContinueInv == HInv /\ UpdateExpectContinue => HInv'
<1> SUFFICES ASSUME HInv, UpdateExpectContinue PROVE HInv'
  OBVIOUS
<1>0. /\ pc = "expectContinue" /\ TypeOK /\ args \in Args
      /\ \A n \in Names : args.user[n] # Absent => headers[n] # Absent
      /\ ~Conflict(args)
      /\ Resolves => headers["Content-Length"] # Absent \/ HasChunked(headers["Transfer-Encoding"])
  BY DEF HInv, TypeOK, Resolved, UpdateExpectContinue
<1>1. /\ headers' \in [Names -> HeaderValues]
      /\ \A n \in Names : args.user[n] # Absent => headers'[n] # Absent
      /\ headers'["Content-Length"] = headers["Content-Length"]
      /\ headers'["Transfer-Encoding"] = headers["Transfer-Encoding"]
  BY <1>0, WrittenValues DEF UpdateExpectContinue, TypeOK, HeaderValues, Names
<1>2. cont' \in BOOLEAN
  BY DEF UpdateExpectContinue
<1>3. TypeOK'
  BY <1>0, <1>1, <1>2 DEF UpdateExpectContinue, TypeOK, HeaderValues
<1>4. QED
  BY <1>0, <1>1, <1>3 DEF UpdateExpectContinue, HInv, AfterEncoding, Resolved, Resolves

(* send() writes the Connection header and sets up the writer; the      *)
(* length headers and the arguments are left as they are.                 *)
LEMMA SendInv == HInv /\ Send => HInv'
<1> SUFFICES ASSUME HInv, Send PROVE HInv'
  OBVIOUS
<1>0. /\ pc = "send" /\ TypeOK /\ args \in Args
      /\ \A n \in Names : args.user[n] # Absent => headers[n] # Absent
      /\ ~Conflict(args)
      /\ Resolves => headers["Content-Length"] # Absent \/ HasChunked(headers["Transfer-Encoding"])
  BY DEF HInv, TypeOK, Resolved, Send
<1> DEFINE c == ConnectionHeader(args.version, headers)
<1>1. c \in HeaderValues /\ (headers["Connection"] # Absent => c # Absent)
  BY <1>0, WrittenValues DEF ConnectionHeader, TypeOK, Names, HeaderValues
<1>2. /\ headers' \in [Names -> HeaderValues]
      /\ \A n \in Names : args.user[n] # Absent => headers'[n] # Absent
      /\ headers'["Content-Length"] = headers["Content-Length"]
      /\ headers'["Transfer-Encoding"] = headers["Transfer-Encoding"]
  BY <1>0, <1>1 DEF Send, TypeOK, Names, HeaderValues
<1>3. writerChunked' \in BOOLEAN /\ writerCompressed' \in BOOLEAN
  BY <1>0 DEF Send, Args
<1>4. TypeOK'
  BY <1>0, <1>2, <1>3 DEF Send, TypeOK, HeaderValues
<1>5. QED
  BY <1>0, <1>2, <1>4 DEF Send, HInv, AfterEncoding, Resolved, Resolves

\* Every step of __init__ and send(), and a stutter, keeps HInv.
LEMMA StepHInv == HInv /\ [Next]_vars => HInv'
<1> SUFFICES ASSUME HInv, [Next]_vars PROVE HInv'
  OBVIOUS
<1>1. CASE UNCHANGED vars
  BY <1>1 DEF vars, HInv, TypeOK, AfterEncoding, Resolved, Conflict, Resolves, HasChunked
<1>2. QED
  BY <1>1, UpdateHeadersInv, UpdateContentEncodingInv, UpdateBodyFromDataInv,
     UpdateTransferEncodingInv, UpdateExpectContinueInv, SendInv DEF Next

(* Every state reached by __init__ and send() satisfies HInv.            *)
THEOREM HeadersInvariant == Spec => []HInv
  BY InitHInv, StepHInv, PTL DEF Spec

(* The header state keeps its type through __init__ and send().           *)
THEOREM HeadersTypeCorrect == Spec => []TypeOK
  BY HeadersInvariant, PTL DEF HInv

(* The spec 4.1 conflicts (compress with Content-Encoding, chunked or    *)
(* compress with Content-Length or "Transfer-Encoding: chunked") make    *)
(* update_content_encoding or update_transfer_encoding raise: no request *)
(* with one of them is sent.                                              *)
THEOREM ConflictsRefused == Spec => []ConflictsRejected
<1>1. HInv => ConflictsRejected
  BY DEF HInv, ConflictsRejected, Sent, Resolved
<1>2. QED
  BY <1>1, HeadersInvariant, PTL

(* A sent request whose transfer encoding update_transfer_encoding       *)
(* resolved carries Content-Length or "Transfer-Encoding: chunked".       *)
THEOREM LengthAnnounced == Spec => []BodyLengthAnnounced
<1>1. HInv => BodyLengthAnnounced
  BY DEF HInv, BodyLengthAnnounced, Sent, Resolved
<1>2. QED
  BY <1>1, HeadersInvariant, PTL

=============================================================================
