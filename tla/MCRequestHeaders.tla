--------------------------- MODULE MCRequestHeaders ---------------------------
(* Model-checking instance of RequestHeaders: every combination of        *)
(* method, version, caller headers, data kind, chunked, compress and      *)
(* expect100 is an initial state.                                         *)
EXTENDS RequestHeaders

=============================================================================
