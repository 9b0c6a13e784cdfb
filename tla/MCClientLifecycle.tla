------------------------- MODULE MCClientLifecycle -------------------------
(* Model-checking instance of ClientLifecycle: bodies of up to two chunks *)
(* (so that a write can fail or be cancelled between two chunks), up to  *)
(* two 1xx heads before the final one (a 100 and a 103), and at most     *)
(* three release callbacks pending on the writer task at once (release() *)
(* may be called any number of times while the writer runs).             *)
EXTENDS ClientLifecycle

MCMaxChunks == 2
MCMaxInfo == 2
MCMaxPending == 3
=============================================================================
