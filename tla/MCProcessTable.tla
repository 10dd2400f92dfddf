--------------------------- MODULE MCProcessTable ---------------------------
(* Small instances of ProcessTable for TLC. *)
EXTENDS ProcessTablePromise

StdoutOnly == {"stdout"}
=============================================================================
