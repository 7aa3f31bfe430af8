--------------------------- MODULE MCStreamingSink ---------------------------
(***************************************************************************)
(* The streaming sink with two calling threads and two retries.            *)
(***************************************************************************)
EXTENDS StreamingSink
=============================================================================
