--------------------------- MODULE MCRecordingSink ---------------------------
(***************************************************************************)
(* The recording sink with two external threads: the command handler and   *)
(* the thread that reports SDK errors.                                     *)
(***************************************************************************)
EXTENDS RecordingSink
=============================================================================
