----------------------------- MODULE MCTaskPipe -----------------------------
(***************************************************************************)
(* Two tasks of any kind on two channels, and one SDK error.               *)
(***************************************************************************)
EXTENDS TaskPipe
=============================================================================
