--------------------------- MODULE MCSegmentFiles ---------------------------
(***************************************************************************)
(* One recording of up to three segments, with every failure.              *)
(***************************************************************************)
EXTENDS SegmentFiles
=============================================================================
