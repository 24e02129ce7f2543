-------------------------- MODULE MCColumnarStore --------------------------
(***************************************************************************)
(* Small instances of ColumnarStore for TLC: two segments and a clock of   *)
(* a few ticks, so that segments age and expire during a job.              *)
(***************************************************************************)
EXTENDS ColumnarStore
============================================================================
