---------------------------- MODULE MCRecordEntry ----------------------------
(***************************************************************************)
(* A wizard of one form or two and a review step, which may have a form    *)
(* itself.                                                                 *)
(***************************************************************************)
EXTENDS RecordEntry

FormsThenReview == {{0}, {0, 1}, {0, 1, 2}}
LastStep == {2}
=============================================================================
