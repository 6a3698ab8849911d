-------------------------- MODULE MCIbkrSubmission --------------------------
(* Two callers; orders of two contracts, so that a cancellation can meet a   *)
(* partial fill.                                                             *)
EXTENDS IbkrSubmission, TLC

CallerSymmetry == Permutations(Callers)
=============================================================================
