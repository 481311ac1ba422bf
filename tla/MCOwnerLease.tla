----------------------------- MODULE MCOwnerLease -----------------------------
(* OwnerLease for TLC.                                                     *)
EXTENDS OwnerLease
=============================================================================
