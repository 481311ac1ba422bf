------------------------------ MODULE MCRunLease ------------------------------
(* RunLease, with the routes cycles seed before they look at the lease, for *)
(* TLC.  A single cycle seeds, and once, so that one published blocker is  *)
(* enough: a proof is never taken over.                                    *)
EXTENDS HistoricalRoutes
CONSTANTS a, b, r

Artifacts == {[kind |-> "blocker", at |-> 1]}
=============================================================================
