---------------------------- MODULE MCCheckRecords ----------------------------
(* Instances of CheckRecords for TLC. *)
EXTENDS CheckRecords, TLC

CONSTANTS k1, k2, form

MCChecks == {k1, k2}

\* A GET without a body and a POST with one.
MCBodyOf == (k1 :> None) @@ (k2 :> form)

=============================================================================
