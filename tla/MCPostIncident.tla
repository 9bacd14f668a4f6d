---------------------------- MODULE MCPostIncident ----------------------------
(* Instances of PostIncident for TLC. *)
EXTENDS PostIncident, TLC

CONSTANTS leak, overload, t1, t2

MCAnswers == {leak, overload}

MCText == (leak :> t1) @@ (overload :> t2)

=============================================================================
