--------------------------- MODULE MCResultConsumer ---------------------------
(* Instances of ResultConsumer for TLC. *)
EXTENDS ResultConsumer, TLC

CONSTANTS s1, s2, k1, k2

MCServices == {s1, s2}

MCKeys == {k1, k2}

\* One key of each service: a deletion takes one result and spares the other.
MCSvcOf == (k1 :> s1) @@ (k2 :> s2)

\* The only failure is a database error while a row is stored: nothing
\* crashes and Redis never fails.
PersistErrorsOnly ==
  /\ Init
  /\ [][\/ \E w \in Workers : Step(w) \/ PersistFailed(w)
        \/ \E p \in Payload : Report(p)
        \/ \E s \in Services : DeleteService(s)]_vars
  /\ Fairness

=============================================================================
