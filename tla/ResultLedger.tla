----------------------------- MODULE ResultLedger -----------------------------
(***************************************************************************)
(* What the result consumer promises of one check result, named by its      *)
(* idempotency key: it is stored at most once, and the detector hears of it *)
(* at most once and only after it is stored ("writes them to Postgres       *)
(* (idempotent via unique constraint on idempotency_key), then feeds the    *)
(* incident detector", queue/consumer.py:4-6).  Deleting the service ends   *)
(* the story of its results.                                                *)
(***************************************************************************)
CONSTANTS Keys

VARIABLES phase    \* per key: absent, stored, fed, or gone with its service

LedgerInit == phase = [k \in Keys |-> "absent"]

Advance(k, from, to) ==
  /\ phase[k] = from
  /\ phase' = [phase EXCEPT ![k] = to]

\* The results of one deleted service vanish together.
Forget(ks) == phase' = [k \in Keys |-> IF k \in ks THEN "gone" ELSE phase[k]]

LedgerNext ==
  \/ \E k \in Keys : Advance(k, "absent", "stored")
  \/ \E k \in Keys : Advance(k, "stored", "fed")
  \/ \E ks \in SUBSET Keys : Forget(ks)

LedgerSpec == LedgerInit /\ [][LedgerNext]_phase

=============================================================================
