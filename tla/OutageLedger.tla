----------------------------- MODULE OutageLedger -----------------------------
(***************************************************************************)
(* What the incident detector promises of one service, whatever its calls   *)
(* read and when: an incident is one outage.  It is opened when the verdict *)
(* turns to "down", stays open while the verdict is "down", is resolved when *)
(* the verdict turns back, and no later outage takes its id                 *)
(* (detector.py:1-9, 75-94).                                                *)
(***************************************************************************)
EXTENDS Naturals

CONSTANTS Services

VARIABLES
  verdict,    \* per service: unknown, up or down
  opened,     \* per service, the id of its last incident
  open        \* per service, its open incidents

ledger == <<verdict, opened, open>>

LedgerInit ==
  /\ verdict = [s \in Services |-> "unknown"]
  /\ opened = [s \in Services |-> 0]
  /\ open = [s \in Services |-> {}]

\* The service is found down: an incident begins unless one is under way.
FindDown(s) ==
  LET id == IF verdict[s] = "down" THEN opened[s] ELSE opened[s] + 1 IN
  /\ verdict' = [verdict EXCEPT ![s] = "down"]
  /\ opened' = [opened EXCEPT ![s] = id]
  /\ open' = [open EXCEPT ![s] = {id}]

\* The service is found up: the incident, if there is one, is over.
FindUp(s) ==
  /\ verdict' = [verdict EXCEPT ![s] = "up"]
  /\ open' = [open EXCEPT ![s] = {}]
  /\ UNCHANGED opened

\* The service is deleted with its incidents.
Forget(s) ==
  /\ verdict' = [verdict EXCEPT ![s] = "unknown"]
  /\ open' = [open EXCEPT ![s] = {}]
  /\ UNCHANGED opened

LedgerNext == \E s \in Services : FindDown(s) \/ FindUp(s) \/ Forget(s)

LedgerSpec == LedgerInit /\ [][LedgerNext]_ledger

=============================================================================
