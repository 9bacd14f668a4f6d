----------------------------- MODULE CheckRecords -----------------------------
(***************************************************************************)
(* One check from its task to the list of rows: the probe and its retries   *)
(* (checker/app/probe.py), the text fields in which tasks and results       *)
(* travel (queue/producer.py, worker.py, reporter.py, queue/consumer.py),   *)
(* and the pages of the stored rows (list_checks, api/v1/checks.py).        *)
(*                                                                          *)
(* All checks are of one service. What streams, consumers and failures do   *)
(* to a message is the subject of CheckerWorker and ResultConsumer; here it *)
(* is what a message says. The text of a value is the value itself; only    *)
(* NoneText, the text "None", also stands for a value that is missing.      *)
(***************************************************************************)
EXTENDS Integers, Sequences, FiniteSets

CONSTANTS
  Checks,    \* check tasks that are published
  BodyOf,    \* the body of each check's service at the time
  None,      \* no value
  NoneText,  \* the text "None"
  Codes,     \* status codes a target may answer
  Expected,  \* expected_status of the service
  Millis,    \* durations of an answer, the shortest being 0 ms
  Retries,   \* MAX_PROBE_RETRIES
  PageSize,  \* page_size of list_checks
  OldRows    \* rows that are there already

ASSUME DataAssumption ==
  /\ {None, NoneText} \intersect (Codes \union Millis) = {} /\ None # NoneText
  /\ DOMAIN BodyOf = Checks /\ Expected \in Codes /\ Millis \subseteq Nat
ASSUME SizeAssumption == Retries \in Nat /\ PageSize \in Nat \ {0} /\ OldRows \in Nat

VARIABLES
  phase,    \* per check: "published", "probing", "reported", "stored"
  body,     \* per check, the body the node parsed
  tries,    \* per check, what each try of the probe returned
  wire,     \* per check, the result in the stream
  reports,  \* checks reported so far, the clock of checked_at
  rows,     \* check_results
  pager     \* a client that reads list_checks page by page

check == <<phase, body, tries, wire, reports>>
vars == <<check, rows, pager>>

-----------------------------------------------------------------------------
\* Probe results and their text

\* str(None) and the reporter's "None".
ToText(v) == IF v = None THEN NoneText ELSE v

\* Mutant: the text is taken as it is.
FromTextAsIs(w) == w

FromText(w) == IF w = NoneText THEN None ELSE w

\* What one call of _do_probe returns: an answer, a timeout, a refused
\* connection, or any other exception, the request executed or not.
Answer(code, ms) ==
  [status |-> IF code = Expected THEN "up" ELSE "down", code |-> code, ms |-> ms,
   error |-> IF code = Expected THEN None ELSE "unexpected status"]

Timeout(ms) == [status |-> "timeout", code |-> None, ms |-> ms, error |-> "timeout"]

NoAnswer(error) == [status |-> "error", code |-> None, ms |-> None, error |-> error]

ProbeResult ==
  {Answer(c, m) : c \in Codes, m \in Millis} \union {Timeout(m) : m \in Millis}
    \union {NoAnswer(e) : e \in {"refused", "broken"}}

\* report_result
Encode(r) == [status |-> r.status, code |-> ToText(r.code), ms |-> ToText(r.ms), error |-> ToText(r.error)]

\* _parse_result, which takes only the empty error text for none
Parse(w) == [status |-> w.status, code |-> FromText(w.code), ms |-> FromText(w.ms), error |-> w.error]

-----------------------------------------------------------------------------
\* Rows and pages

\* A row of check k; old rows have no check.
NewRow(k, at, r) == [check |-> k, at |-> at, status |-> r.status, code |-> r.code, ms |-> r.ms, error |-> r.error]

\* The place of a row under ORDER BY checked_at DESC; no two are of one time.
Rank(r) == Cardinality({q \in rows : q.at > r.at})

\* Mutant: page 1 is taken for the second.
PageFromOne(page) == {r \in rows : Rank(r) \in page * PageSize .. (page + 1) * PageSize - 1}

\* OFFSET (page - 1) * page_size LIMIT page_size
Page(page) == {r \in rows : Rank(r) \in (page - 1) * PageSize .. page * PageSize - 1}

-----------------------------------------------------------------------------
\* The check

\* Mutant: the body is sent as it came.
TakeAsIs(k) ==
  /\ phase[k] = "published"
  /\ phase' = [phase EXCEPT ![k] = "probing"]
  /\ body' = [body EXCEPT ![k] = ToText(BodyOf[k])]
  /\ UNCHANGED <<tries, wire, reports, rows, pager>>

\* Publication and _parse_task; the body is the only field that may be None.
Take(k) ==
  /\ phase[k] = "published"
  /\ phase' = [phase EXCEPT ![k] = "probing"]
  /\ body' = [body EXCEPT ![k] = FromText(ToText(BodyOf[k]))]
  /\ UNCHANGED <<tries, wire, reports, rows, pager>>

\* Mutant: whatever is not up is tried again.
AgainUntilUp(k) ==
  Len(tries[k]) <= Retries /\ \A i \in DOMAIN tries[k] : tries[k][i].status # "up"

\* Another try is made after an error only, and MAX_PROBE_RETRIES times.
Again(k) ==
  Len(tries[k]) <= Retries /\ \A i \in DOMAIN tries[k] : tries[k][i].status = "error"

Try(k) ==
  /\ phase[k] = "probing" /\ Again(k)
  /\ \E r \in ProbeResult : tries' = [tries EXCEPT ![k] = Append(@, r)]
  /\ UNCHANGED <<phase, body, wire, reports, rows, pager>>

\* The last result is reported; checked_at is the time of the report.
Report(k) ==
  /\ phase[k] = "probing" /\ ~Again(k)
  /\ phase' = [phase EXCEPT ![k] = "reported"]
  /\ reports' = reports + 1
  /\ wire' = [wire EXCEPT ![k] = [at |-> reports', fields |-> Encode(tries[k][Len(tries[k])])]]
  /\ UNCHANGED <<body, tries, rows, pager>>

\* _handle_result; results may be stored in another order than reported.
Persist(k) ==
  /\ phase[k] = "reported"
  /\ phase' = [phase EXCEPT ![k] = "stored"]
  /\ rows' = rows \union {NewRow(k, wire[k].at, Parse(wire[k].fields))}
  /\ UNCHANGED <<body, tries, wire, reports, pager>>

-----------------------------------------------------------------------------
\* list_checks

\* A client asks for the next page until one is not full.
ReadPage ==
  /\ ~pager.done
  /\ pager' = [page |-> pager.page + 1,
               first |-> IF pager.page = 1 THEN rows ELSE pager.first,
               seen |-> pager.seen \union Page(pager.page),
               done |-> Cardinality(Page(pager.page)) < PageSize]
  /\ UNCHANGED <<check, rows>>

Init ==
  /\ phase = [k \in Checks |-> "published"]
  /\ body = [k \in Checks |-> None]
  /\ tries = [k \in Checks |-> <<>>]
  /\ wire = [k \in Checks |-> None]
  /\ reports = 0
  /\ \E old \in [1..OldRows -> Codes], ms \in Millis :
       rows = {NewRow(None, -n, Parse(Encode(Answer(old[n], ms)))) : n \in 1..OldRows}
  /\ pager = [page |-> 1, first |-> {}, seen |-> {}, done |-> FALSE]

Check(k) == Take(k) \/ Try(k) \/ Report(k) \/ Persist(k)

Next == (\E k \in Checks : Check(k)) \/ ReadPage

Spec == Init /\ [][Next]_vars

-----------------------------------------------------------------------------
\* Properties

Wire == [at : Nat, fields : {Encode(r) : r \in ProbeResult}]

CheckRow ==
  [check : Checks \union {None}, at : Int, status : {"up", "down", "timeout", "error"},
   code : Codes \union {None}, ms : Millis \union {None},
   error : {NoneText, "unexpected status", "timeout", "refused", "broken"}]

TypeOK ==
  /\ phase \in [Checks -> {"published", "probing", "reported", "stored"}]
  /\ DOMAIN body = Checks
  /\ tries \in [Checks -> Seq(ProbeResult)]
  /\ wire \in [Checks -> Wire \union {None}]
  /\ reports \in Nat
  /\ rows \subseteq CheckRow
  /\ pager.page \in Nat \ {0} /\ pager.done \in BOOLEAN
  /\ pager.first \subseteq rows /\ pager.seen \subseteq rows

\* A stored row says what the last try of the probe returned, and its status
\* stands for all of them: a target that answered or timed out was asked no
\* more, and "error" means that every try failed ("Only retry on network-level
\* errors, not on HTTP status mismatches", probe.py:45). All that is lost on
\* the way is that there was no error: the column then says "None"
\* (reporter.py:40, consumer.py:124).
RowTellsTries ==
  \A r \in rows : r.check # None =>
    LET try == tries[r.check]
        n == Len(try)
    IN /\ <<r.status, r.code, r.ms>> = <<try[n].status, try[n].code, try[n].ms>>
       /\ r.error = IF try[n].error = None THEN NoneText ELSE try[n].error
       /\ \A i \in 1..n - 1 : try[i].status = "error"
       /\ r.status = "error" => n = Retries + 1

\* The target is sent the body of its service, and none if it has none;
\* the one body that does not survive is the text "None" itself
\* (producer.py:30, worker.py:148, probe.py:73).
BodySurvives ==
  \A k \in Checks : phase[k] # "published" /\ BodyOf[k] # NoneText => body[k] = BodyOf[k]

\* A client that reads pages until one is short has seen every row that was
\* there when it began, wherever new rows came in meanwhile (checks.py:63-77).
PagingMissesNothing == pager.done => pager.first \subseteq pager.seen

=============================================================================
