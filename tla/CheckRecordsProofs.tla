-------------------------- MODULE CheckRecordsProofs ---------------------------
(***************************************************************************)
(* Proofs about CheckRecords, for every number of checks, retries and older *)
(* rows and every size of a page: a row says what the tries of its probe    *)
(* returned, and pages skip nothing while rows come in.                     *)
(***************************************************************************)
EXTENDS CheckRecords, FiniteSetTheorems, TLAPS

-----------------------------------------------------------------------------
\* Text

\* A value survives its text, unless it is the text of no value.
LEMMA TextKeeps ==
  ASSUME NEW v, v # NoneText
  PROVE  FromText(ToText(v)) = v
BY DataAssumption DEF FromText, ToText

\* What a probe may return, and what the row will say of its error.
Typed(r) ==
  /\ r.status \in {"up", "down", "timeout", "error"}
  /\ r.code \in Codes \union {None} /\ r.ms \in Millis \union {None}
  /\ ToText(r.error) \in {NoneText, "unexpected status", "timeout", "refused", "broken"}

LEMMA ResultType ==
  ASSUME NEW r \in ProbeResult
  PROVE  Typed(r)
<1>1. CASE \E c \in Codes, m \in Millis : r = Answer(c, m)
  <2>1. PICK c \in Codes, m \in Millis : r = Answer(c, m)
    BY <1>1
  <2>2. /\ r.code = c /\ r.ms = m
        /\ r.status = IF c = Expected THEN "up" ELSE "down"
        /\ r.error = IF c = Expected THEN None ELSE "unexpected status"
    BY <2>1 DEF Answer
  <2>3. r.status \in {"up", "down"} /\ r.error \in {None, "unexpected status"}
    BY <2>2
  <2> QED
    BY <2>2, <2>3 DEF ToText, Typed
<1>2. CASE \E m \in Millis : r = Timeout(m)
  <2>1. PICK m \in Millis : r = Timeout(m)
    BY <1>2
  <2>2. r.code = None /\ r.ms = m /\ r.status = "timeout" /\ r.error = "timeout"
    BY <2>1 DEF Timeout
  <2> QED
    BY <2>2 DEF ToText, Typed
<1>3. CASE \E e \in {"refused", "broken"} : r = NoAnswer(e)
  <2>1. PICK e \in {"refused", "broken"} : r = NoAnswer(e)
    BY <1>3
  <2>2. r.code = None /\ r.ms = None /\ r.status = "error" /\ r.error = e
    BY <2>1 DEF NoAnswer
  <2> QED
    BY <2>2 DEF ToText, Typed
<1>4. CASE r \in {Answer(c, m) : c \in Codes, m \in Millis}
  BY <1>1, <1>4
<1>5. CASE r \in {Timeout(m) : m \in Millis}
  BY <1>2, <1>5
<1>6. CASE r \in {NoAnswer(e) : e \in {"refused", "broken"}}
  BY <1>3, <1>6
<1> QED
  BY <1>4, <1>5, <1>6 DEF ProbeResult

\* What is stored of a probe's result.
LEMMA ParsedResult ==
  ASSUME NEW r \in ProbeResult
  PROVE  /\ Parse(Encode(r)).status = r.status
         /\ Parse(Encode(r)).code = r.code
         /\ Parse(Encode(r)).ms = r.ms
         /\ Parse(Encode(r)).error = ToText(r.error)
<1>1. r.code # NoneText /\ r.ms # NoneText
  <2>1. r.code \in Codes \union {None} /\ r.ms \in Millis \union {None}
    BY ResultType DEF Typed
  <2>2. None # NoneText /\ NoneText \notin Codes \union Millis
    BY DataAssumption
  <2> QED
    BY <2>1, <2>2
<1> QED
  BY <1>1, TextKeeps DEF Parse, Encode

\* A row of a check, and one of none, is a row.
LEMMA RowType ==
  ASSUME NEW k \in Checks \union {None}, NEW at \in Int, NEW r \in ProbeResult
  PROVE  NewRow(k, at, Parse(Encode(r))) \in CheckRow
BY ParsedResult, ResultType DEF NewRow, CheckRow, Typed

-----------------------------------------------------------------------------
\* Places of the rows

\* No two rows are of one time.
Distinct == /\ \A r \in rows : r.at \in Int
            /\ \A q, r \in rows : q.at = r.at => q = r

After(r) == {q \in rows : q.at > r.at}

LEMMA RankType ==
  ASSUME IsFiniteSet(rows), NEW r \in rows, Distinct
  PROVE  /\ Cardinality(rows) \in Nat
         /\ IsFiniteSet(After(r)) /\ Rank(r) = Cardinality(After(r))
         /\ Rank(r) \in 0..Cardinality(rows) - 1
<1>1. Cardinality(rows) \in Nat
  BY FS_CardinalityType
<1>2. After(r) \in SUBSET (rows \ {r}) /\ Rank(r) = Cardinality(After(r))
  BY DEF After, Rank, Distinct
<1>3. IsFiniteSet(rows \ {r}) /\ Cardinality(rows \ {r}) = Cardinality(rows) - 1
  BY FS_RemoveElement
<1>4. IsFiniteSet(After(r)) /\ Cardinality(After(r)) <= Cardinality(rows) - 1
  BY <1>2, <1>3, FS_Subset
<1>5. Cardinality(After(r)) \in Nat
  BY <1>4, FS_CardinalityType
<1> QED
  BY <1>1, <1>2, <1>4, <1>5

LEMMA RankOrder ==
  ASSUME IsFiniteSet(rows), Distinct, NEW q \in rows, NEW r \in rows, q.at > r.at
  PROVE  Rank(q) < Rank(r)
<1>1. IsFiniteSet(After(r)) /\ Rank(r) = Cardinality(After(r)) /\ Rank(q) = Cardinality(After(q))
  BY RankType
<1>2. After(q) \in SUBSET (After(r) \ {q}) /\ q \in After(r)
  BY DEF After, Distinct
<1>3. /\ IsFiniteSet(After(r) \ {q})
      /\ Cardinality(After(r) \ {q}) = Cardinality(After(r)) - 1
  BY <1>1, <1>2, FS_RemoveElement
<1>4. Cardinality(After(q)) <= Cardinality(After(r)) - 1
  BY <1>2, <1>3, FS_Subset
<1>5. Rank(q) \in Int /\ Rank(r) \in Int
  BY RankType
<1> QED
  BY <1>1, <1>4, <1>5

\* Every place is taken.
LEMMA PlacesAreTaken ==
  ASSUME IsFiniteSet(rows), Distinct, NEW m \in 0..Cardinality(rows) - 1
  PROVE  \E r \in rows : Rank(r) = m
<1> DEFINE n == Cardinality(rows)
           f == [r \in rows |-> Rank(r)]
<1>1. n \in Nat
  BY FS_CardinalityType
<1>2. f \in [rows -> 0..n - 1]
  BY RankType
<1>3. ASSUME NEW q \in rows, NEW r \in rows, f[q] = f[r]
      PROVE  q = r
  <2>1. q.at \in Int /\ r.at \in Int /\ Rank(q) \in Int /\ Rank(r) \in Int
    BY RankType DEF Distinct
  <2>2. ~(q.at > r.at) /\ ~(r.at > q.at)
    BY <1>3, <2>1, RankOrder
  <2> QED
    BY <2>1, <2>2 DEF Distinct
<1>4. f \in Injection(rows, 0..n - 1)
  BY <1>2, <1>3 DEF Injection, IsInjective
<1>5. IsFiniteSet(0..n - 1) /\ Cardinality(0..n - 1) = n
  BY <1>1, FS_Interval
<1>6. f \in Surjection(rows, 0..n - 1)
  BY <1>4, <1>5, FS_Injection
<1> QED
  BY <1>6 DEF Surjection

\* Behind a page that is not full there is nothing.
LEMMA ShortPageIsLast ==
  ASSUME IsFiniteSet(rows), Distinct, NEW page \in Nat \ {0},
         Cardinality(Page(page)) < PageSize, NEW r \in rows
  PROVE  Rank(r) < page * PageSize
<1> DEFINE lo == (page - 1) * PageSize
           hi == page * PageSize
           f == [q \in Page(page) |-> Rank(q)]
<1>1. lo \in Nat /\ hi = lo + PageSize
  BY SizeAssumption
<1>2. Page(page) = {q \in rows : Rank(q) \in lo..hi - 1}
  BY DEF Page
<1> HIDE DEF lo, hi
<1>3. SUFFICES ASSUME Rank(r) >= hi PROVE FALSE
  BY <1>1, RankType, SizeAssumption DEF hi
<1>4. \A m \in lo..hi - 1 : \E q \in rows : Rank(q) = m
  <2>1. \A m \in lo..hi - 1 : m \in 0..Cardinality(rows) - 1
    BY <1>1, <1>3, RankType, SizeAssumption
  <2> QED
    BY <2>1, PlacesAreTaken
<1>5. f \in Surjection(Page(page), lo..hi - 1)
  BY <1>2, <1>4 DEF Surjection
<1>6. IsFiniteSet(Page(page))
  BY <1>2, FS_Subset
<1>7. Cardinality(lo..hi - 1) = PageSize
  <2>1. lo \in Int /\ hi - 1 \in Int
    BY <1>1, SizeAssumption
  <2>2. Cardinality(lo..hi - 1) = IF lo > hi - 1 THEN 0 ELSE (hi - 1) - lo + 1
    BY <2>1, FS_Interval
  <2> QED
    BY <1>1, <2>2, SizeAssumption
<1>8. Cardinality(lo..hi - 1) <= Cardinality(Page(page))
  BY <1>5, <1>6, FS_Surjection
<1>9. Cardinality(Page(page)) \in Nat
  BY <1>6, FS_CardinalityType
<1> QED
  BY <1>7, <1>8, <1>9, SizeAssumption

-----------------------------------------------------------------------------
\* The check on its way

\* The tries of a probe, of which only the last may be no error.
TriesInv ==
  \A k \in Checks :
    /\ tries[k] \in Seq(ProbeResult) /\ Len(tries[k]) <= Retries + 1
    /\ \A i \in 1..Len(tries[k]) - 1 : tries[k][i].status = "error"

Last(k) == tries[k][Len(tries[k])]

Out(k) == phase[k] \in {"reported", "stored"}

\* A check that was reported is over, and its text is in the stream.
WireInv ==
  \A k \in Checks : Out(k) =>
    /\ ~Again(k)
    /\ wire[k] = [at |-> wire[k].at, fields |-> Encode(Last(k))]
    /\ wire[k].at \in 1..reports

\* No two reports are of one time.
OneReport ==
  \A j, k \in Checks : Out(j) /\ Out(k) /\ wire[j].at = wire[k].at => j = k

\* A row is older than every check, or is that of a check that was reported.
OfCheck(r) ==
  /\ r.check \in Checks /\ phase[r.check] = "stored"
  /\ r = NewRow(r.check, wire[r.check].at, Parse(Encode(Last(r.check))))

RowsInv ==
  /\ IsFiniteSet(rows)
  /\ \A r \in rows : r \in CheckRow /\ ((r.check = None /\ r.at < 0) \/ OfCheck(r))

Phased == phase \in [Checks -> {"published", "probing", "reported", "stored"}]

CheckInv ==
  /\ Phased /\ reports \in Nat
  /\ tries = [k \in Checks |-> tries[k]] /\ wire = [k \in Checks |-> wire[k]]
  /\ TriesInv /\ WireInv /\ OneReport /\ RowsInv /\ Distinct

\* A probe that is over has a last try, which is an error only when all of
\* MAX_PROBE_RETRIES more were made.
LEMMA LastTry ==
  ASSUME TriesInv, NEW k \in Checks, ~Again(k)
  PROVE  /\ Len(tries[k]) \in Nat \ {0} /\ Last(k) \in ProbeResult
         /\ \A i \in 1..Len(tries[k]) - 1 : tries[k][i].status = "error"
         /\ Last(k).status = "error" => Len(tries[k]) = Retries + 1
<1>1. tries[k] \in Seq(ProbeResult) /\ Len(tries[k]) \in Nat /\ Len(tries[k]) <= Retries + 1
  BY DEF TriesInv
<1>2. DOMAIN tries[k] = 1..Len(tries[k])
  BY <1>1
<1>3. \A i \in 1..Len(tries[k]) - 1 : tries[k][i].status = "error"
  BY DEF TriesInv
<1>4. CASE Len(tries[k]) > Retries
  BY <1>1, <1>3, <1>4, SizeAssumption DEF Last
<1>5. CASE Len(tries[k]) <= Retries
  <2>1. PICK i \in DOMAIN tries[k] : tries[k][i].status # "error"
    BY <1>5 DEF Again
  <2>2. i = Len(tries[k])
    BY <1>1, <1>2, <1>3, <2>1
  <2> QED
    BY <1>1, <1>2, <1>3, <2>1, <2>2 DEF Last
<1> QED
  BY <1>1, <1>4, <1>5, SizeAssumption

LEMMA CheckInit ==
  ASSUME Init
  PROVE  CheckInv
<1>1. PICK old \in [1..OldRows -> Codes], ms \in Millis :
        rows = {NewRow(None, -n, Parse(Encode(Answer(old[n], ms)))) : n \in 1..OldRows}
  BY DEF Init
<1> DEFINE Old(n) == NewRow(None, -n, Parse(Encode(Answer(old[n], ms))))
           f == [n \in 1..OldRows |-> Old(n)]
<1>2. ASSUME NEW n \in 1..OldRows
      PROVE  /\ Old(n) \in CheckRow
             /\ Old(n).at = -n /\ Old(n).check = None
  <2>1. n \in Int /\ -n \in Int
    BY SizeAssumption
  <2>2. Answer(old[n], ms) \in ProbeResult
    BY DEF ProbeResult
  <2> QED
    BY <2>1, <2>2, RowType DEF NewRow
<1>3. IsFiniteSet(1..OldRows)
  BY SizeAssumption, FS_Interval
<1>4. rows = {Old(n) : n \in 1..OldRows}
  BY <1>1
<1> HIDE DEF Old
<1>5. f \in Surjection(1..OldRows, rows)
  BY <1>4 DEF Surjection
<1>6. IsFiniteSet(rows)
  BY <1>3, <1>5, FS_Surjection
<1>7. RowsInv
  BY <1>2, <1>4, <1>6, SizeAssumption DEF RowsInv
<1>8. Distinct
  BY <1>2, <1>4, SizeAssumption DEF Distinct
<1> QED
  <2>1. TriesInv
    BY SizeAssumption DEF Init, TriesInv
  <2>2. Phased /\ WireInv /\ OneReport /\ reports \in Nat
    BY DEF Init, WireInv, OneReport, Out, Phased
  <2>3. tries = [k \in Checks |-> tries[k]] /\ wire = [k \in Checks |-> wire[k]]
    BY DEF Init
  <2> QED
    BY <1>7, <1>8, <2>1, <2>2, <2>3 DEF CheckInv

\* A step of a check that is not out yet, and stores no row, leaves those that
\* are as they were.
LEMMA OutsStay ==
  ASSUME CheckInv, NEW k \in Checks, ~Out(k),
         \A j \in Checks : j # k => /\ phase'[j] = phase[j] /\ tries'[j] = tries[j]
                                    /\ wire'[j] = wire[j],
         phase'[k] # "stored", rows' = rows
  PROVE  RowsInv' /\ Distinct'
<1>1. \A r \in rows : OfCheck(r) => r.check \in Checks /\ r.check # k
  BY DEF OfCheck, Out
<1>2. \A r \in rows : OfCheck(r) => OfCheck(r)'
  BY <1>1 DEF OfCheck, Last
<1> QED
  BY <1>2 DEF CheckInv, RowsInv, Distinct

LEMMA TakeKeeps ==
  ASSUME CheckInv, NEW k \in Checks, Take(k)
  PROVE  CheckInv'
<1>1. /\ phase[k] = "published" /\ phase' = [phase EXCEPT ![k] = "probing"]
      /\ UNCHANGED <<tries, wire, reports, rows>>
  BY DEF Take
<1>2. Phased' /\ phase'[k] = "probing" /\ \A j \in Checks : j # k => phase'[j] = phase[j]
  BY <1>1 DEF CheckInv, Phased
<1>3. RowsInv' /\ Distinct'
  BY <1>1, <1>2, OutsStay DEF Out
<1>4. \A j \in Checks : Out(j)' => Out(j) /\ (Again(j)' <=> Again(j)) /\ Last(j)' = Last(j)
  BY <1>1, <1>2 DEF Out, Again, Last
<1>5. TriesInv' /\ WireInv' /\ OneReport'
  BY <1>1, <1>4 DEF CheckInv, TriesInv, WireInv, OneReport
<1> QED
  BY <1>1, <1>2, <1>3, <1>5 DEF CheckInv

LEMMA TryKeeps ==
  ASSUME CheckInv, NEW k \in Checks, Try(k)
  PROVE  CheckInv'
<1>1. PICK r \in ProbeResult : tries' = [tries EXCEPT ![k] = Append(@, r)]
  BY DEF Try
<1>2. phase[k] = "probing" /\ Again(k) /\ UNCHANGED <<phase, wire, reports, rows>>
  BY DEF Try
<1>3. tries'[k] = Append(tries[k], r) /\ \A j \in Checks : j # k => tries'[j] = tries[j]
  BY <1>1 DEF CheckInv
<1>4. RowsInv' /\ Distinct'
  BY <1>2, <1>3, OutsStay DEF Out
<1>5. TriesInv'
  <2>1. /\ tries[k] \in Seq(ProbeResult) /\ Len(tries[k]) \in Nat /\ Len(tries[k]) <= Retries
        /\ \A i \in 1..Len(tries[k]) : tries[k][i].status = "error"
    BY <1>2 DEF CheckInv, TriesInv, Again
  <2>2. /\ tries'[k] \in Seq(ProbeResult) /\ Len(tries'[k]) = Len(tries[k]) + 1
        /\ \A i \in 1..Len(tries[k]) : tries'[k][i] = tries[k][i]
    BY <1>3, <2>1
  <2>3. \A i \in 1..Len(tries'[k]) - 1 : tries'[k][i].status = "error"
    BY <2>1, <2>2
  <2>4. Len(tries'[k]) <= Retries + 1
    BY <2>1, <2>2, SizeAssumption
  <2> QED
    BY <1>3, <2>2, <2>3, <2>4 DEF CheckInv, TriesInv
<1>6. \A j \in Checks : Out(j)' => Out(j) /\ (Again(j)' <=> Again(j)) /\ Last(j)' = Last(j)
  BY <1>2, <1>3 DEF Out, Again, Last
<1>7. WireInv' /\ OneReport'
  BY <1>2, <1>6 DEF CheckInv, WireInv, OneReport
<1>8. tries' = [j \in Checks |-> tries'[j]]
  BY <1>1 DEF CheckInv
<1> QED
  BY <1>2, <1>4, <1>5, <1>7, <1>8 DEF CheckInv, Phased

LEMMA ReportKeeps ==
  ASSUME CheckInv, NEW k \in Checks, Report(k)
  PROVE  CheckInv'
<1>1. /\ phase[k] = "probing" /\ ~Again(k) /\ phase' = [phase EXCEPT ![k] = "reported"]
      /\ reports' = reports + 1
      /\ wire' = [wire EXCEPT ![k] = [at |-> reports', fields |-> Encode(Last(k))]]
      /\ UNCHANGED <<tries, rows>>
  BY DEF Report, Last
<1>2. Phased' /\ phase'[k] = "reported" /\ \A j \in Checks : j # k => phase'[j] = phase[j]
  BY <1>1 DEF CheckInv, Phased
<1>3. /\ wire'[k] = [at |-> reports', fields |-> Encode(Last(k))]
      /\ \A j \in Checks : j # k => wire'[j] = wire[j]
      /\ wire' = [j \in Checks |-> wire'[j]]
  BY <1>1 DEF CheckInv
<1>4. RowsInv' /\ Distinct'
  BY <1>1, <1>2, <1>3, OutsStay DEF Out
<1>5. \A j \in Checks : /\ Out(j)' /\ j # k => Out(j)
                        /\ (Again(j)' <=> Again(j)) /\ Last(j)' = Last(j)
  BY <1>1, <1>2 DEF Out, Again, Last
<1>6. reports \in Nat /\ reports' \in Nat /\ wire'[k].at = reports + 1
  BY <1>1, <1>3 DEF CheckInv
<1>7. WireInv'
  <2>1. ASSUME NEW j \in Checks, Out(j)', j # k
        PROVE  /\ ~Again(j)' /\ wire'[j] = [at |-> wire'[j].at, fields |-> Encode(Last(j)')]
               /\ wire'[j].at \in 1..reports
    BY <1>3, <1>5, <2>1 DEF CheckInv, WireInv
  <2>2. /\ ~Again(k)' /\ wire'[k] = [at |-> wire'[k].at, fields |-> Encode(Last(k)')]
        /\ wire'[k].at \in 1..reports'
    BY <1>1, <1>3, <1>5, <1>6
  <2> QED
    BY <1>1, <1>6, <2>1, <2>2 DEF WireInv
<1>8. OneReport'
  <2>1. \A j \in Checks : Out(j)' /\ j # k => wire'[j].at \in 1..reports /\ wire'[j].at # wire'[k].at
    BY <1>3, <1>5, <1>6 DEF CheckInv, WireInv
  <2> QED
    BY <1>3, <1>5, <2>1 DEF CheckInv, OneReport
<1>9. TriesInv'
  BY <1>1 DEF CheckInv, TriesInv
<1> QED
  BY <1>1, <1>2, <1>3, <1>4, <1>6, <1>7, <1>8, <1>9 DEF CheckInv

LEMMA PersistKeeps ==
  ASSUME CheckInv, NEW k \in Checks, Persist(k)
  PROVE  CheckInv' /\ rows \subseteq rows'
<1>a. PICK new : new = NewRow(k, wire[k].at, Parse(wire[k].fields))
  OBVIOUS
<1>1. /\ phase[k] = "reported" /\ phase' = [phase EXCEPT ![k] = "stored"]
      /\ rows' = rows \union {new}
      /\ UNCHANGED <<tries, wire, reports>>
  BY <1>a DEF Persist
<1>2. Phased' /\ phase'[k] = "stored" /\ \A j \in Checks : j # k => phase'[j] = phase[j]
  BY <1>1 DEF CheckInv, Phased
<1>3. /\ ~Again(k) /\ wire[k].fields = Encode(Last(k)) /\ wire[k].at \in 1..reports
      /\ reports \in Nat
  BY <1>1 DEF CheckInv, WireInv, Out
<1>4. new \in CheckRow /\ new.check = k /\ new.at = wire[k].at
  <2>1. Last(k) \in ProbeResult
    BY <1>3, LastTry DEF CheckInv
  <2> QED
    BY <1>a, <1>3, <2>1, RowType DEF NewRow
<1>5. new = NewRow(k, wire'[k].at, Parse(Encode(Last(k)'))) /\ OfCheck(new)'
  <2>1. Last(k)' = Last(k) /\ wire'[k] = wire[k]
    BY <1>1 DEF Last
  <2>2. new = NewRow(k, wire'[k].at, Parse(Encode(Last(k)')))
    BY <1>a, <1>3, <2>1
  <2> QED
    BY <1>2, <1>4, <2>2 DEF OfCheck
<1>6. \A r \in rows : OfCheck(r) => OfCheck(r)' /\ r.at = wire[r.check].at /\ r.check # k
  BY <1>1, <1>2 DEF OfCheck, Last, NewRow
<1>7. RowsInv'
  <2>1. IsFiniteSet(rows')
    BY <1>1, FS_AddElement DEF CheckInv, RowsInv
  <2> QED
    BY <1>1, <1>4, <1>5, <1>6, <2>1 DEF CheckInv, RowsInv
<1>8. Distinct'
  <2>1. \A r \in rows : r.at \in Int /\ r.at # new.at
    <3> TAKE r \in rows
    <3>1. CASE r.at < 0
      BY <1>3, <1>4, <3>1 DEF CheckInv, Distinct
    <3>2. CASE OfCheck(r)
      <4>1. r.check \in Checks /\ Out(r.check) /\ Out(k) /\ r.check # k /\ r.at = wire[r.check].at
        BY <1>1, <1>6, <3>2 DEF OfCheck, Out
      <4> QED
        BY <1>4, <4>1 DEF CheckInv, OneReport, Distinct
    <3> QED
      BY <3>1, <3>2 DEF CheckInv, RowsInv
  <2>2. new.at \in Int
    BY <1>3, <1>4
  <2> QED
    BY <1>1, <2>1, <2>2 DEF CheckInv, Distinct
<1>9. \A j \in Checks : (Out(j)' <=> Out(j)) /\ (Again(j)' <=> Again(j)) /\ Last(j)' = Last(j)
  BY <1>1, <1>2 DEF Out, Again, Last
<1>10. TriesInv' /\ WireInv' /\ OneReport'
  BY <1>1, <1>9 DEF CheckInv, TriesInv, WireInv, OneReport
<1> QED
  BY <1>1, <1>2, <1>7, <1>8, <1>10 DEF CheckInv

\* The reads leave the check alone.
LEMMA ReadsKeep ==
  ASSUME CheckInv, UNCHANGED <<check, rows>>
  PROVE  CheckInv'
<1>1. UNCHANGED <<phase, tries, wire, reports, rows>>
  BY DEF check
<1>2. \A j \in Checks : (Again(j)' <=> Again(j)) /\ Last(j)' = Last(j) /\ (Out(j)' <=> Out(j))
  BY <1>1 DEF Again, Last, Out
<1>3. \A r \in rows : OfCheck(r)' <=> OfCheck(r)
  BY <1>1, <1>2 DEF OfCheck, Last
<1> QED
  BY <1>1, <1>2, <1>3 DEF CheckInv, Phased, TriesInv, WireInv, OneReport, RowsInv, Distinct

\* Rows are only ever added.
LEMMA CheckNext ==
  ASSUME CheckInv, [Next]_vars
  PROVE  CheckInv' /\ rows \subseteq rows'
<1>1. ASSUME NEW k \in Checks, Check(k) PROVE CheckInv' /\ rows \subseteq rows'
  <2>1. CASE Take(k)
    BY <2>1, TakeKeeps DEF Take
  <2>2. CASE Try(k)
    BY <2>2, TryKeeps DEF Try
  <2>3. CASE Report(k)
    BY <2>3, ReportKeeps DEF Report
  <2>4. CASE Persist(k)
    BY <2>4, PersistKeeps
  <2> QED
    BY <1>1, <2>1, <2>2, <2>3, <2>4 DEF Check
<1>2. CASE ReadPage \/ UNCHANGED vars
  BY <1>2, ReadsKeep DEF ReadPage, vars
<1> QED
  BY <1>1, <1>2 DEF Next

-----------------------------------------------------------------------------
\* The body

BodyInv == DOMAIN body = Checks /\ BodySurvives

LEMMA BodyNext ==
  ASSUME Phased, BodyInv, [Next]_vars
  PROVE  BodyInv'
<1>1. ASSUME NEW k \in Checks, Take(k) PROVE BodyInv'
  <2>1. /\ phase' = [phase EXCEPT ![k] = "probing"]
        /\ body' = [body EXCEPT ![k] = FromText(ToText(BodyOf[k]))]
    BY <1>1 DEF Take
  <2>2. BodyOf[k] # NoneText => FromText(ToText(BodyOf[k])) = BodyOf[k]
    BY TextKeeps
  <2> QED
    BY <2>1, <2>2 DEF Phased, BodyInv, BodySurvives
<1>2. ASSUME NEW k \in Checks, Try(k) \/ Report(k) \/ Persist(k) PROVE BodyInv'
  BY <1>2 DEF Try, Report, Persist, Phased, BodyInv, BodySurvives
<1>3. CASE ReadPage \/ UNCHANGED vars
  BY <1>3 DEF ReadPage, vars, check, BodyInv, BodySurvives
<1> QED
  BY <1>1, <1>2, <1>3 DEF Next, Check

-----------------------------------------------------------------------------
\* The pages

PagerInv ==
  /\ pager.page \in Nat \ {0} /\ pager.done \in BOOLEAN
  /\ pager.first \subseteq rows /\ pager.seen \subseteq rows
  /\ pager.page = 1 => pager.first = {}
  /\ \A r \in pager.first : Rank(r) < (pager.page - 1) * PageSize => r \in pager.seen
  /\ PagingMissesNothing

\* A row only moves to later places.
LEMMA RanksGrow ==
  ASSUME CheckInv, CheckInv', rows \subseteq rows', NEW r \in rows
  PROVE  Rank(r) \in Nat /\ Rank(r)' \in Nat /\ Rank(r) <= Rank(r)'
<1>1. IsFiniteSet(rows) /\ Distinct /\ IsFiniteSet(rows') /\ Distinct'
  BY DEF CheckInv, RowsInv
<1>2. Rank(r) = Cardinality(After(r)) /\ Rank(r) \in Nat
  BY <1>1, RankType
<1>3. IsFiniteSet({q \in rows' : q.at > r.at})
  BY <1>1, FS_Subset
<1>4. After(r) \in SUBSET {q \in rows' : q.at > r.at}
  BY DEF After
<1>5. Cardinality(After(r)) <= Cardinality({q \in rows' : q.at > r.at})
  BY <1>3, <1>4, FS_Subset
<1>6. Cardinality({q \in rows' : q.at > r.at}) \in Nat
  BY <1>3, FS_CardinalityType
<1> QED
  BY <1>2, <1>5, <1>6 DEF Rank

LEMMA PagerNext ==
  ASSUME CheckInv, CheckInv', PagerInv, rows \subseteq rows', [Next]_vars
  PROVE  PagerInv'
<1>1. CASE ReadPage
  <2> DEFINE page == pager.page
             first == IF page = 1 THEN rows ELSE pager.first
  <2>1. /\ rows' = rows
        /\ pager' = [page |-> page + 1, first |-> first, seen |-> pager.seen \union Page(page),
                     done |-> Cardinality(Page(page)) < PageSize]
    BY <1>1 DEF ReadPage
  <2>2. page \in Nat \ {0} /\ first \subseteq rows /\ Page(page) \subseteq rows
    BY DEF PagerInv, Page
  <2>3. ASSUME NEW r \in first, Rank(r) < page * PageSize
        PROVE  r \in pager.seen \union Page(page)
    <3>1. Rank(r) \in Nat
      BY <2>2, RankType DEF CheckInv, RowsInv
    <3>2. (page - 1) * PageSize \in Nat /\ page * PageSize \in Nat
      BY <2>2, SizeAssumption
    <3>3. CASE Rank(r) < (page - 1) * PageSize
      <4>1. page # 1
        BY <3>1, <3>3, SizeAssumption
      <4> QED
        BY <3>3, <4>1 DEF PagerInv
    <3>4. CASE Rank(r) >= (page - 1) * PageSize
      <4>1. Rank(r) \in (page - 1) * PageSize .. page * PageSize - 1
        BY <2>3, <3>1, <3>2, <3>4
      <4> QED
        BY <2>2, <4>1 DEF Page
    <3> QED
      BY <3>1, <3>2, <3>3, <3>4
  <2>4. Cardinality(Page(page)) < PageSize => first \subseteq pager.seen \union Page(page)
    BY <2>2, <2>3, ShortPageIsLast DEF CheckInv, RowsInv
  <2>5. \A r \in rows : Rank(r)' = Rank(r)
    BY <2>1 DEF Rank
  <2>6. (page + 1) - 1 = page /\ page + 1 # 1 /\ page + 1 \in Nat \ {0}
    BY <2>2
  <2> HIDE DEF page, first
  <2>7. /\ pager'.page = page + 1 /\ pager'.first = first
        /\ pager'.seen = pager.seen \union Page(page)
        /\ pager'.done = (Cardinality(Page(page)) < PageSize)
    BY <2>1
  <2>8. \A r \in pager'.first : Rank(r)' < (pager'.page - 1) * PageSize => r \in pager'.seen
    BY <2>2, <2>3, <2>5, <2>6, <2>7
  <2>9. pager'.page \in Nat \ {0} /\ pager'.first \subseteq rows' /\ pager'.seen \subseteq rows'
    BY <2>1, <2>2, <2>6, <2>7 DEF PagerInv
  <2>10. pager'.done \in BOOLEAN
    BY <2>7
  <2>11. PagingMissesNothing'
    BY <2>4, <2>7 DEF PagingMissesNothing
  <2> QED
    BY <2>6, <2>7, <2>8, <2>9, <2>10, <2>11 DEF PagerInv
<1>2. CASE pager' = pager
  <2>1. ASSUME NEW r \in pager.first, Rank(r)' < (pager.page - 1) * PageSize
        PROVE  r \in pager.seen
    <3>1. Rank(r) \in Nat /\ Rank(r)' \in Nat /\ Rank(r) <= Rank(r)'
      BY RanksGrow DEF PagerInv
    <3>2. (pager.page - 1) * PageSize \in Nat
      BY SizeAssumption DEF PagerInv
    <3>3. Rank(r) < (pager.page - 1) * PageSize
      BY <2>1, <3>1, <3>2
    <3> QED
      BY <3>3 DEF PagerInv
  <2> QED
    BY <1>2, <2>1 DEF PagerInv, PagingMissesNothing
<1> QED
  BY <1>1, <1>2 DEF Next, Check, Take, Try, Report, Persist, vars

-----------------------------------------------------------------------------
\* The results in the stream

WireTyped == wire \in [Checks -> Wire \union {None}]

LEMMA WireNext ==
  ASSUME CheckInv, WireTyped, [Next]_vars
  PROVE  WireTyped'
<1>1. ASSUME NEW k \in Checks, Report(k) PROVE WireTyped'
  <2>1. /\ ~Again(k) /\ reports' = reports + 1
        /\ wire' = [wire EXCEPT ![k] = [at |-> reports', fields |-> Encode(Last(k))]]
    BY <1>1 DEF Report, Last
  <2>2. Last(k) \in ProbeResult /\ reports' \in Nat
    BY <2>1, LastTry DEF CheckInv
  <2>3. [at |-> reports', fields |-> Encode(Last(k))] \in Wire
    BY <2>2 DEF Wire
  <2> QED
    BY <2>1, <2>3 DEF WireTyped
<1>2. CASE wire' = wire
  BY <1>2 DEF WireTyped
<1> QED
  BY <1>1, <1>2 DEF Next, Check, Take, Try, Persist, ReadPage, check, vars

-----------------------------------------------------------------------------
\* The theorems

Inv == CheckInv /\ BodyInv /\ PagerInv /\ WireTyped

\* The inductive invariant of a check, its rows and the clients that read them.
THEOREM CheckRecordsInvariant == Spec => []Inv
<1>1. Init => Inv
  <2> SUFFICES ASSUME Init PROVE Inv
    OBVIOUS
  <2>1. CheckInv
    BY CheckInit
  <2>2. BodyInv /\ WireTyped
    BY DEF Init, BodyInv, BodySurvives, WireTyped
  <2>3. PagerInv
    BY DEF Init, PagerInv, PagingMissesNothing
  <2> QED
    BY <2>1, <2>2, <2>3 DEF Inv
<1>2. Inv /\ [Next]_vars => Inv'
  <2> SUFFICES ASSUME Inv, [Next]_vars PROVE Inv'
    OBVIOUS
  <2>1. CheckInv' /\ rows \subseteq rows'
    BY CheckNext DEF Inv
  <2>2. BodyInv'
    BY BodyNext DEF Inv, CheckInv
  <2>3. PagerInv'
    BY <2>1, PagerNext DEF Inv
  <2>4. WireTyped'
    BY WireNext DEF Inv
  <2> QED
    BY <2>1, <2>2, <2>3, <2>4 DEF Inv
<1> QED
  BY <1>1, <1>2, PTL DEF Spec

\* Every variable keeps its type: codes and durations come back from their text
\* as what they were (reporter.py:31-41, consumer.py:112-127).
THEOREM CheckRecordsTypes == Spec => []TypeOK
<1>1. Inv => TypeOK
  <2> SUFFICES ASSUME Inv PROVE TypeOK
    OBVIOUS
  <2>1. tries \in [Checks -> Seq(ProbeResult)]
    BY DEF Inv, CheckInv, TriesInv
  <2>2. rows \subseteq CheckRow
    BY DEF Inv, CheckInv, RowsInv
  <2> QED
    BY <2>1, <2>2 DEF Inv, CheckInv, Phased, BodyInv, PagerInv, WireTyped, TypeOK
<1> QED
  BY <1>1, CheckRecordsInvariant, PTL

\* A row says what the last try returned, and "error" means that every try
\* failed (probe.py:36-49).
THEOREM RowsTellTries == Spec => []RowTellsTries
<1>1. Inv => RowTellsTries
  <2> SUFFICES ASSUME Inv, NEW r \in rows, r.check # None
               PROVE  LET try == tries[r.check]
                          n == Len(try)
                      IN /\ <<r.status, r.code, r.ms>> = <<try[n].status, try[n].code, try[n].ms>>
                         /\ r.error = IF try[n].error = None THEN NoneText ELSE try[n].error
                         /\ \A i \in 1..n - 1 : try[i].status = "error"
                         /\ r.status = "error" => n = Retries + 1
    BY DEF RowTellsTries
  <2>1. OfCheck(r) /\ r.check \in Checks
    BY DEF Inv, CheckInv, RowsInv, OfCheck
  <2>2. PICK k \in Checks : k = r.check
    BY <2>1
  <2>3. ~Again(k)
    BY <2>1, <2>2 DEF OfCheck, Inv, CheckInv, WireInv, Out
  <2>4. /\ Last(k) \in ProbeResult
        /\ \A i \in 1..Len(tries[k]) - 1 : tries[k][i].status = "error"
        /\ Last(k).status = "error" => Len(tries[k]) = Retries + 1
    BY <2>3, LastTry DEF Inv, CheckInv
  <2>5. /\ r.status = Last(k).status /\ r.code = Last(k).code /\ r.ms = Last(k).ms
        /\ r.error = ToText(Last(k).error)
    <3>1. r = NewRow(k, wire[k].at, Parse(Encode(Last(k))))
      BY <2>1, <2>2 DEF OfCheck
    <3>2. /\ r.status = Parse(Encode(Last(k))).status /\ r.code = Parse(Encode(Last(k))).code
          /\ r.ms = Parse(Encode(Last(k))).ms /\ r.error = Parse(Encode(Last(k))).error
      BY <3>1 DEF NewRow
    <3> QED
      BY <2>4, <3>2, ParsedResult
  <2> QED
    BY <2>2, <2>4, <2>5 DEF Last, ToText
<1> QED
  BY <1>1, CheckRecordsInvariant, PTL

\* The target is sent the body of its service (producer.py:30, worker.py:148).
THEOREM BodiesSurvive == Spec => []BodySurvives
<1>1. Inv => BodySurvives
  BY DEF Inv, BodyInv
<1> QED
  BY <1>1, CheckRecordsInvariant, PTL

\* Whatever is stored meanwhile, a client that reads until a page is short has
\* seen every row that was there when it began (checks.py:63-77).
THEOREM PagingIsComplete == Spec => []PagingMissesNothing
<1>1. Inv => PagingMissesNothing
  BY DEF Inv, PagerInv
<1> QED
  BY <1>1, CheckRecordsInvariant, PTL

=============================================================================
