-------------------------------- MODULE Judge --------------------------------
(***************************************************************************)
(* Verdicts of a language model on the rows of a run, and two such reports side *)
(* by side (test/judge.py).  A row is named by its case_id, which two rows of one  *)
(* report share when input and output are the same.                           *)
(***************************************************************************)
EXTENDS Naturals, Sequences, FiniteSets

\* What the judge does with a row: it answers YES or NO, answers something else, or
\* raises.
Answer == {"yes", "no", "unparseable", "raises"}

\* judge_outputs: nothing but a YES is a verdict in favour.  That a row is wordless is
\* for the properties to tell; the file has its id alone.
Verdict(row, answer) ==
  [id |-> row.id, wordless |-> row.wordless, verdict |-> answer = "yes", error |-> answer = "raises",
   unparseable |-> answer = "unparseable", rulePassed |-> row.rulePassed]

Judged(rows, answers) ==
  LET verdicts == [i \in DOMAIN rows |-> Verdict(rows[i], answers[i])]
      Count(P(_)) == Cardinality({i \in DOMAIN verdicts : P(verdicts[i])}) IN
  [verdicts |-> verdicts,
   total  |-> Len(rows),
   passed |-> LET Is(v) == v.verdict IN Count(Is),
   errors |-> LET Is(v) == v.error IN Count(Is),
   unparseable |-> LET Is(v) == v.unparseable IN Count(Is)]

\* judge_disagreements: not of rows the judge never saw, nor of those no rule did.
Disagreements(report) ==
  {i \in DOMAIN report.verdicts :
     LET v == report.verdicts[i] IN
     ~v.error /\ v.rulePassed # "unknown" /\ (v.rulePassed = "passed") # v.verdict}

-----------------------------------------------------------------------------
\* Faulty: rows of one id are one row.
KeyById(report, i) == <<report.verdicts[i].id, 1>>

\* The occurrence of a row among those of its id.
KeyOf(report, i) ==
  <<report.verdicts[i].id,
    Cardinality({j \in 1..i : report.verdicts[j].id = report.verdicts[i].id})>>

\* _verdicts_by_key: of two rows of one key the later is kept.
ByKey(report) ==
  LET keys == {KeyOf(report, i) : i \in DOMAIN report.verdicts}
      Latest(k) == CHOOSE i \in DOMAIN report.verdicts :
                     /\ KeyOf(report, i) = k
                     /\ \A j \in DOMAIN report.verdicts : KeyOf(report, j) = k => j <= i
  IN [k \in keys |-> report.verdicts[Latest(k)]]

\* diff_verdicts
DiffVerdicts(old, new) ==
  LET o == ByKey(old)
      n == ByKey(new)
      common == DOMAIN o \intersect DOMAIN n IN
  [compared |-> Cardinality(common),
   flips    |-> {k \in common : o[k].verdict # n[k].verdict},
   oldTotal |-> Len(old.verdicts), newTotal |-> Len(new.verdicts),
   oldOnly  |-> Cardinality(DOMAIN o \ DOMAIN n),
   newOnly  |-> Cardinality(DOMAIN n \ DOMAIN o)]

\* coverage: how much of the larger report the diff speaks of, in `unit`ths.
Largest(d) == IF d.oldTotal >= d.newTotal THEN d.oldTotal ELSE d.newTotal
Coverage(d, unit) == IF Largest(d) = 0 THEN 0 ELSE (d.compared * unit) \div Largest(d)
=============================================================================
