-------------------------- MODULE TraceStoreProofs --------------------------
(***************************************************************************)
(* Proofs about the trace file: its migration by any number of processes, its  *)
(* transactions by any number of threads, close(), and the bound on its log,   *)
(* through any number of faults and deaths.                                  *)
(***************************************************************************)
EXTENDS TraceStore, Integers, FiniteSetTheorems, SequenceTheorems, TLAPS

-----------------------------------------------------------------------------
(* The inductive invariant. *)

FileRec == [tables : SUBSET Tables, columns : SUBSET Columns, version : Nat, lease : Lease,
            epoch : Nat, config : Nat, log : Seq(Nat)]

Places == {"idle", "begin", "read", "write", "commit", "note", "prune", "reading", "reported"}
TxnRec == [at : Places, seen : Nat, config : Nat, snap : Seq(Nat), attempt : 1..Attempts]

SchemaTypes ==
  /\ file \in FileRec /\ draft \in FileRec
  /\ writer \in Proc \union Thread \union {Nobody}
  /\ opener \in [Proc -> Opener]
  /\ faults \in Nat /\ crashes \in Nat

StoreTypes ==
  /\ conn \in [Thread -> {"none", "unregistered", "open", "listed", "closed"}]
  /\ closing \in [Proc -> {"no", "marked", "returned"}]
  /\ txn \in [Thread -> TxnRec]
  /\ \A t \in Thread : txn[t].at = "reading" => txn[t].snap # <<>>
  /\ clock \in [Proc -> Nat] /\ begun \in Nat /\ world \in World

Types == SchemaTypes /\ StoreTypes

\* The write lock is held by an opening past its backfill or by a thread inside
\* `_write_txn`, and every such thread that is connected holds it.
Lock ==
  /\ writer = Nobody => draft = file
  /\ \A p \in Proc : writer = p => opener[p].at = "opening" /\ opener[p].next > 8
  /\ \A t \in Thread : (writer = t) <=> (Live(t) /\ txn[t].at \in {"read", "write", "commit"})
  /\ \A t \in Thread : conn[t] \in {"none", "unregistered"} => txn[t].at = "idle"

\* The task of two files is the same.
SameTask(f, g) == g.epoch = f.epoch /\ g.config = f.config /\ g.log = f.log

\* A transaction has changed nothing of the task before its write, and then taken
\* the next epoch of the committed file and logged it.
Task ==
  /\ (\A t \in Thread : writer = t => txn[t].at # "commit") => SameTask(file, draft)
  /\ \A t \in Thread : writer = t =>
       /\ txn[t].at = "write" => txn[t].seen = file.epoch
       /\ txn[t].at = "commit" =>
            /\ draft.epoch = file.epoch + 1
            /\ draft.config \in {file.config, file.epoch + 1}
            /\ draft.log = Append(file.log, file.epoch + 1)

\* A schema only grows.
Below(f, g) == f.tables \subseteq g.tables /\ f.columns \subseteq g.columns /\ f.version <= g.version

\* What statement i of the script leaves in a file.
DoneIn(i, f) ==
  /\ Script[i] \in Tables => Script[i] \in f.tables
  /\ Script[i] \in Columns => Script[i] \in f.columns
  /\ Script[i] = "version" => f.version >= SchemaVersion

\* An opening sees what its statements have done, whoever else has done it.
Progress ==
  /\ Below(file, draft)
  /\ \A p \in Proc : opener[p].at = "opening" =>
       /\ \A i \in 1..(opener[p].next - 1) : DoneIn(i, Seen(p))
       /\ opener[p].known \subseteq Seen(p).columns

Complete(f) == f.tables = Tables /\ f.columns = Columns /\ f.version >= SchemaVersion

IInv == Types /\ Lock /\ Task /\ Progress /\ SchemaComplete /\ NoneOpenAfterClose

-----------------------------------------------------------------------------
(* The script. *)

LEMMA ScriptTables ==
  /\ Len(Script) = 12
  /\ \A i \in 1..12 : Script[i] \in Tables <=> i \in {1, 4, 9, 10}
  /\ \A s \in Tables : s \in {Script[1], Script[4], Script[9], Script[10]}
  BY DEF Script, Tables

LEMMA ScriptColumns ==
  /\ \A i \in 1..12 : Script[i] \in Columns <=> i \in {3, 5, 6, 7}
  /\ \A s \in Columns : s \in {Script[3], Script[5], Script[6], Script[7]}
  BY DEF Script, Columns

LEMMA ScriptOthers ==
  \A i \in 1..12 : /\ Script[i] = "probe" <=> i = 2
                   /\ Script[i] = "backfill" <=> i = 8
                   /\ Script[i] = "version" <=> i = 11
                   /\ Script[i] = "commit" <=> i = 12
                   /\ Script[i] = "compiling_started_at" <=> i = 7
                   /\ Script[i] = "tasks" <=> i = 1
  BY DEF Script

\* Whoever has run every statement before the last has the whole schema.
LEMMA AllDone ==
  ASSUME NEW f \in FileRec, \A i \in 1..11 : DoneIn(i, f)
  PROVE  Complete(f)
  <1>1. f.tables = Tables
    <2>1. \A s \in Tables : s \in f.tables
      BY ScriptTables DEF DoneIn
    <2> QED BY <2>1 DEF FileRec
  <1>2. f.columns = Columns
    <2>1. \A s \in Columns : s \in f.columns
      BY ScriptColumns DEF DoneIn
    <2> QED BY <2>1 DEF FileRec
  <1>3. f.version >= SchemaVersion
    BY ScriptOthers DEF DoneIn
  <1> QED BY <1>1, <1>2, <1>3 DEF Complete

LEMMA DoneStays ==
  ASSUME NEW f \in FileRec, NEW g \in FileRec, Below(f, g), NEW i, DoneIn(i, f)
  PROVE  DoneIn(i, g)
  BY DEF FileRec, Below, DoneIn, SchemaVersion

LEMMA CompleteStays ==
  ASSUME NEW f \in FileRec, NEW g \in FileRec, Below(f, g), Complete(f)
  PROVE  Complete(g)
  <1>1. g.tables \subseteq Tables /\ g.columns \subseteq Columns /\ f.version \in Nat /\ g.version \in Nat
    BY DEF FileRec
  <1>2. g.tables = Tables /\ g.columns = Columns
    BY <1>1 DEF Below, Complete
  <1>3. g.version >= SchemaVersion
    BY <1>1 DEF Below, Complete, SchemaVersion
  <1> QED BY <1>2, <1>3 DEF Complete

-----------------------------------------------------------------------------
(* The steps of an opening, by what they change. *)

LEMMA SeenType ==
  ASSUME SchemaTypes, NEW w
  PROVE  Seen(w) \in FileRec
  BY DEF SchemaTypes, Seen

\* A file of the same task whose schema has not shrunk.
Grown(f, g) == g \in FileRec /\ SameTask(f, g) /\ Below(f, g)

LEMMA GrownColumns ==
  ASSUME NEW f \in FileRec, NEW cs \in SUBSET Columns
  PROVE  /\ Grown(f, [f EXCEPT !.columns = @ \union cs])
         /\ cs \subseteq [f EXCEPT !.columns = @ \union cs].columns
  BY DEF FileRec, Grown, SameTask, Below

LEMMA GrownLease ==
  ASSUME NEW f \in FileRec, NEW l \in Lease
  PROVE  Grown(f, [f EXCEPT !.lease = l])
  BY DEF FileRec, Grown, SameTask, Below

LEMMA GrownVersion ==
  ASSUME NEW f \in FileRec, NEW v \in Nat, f.version <= v
  PROVE  Grown(f, [f EXCEPT !.version = v]) /\ [f EXCEPT !.version = v].version = v
  BY DEF FileRec, Grown, SameTask, Below

LEMMA GrownSelf ==
  ASSUME NEW f \in FileRec
  PROVE  Grown(f, f)
  BY DEF FileRec, Grown, SameTask, Below

WithBoth(f, ts, cs) == [f EXCEPT !.tables = @ \union ts, !.columns = @ \union cs]

LEMMA GrownBoth ==
  ASSUME NEW f \in FileRec, NEW ts \in SUBSET Tables, NEW cs \in SUBSET Columns
  PROVE  Grown(f, WithBoth(f, ts, cs)) /\ ts \subseteq WithBoth(f, ts, cs).tables
  <1> DEFINE h == WithBoth(f, ts, cs)
  <1>0. h = [f EXCEPT !.tables = @ \union ts, !.columns = @ \union cs]
    BY DEF WithBoth
  <1> HIDE DEF h
  <1>1. /\ h.tables = f.tables \union ts /\ h.columns = f.columns \union cs
        /\ h.version = f.version /\ h.lease = f.lease /\ h.epoch = f.epoch
        /\ h.config = f.config /\ h.log = f.log
    BY <1>0 DEF FileRec
  <1>2. h = [tables |-> h.tables, columns |-> h.columns, version |-> h.version, lease |-> h.lease,
             epoch |-> h.epoch, config |-> h.config, log |-> h.log]
    BY <1>0 DEF FileRec
  <1>3. /\ h.tables \in SUBSET Tables /\ h.columns \in SUBSET Columns /\ h.version \in Nat
        /\ h.lease \in Lease /\ h.epoch \in Nat /\ h.config \in Nat /\ h.log \in Seq(Nat)
    BY <1>1 DEF FileRec
  <1>4. h \in FileRec
    BY <1>2, <1>3 DEF FileRec
  <1>5. f.version <= f.version
    BY DEF FileRec
  <1>6. Grown(f, h) /\ ts \subseteq h.tables
    BY <1>1, <1>4, <1>5 DEF Grown, SameTask, Below
  <1> QED BY <1>6 DEF h

Quiet == UNCHANGED <<file, draft, writer>>

\* A write is in the draft, or committed at once.
Puts(p, f) ==
  /\ writer \in {Nobody, p} /\ writer' = writer
  /\ draft' = f /\ file' = IF writer = p THEN file ELSE f

\* The opening goes on: it sees `f` now, which has what it ran meanwhile.
Advances(p) ==
  \E f \in FileRec :
    /\ Grown(Seen(p), f)
    /\ \/ Quiet /\ f = Seen(p)
       \/ Puts(p, f)
       \/ writer \in {Nobody, p} /\ writer' = p /\ draft' = f /\ file' = file /\ opener'[p].next > 8
    /\ opener[p].at = "opening" /\ opener'[p].at = "opening"
    /\ opener'[p].next >= opener[p].next
    /\ \A i \in opener[p].next..(opener'[p].next - 1) : DoneIn(i, f)
    /\ opener'[p].known \in {opener[p].known, Seen(p).columns}

\* It begins, begins again or raises.
Restarts(p) ==
  /\ opener[p].at \in {"closed", "opening"}
  /\ \/ opener'[p].at = "opening" /\ opener'[p].next = 1 /\ opener'[p].known = {}
     \/ opener'[p].at = "raised"
  /\ RollBack(p) /\ file' = file

Ends(p) ==
  /\ At(p, "commit") /\ opener'[p].at = "open"
  /\ file' = Seen(p) /\ writer' = (IF writer = p THEN Nobody ELSE writer) /\ draft' = draft

Reclaims(p) ==
  /\ opener[p].at = "open" /\ opener' = opener
  /\ writer = Nobody /\ writer' = writer /\ draft' = file'
  /\ \E f \in FileRec : Grown(file, f) /\ file' = f

SchemaShape(p) == Advances(p) \/ Restarts(p) \/ Ends(p) \/ Reclaims(p)

\* Only p's opening changes.
OpenerStep(p) ==
  /\ opener' \in [Proc -> Opener]
  /\ \A q \in Proc \ {p} : opener'[q] = opener[q]
  /\ faults' \in Nat /\ crashes' \in Nat /\ faults' <= faults /\ crashes' = crashes

LEMMA NextStatement ==
  ASSUME SchemaTypes, NEW p \in Proc, NEW n \in {1, 2}, opener[p].next + n <= 12,
         opener' = [opener EXCEPT ![p].next = @ + n]
  PROVE  /\ opener' \in [Proc -> Opener]
         /\ \A q \in Proc \ {p} : opener'[q] = opener[q]
         /\ opener'[p].at = opener[p].at /\ opener'[p].known = opener[p].known
         /\ opener[p].next \in Nat /\ opener'[p].next = opener[p].next + n
  <1>0. opener \in [Proc -> Opener] /\ opener[p].next \in 1..12
    BY ScriptTables DEF SchemaTypes, Opener
  <1>1. opener \in [Proc -> Opener] /\ opener[p].next \in Nat /\ opener[p].next + n \in 1..12
    BY <1>0
  <1>2. opener'[p] = [opener[p] EXCEPT !.next = opener[p].next + n]
    BY <1>1
  <1>3. opener'[p] \in Opener
    BY <1>1, <1>2, ScriptTables DEF Opener
  <1>4. opener' \in [Proc -> Opener] /\ \A q \in Proc \ {p} : opener'[q] = opener[q]
    BY <1>1, <1>3
  <1> QED BY <1>1, <1>2, <1>4 DEF Opener

LEMMA CreateTableShape ==
  ASSUME SchemaTypes, NEW p \in Proc, CreateTable(p)
  PROVE  Advances(p) /\ OpenerStep(p)
  <1> DEFINE s == Statement(p)
             n == opener[p].next
  <1>1. /\ opener[p].at = "opening" /\ s \in Tables /\ n \in 1..12 /\ s = Script[n]
        /\ faults' = faults /\ crashes' = crashes /\ faults \in Nat /\ crashes \in Nat
    BY ScriptTables DEF CreateTable, Statement, SchemaTypes, Opener
  <1>2. n \in {1, 4, 9, 10} /\ n + 1 <= 12
    BY <1>1, ScriptTables
  <1>3. opener' = [opener EXCEPT ![p].next = @ + 1]
    BY DEF CreateTable, Step
  <1>4. /\ opener' \in [Proc -> Opener] /\ \A q \in Proc \ {p} : opener'[q] = opener[q]
        /\ opener'[p].at = opener[p].at /\ opener'[p].known = opener[p].known /\ opener'[p].next = n + 1
    BY <1>2, <1>3, NextStatement
  <1>5. OpenerStep(p)
    BY <1>1, <1>4 DEF OpenerStep
  <1> DEFINE f == IF s \in Seen(p).tables THEN Seen(p)
                  ELSE [Seen(p) EXCEPT !.tables = @ \union {s},
                          !.columns = IF s = "tasks" THEN @ \union {"compile_attempts"} ELSE @]
  <1>6. Seen(p) \in FileRec
    BY SeenType
  <1>7. Grown(Seen(p), f) /\ s \in f.tables
    <2>1. CASE s \in Seen(p).tables
      BY <1>6, <2>1, GrownSelf
    <2>2. CASE s \notin Seen(p).tables
      <3> DEFINE cs == IF s = "tasks" THEN {"compile_attempts"} ELSE {}
                 ts == {s}
                 g  == Seen(p)
      <3>1. cs \in SUBSET Columns /\ ts \in SUBSET Tables /\ s \in ts
        BY <1>1 DEF Columns
      <3>2. f = [g EXCEPT !.tables = @ \union ts,
                          !.columns = IF s = "tasks" THEN @ \union {"compile_attempts"} ELSE @]
        BY <2>2
      <3>3. (IF s = "tasks" THEN g.columns \union {"compile_attempts"} ELSE g.columns) = g.columns \union cs
        OBVIOUS
      <3>4. g \in FileRec
        BY <1>6
      <3> HIDE DEF f, g, s, cs, ts
      <3>5. f = [g EXCEPT !.tables = @ \union ts, !.columns = @ \union cs]
        BY <3>2, <3>3
      <3>6. Grown(g, f) /\ ts \subseteq f.tables
        BY <3>1, <3>4, <3>5, GrownBoth DEF WithBoth
      <3> QED BY <3>1, <3>6 DEF g
    <2> QED BY <2>1, <2>2
  <1>8. (Quiet /\ f = Seen(p)) \/ Puts(p, f)
    BY DEF CreateTable, Put, MayWrite, Quiet, Puts
  <1>9. DoneIn(n, f)
    BY <1>1, <1>2, <1>7, ScriptColumns, ScriptOthers DEF DoneIn
  <1> HIDE DEF f, s
  <1>10. \A i \in n..(opener'[p].next - 1) : DoneIn(i, f)
    BY <1>1, <1>4, <1>9
  <1>11. opener'[p].next >= n
    BY <1>1, <1>4
  <1> QED BY <1>1, <1>4, <1>5, <1>7, <1>8, <1>10, <1>11 DEF Advances, Grown

LEMMA ProbeShape ==
  ASSUME SchemaTypes, NEW p \in Proc, Probe(p)
  PROVE  Advances(p) /\ OpenerStep(p)
  <1> DEFINE n == opener[p].next
  <1>1. /\ opener[p].at = "opening" /\ n \in 1..12 /\ Script[n] = "probe" /\ opener \in [Proc -> Opener]
        /\ faults' = faults /\ crashes' = crashes /\ faults \in Nat /\ crashes \in Nat
        /\ opener' = [opener EXCEPT ![p].next = @ + 1, ![p].known = Seen(p).columns]
        /\ Quiet
    BY ScriptTables DEF Probe, At, Statement, SchemaTypes, Opener, Quiet
  <1>2. n = 2
    BY <1>1, ScriptOthers
  <1>3. Seen(p) \in FileRec
    BY SeenType
  <1>4. opener'[p] = [opener[p] EXCEPT !.next = 3, !.known = Seen(p).columns]
    BY <1>1, <1>2
  <1>5. opener'[p] \in Opener /\ opener'[p].at = "opening" /\ opener'[p].next = 3 /\ opener'[p].known = Seen(p).columns
    <2>1. Seen(p).columns \in SUBSET Columns /\ opener[p] \in Opener
      BY <1>1, <1>3 DEF FileRec
    <2>2. 3 \in 1..Len(Script)
      BY ScriptTables
    <2> QED BY <1>1, <1>4, <2>1, <2>2 DEF Opener
  <1>6. opener' \in [Proc -> Opener] /\ \A q \in Proc \ {p} : opener'[q] = opener[q]
    BY <1>1, <1>5
  <1>7. DoneIn(2, Seen(p))
    BY <1>2, ScriptTables, ScriptColumns, ScriptOthers DEF DoneIn
  <1>8. Grown(Seen(p), Seen(p))
    BY <1>3, GrownSelf
  <1>9. \A i \in n..(opener'[p].next - 1) : DoneIn(i, Seen(p))
    BY <1>2, <1>5, <1>7
  <1> QED BY <1>1, <1>2, <1>3, <1>5, <1>6, <1>8, <1>9 DEF Advances, OpenerStep, Grown

LEMMA PassColumnShape ==
  ASSUME SchemaTypes, Progress, NEW p \in Proc, PassColumn(p)
  PROVE  Advances(p) /\ OpenerStep(p)
  <1> DEFINE n == opener[p].next
             k == IF Statement(p) = "compiling_started_at" THEN 2 ELSE 1
  <1>1. /\ opener[p].at = "opening" /\ n \in 1..12 /\ Script[n] \in opener[p].known /\ Statement(p) = Script[n]
        /\ faults' = faults /\ crashes' = crashes /\ faults \in Nat /\ crashes \in Nat
        /\ opener' = [opener EXCEPT ![p].next = @ + k]
        /\ opener[p].known \subseteq Columns
        /\ Quiet
    BY ScriptTables DEF PassColumn, Step, Statement, SchemaTypes, Opener, Quiet
  <1>2. n \in {3, 5, 6, 7} /\ (k = 2 <=> n = 7) /\ k \in {1, 2} /\ n + k <= 12
    BY <1>1, ScriptColumns, ScriptOthers
  <1>3. Seen(p) \in FileRec /\ opener[p].known \subseteq Seen(p).columns
    BY <1>1, SeenType DEF Progress
  <1>4. /\ opener' \in [Proc -> Opener] /\ \A q \in Proc \ {p} : opener'[q] = opener[q]
        /\ opener'[p].at = opener[p].at /\ opener'[p].known = opener[p].known /\ opener'[p].next = n + k
    <2> HIDE DEF k
    <2> QED BY <1>1, <1>2, NextStatement
  <1>5. DoneIn(n, Seen(p)) /\ (n = 7 => DoneIn(8, Seen(p)))
    BY <1>1, <1>2, <1>3, ScriptTables, ScriptColumns, ScriptOthers DEF DoneIn
  <1>6. Grown(Seen(p), Seen(p))
    BY <1>3, GrownSelf
  <1> HIDE DEF k
  <1>7. \A i \in n..(opener'[p].next - 1) : DoneIn(i, Seen(p))
    BY <1>2, <1>4, <1>5
  <1>8. opener'[p].next >= n
    BY <1>1, <1>2, <1>4
  <1> QED BY <1>1, <1>3, <1>4, <1>6, <1>7, <1>8 DEF Advances, OpenerStep, Grown

LEMMA AddColumnShape ==
  ASSUME SchemaTypes, NEW p \in Proc, AddColumn(p)
  PROVE  Advances(p) /\ OpenerStep(p)
  <1> DEFINE n == opener[p].next
             f == [Seen(p) EXCEPT !.columns = @ \union {Statement(p)}]
  <1>1. /\ opener[p].at = "opening" /\ n \in 1..12 /\ Script[n] \in Columns /\ Statement(p) = Script[n]
        /\ faults' = faults /\ crashes' = crashes /\ faults \in Nat /\ crashes \in Nat
        /\ opener' = [opener EXCEPT ![p].next = @ + 1]
        /\ Puts(p, f)
    BY ScriptTables DEF AddColumn, Step, Statement, SchemaTypes, Opener, Puts, Put, MayWrite
  <1>2. n \in {3, 5, 6, 7} /\ n + 1 <= 12
    BY <1>1, ScriptColumns
  <1>3. Seen(p) \in FileRec
    BY SeenType
  <1>4. /\ opener' \in [Proc -> Opener] /\ \A q \in Proc \ {p} : opener'[q] = opener[q]
        /\ opener'[p].at = opener[p].at /\ opener'[p].known = opener[p].known /\ opener'[p].next = n + 1
    BY <1>1, <1>2, NextStatement
  <1>5. Grown(Seen(p), f) /\ Script[n] \in f.columns
    <2>1. {Statement(p)} \in SUBSET Columns
      BY <1>1
    <2>2. Grown(Seen(p), f) /\ {Statement(p)} \subseteq f.columns
      BY <1>3, <2>1, GrownColumns
    <2> QED BY <1>1, <2>2
  <1>6. DoneIn(n, f)
    BY <1>1, <1>2, <1>5, ScriptTables, ScriptOthers DEF DoneIn
  <1> HIDE DEF f
  <1>7. \A i \in n..(opener'[p].next - 1) : DoneIn(i, f)
    BY <1>2, <1>4, <1>6
  <1>8. opener'[p].next >= n
    BY <1>2, <1>4
  <1> QED BY <1>1, <1>4, <1>5, <1>7, <1>8 DEF Advances, OpenerStep, Grown

LEMMA BackfillShape ==
  ASSUME SchemaTypes, NEW p \in Proc, Backfill(p)
  PROVE  Advances(p) /\ OpenerStep(p)
  <1> DEFINE n == opener[p].next
             f == [Seen(p) EXCEPT !.lease = IF @ = "unstamped" THEN "stamped" ELSE @]
  <1>1. /\ opener[p].at = "opening" /\ n \in 1..12 /\ Script[n] = "backfill"
        /\ faults' = faults /\ crashes' = crashes /\ faults \in Nat /\ crashes \in Nat
        /\ opener' = [opener EXCEPT ![p].next = @ + 1]
        /\ writer \in {Nobody, p} /\ writer' = p /\ draft' = f /\ file' = file
    BY ScriptTables DEF Backfill, At, Step, Statement, SchemaTypes, Opener, MayWrite
  <1>2. n = 8 /\ n + 1 <= 12
    BY <1>1, ScriptOthers
  <1>3. Seen(p) \in FileRec
    BY SeenType
  <1>4. /\ opener' \in [Proc -> Opener] /\ \A q \in Proc \ {p} : opener'[q] = opener[q]
        /\ opener'[p].at = opener[p].at /\ opener'[p].known = opener[p].known /\ opener'[p].next = n + 1
    BY <1>1, <1>2, NextStatement
  <1>5. Grown(Seen(p), f)
    <2> DEFINE l == IF Seen(p).lease = "unstamped" THEN "stamped" ELSE Seen(p).lease
    <2>1. l \in Lease /\ f = [Seen(p) EXCEPT !.lease = l]
      BY <1>3 DEF FileRec, Lease
    <2> QED BY <1>3, <2>1, GrownLease
  <1>6. DoneIn(8, f)
    BY ScriptTables, ScriptColumns, ScriptOthers DEF DoneIn
  <1> HIDE DEF f
  <1>7. \A i \in n..(opener'[p].next - 1) : DoneIn(i, f)
    BY <1>2, <1>4, <1>6
  <1>8. opener'[p].next >= n /\ opener'[p].next > 8
    BY <1>2, <1>4
  <1> QED BY <1>1, <1>4, <1>5, <1>7, <1>8 DEF Advances, OpenerStep, Grown

LEMMA BumpVersionShape ==
  ASSUME SchemaTypes, NEW p \in Proc, BumpVersion(p)
  PROVE  Advances(p) /\ OpenerStep(p)
  <1> DEFINE n == opener[p].next
             f == IF Seen(p).version < SchemaVersion THEN [Seen(p) EXCEPT !.version = SchemaVersion] ELSE Seen(p)
  <1>1. /\ opener[p].at = "opening" /\ n \in 1..12 /\ Script[n] = "version"
        /\ faults' = faults /\ crashes' = crashes /\ faults \in Nat /\ crashes \in Nat
        /\ opener' = [opener EXCEPT ![p].next = @ + 1]
        /\ (Quiet /\ f = Seen(p)) \/ Puts(p, f)
    BY ScriptTables DEF BumpVersion, At, Step, Statement, SchemaTypes, Opener, Quiet, Puts, Put, MayWrite
  <1>2. n = 11 /\ n + 1 <= 12
    BY <1>1, ScriptOthers
  <1>3. Seen(p) \in FileRec
    BY SeenType
  <1>4. /\ opener' \in [Proc -> Opener] /\ \A q \in Proc \ {p} : opener'[q] = opener[q]
        /\ opener'[p].at = opener[p].at /\ opener'[p].known = opener[p].known /\ opener'[p].next = n + 1
    BY <1>1, <1>2, NextStatement
  <1>5. Grown(Seen(p), f) /\ f.version >= SchemaVersion
    <2>1. SchemaVersion \in Nat /\ Seen(p).version \in Nat
      BY <1>3 DEF FileRec, SchemaVersion
    <2>2. CASE Seen(p).version < SchemaVersion
      BY <1>3, <2>1, <2>2, GrownVersion
    <2>3. CASE ~ (Seen(p).version < SchemaVersion)
      BY <1>3, <2>1, <2>3, GrownSelf
    <2> QED BY <2>2, <2>3
  <1>6. DoneIn(11, f)
    BY <1>5, ScriptTables, ScriptColumns DEF DoneIn
  <1> HIDE DEF f
  <1>7. \A i \in n..(opener'[p].next - 1) : DoneIn(i, f)
    BY <1>2, <1>4, <1>6
  <1>8. opener'[p].next >= n
    BY <1>2, <1>4
  <1> QED BY <1>1, <1>4, <1>5, <1>7, <1>8 DEF Advances, OpenerStep, Grown

LEMMA RetryShape ==
  ASSUME SchemaTypes, NEW p \in Proc, opener[p].at = "opening", Retry(p)
  PROVE  /\ Restarts(p)
         /\ opener' \in [Proc -> Opener] /\ \A q \in Proc \ {p} : opener'[q] = opener[q]
  <1> DEFINE o == opener[p]
             again == [Closed EXCEPT !.at = "opening", !.attempt = opener[p].attempt + 1]
             over  == [o EXCEPT !.at = "raised"]
  <1>1. opener \in [Proc -> Opener] /\ o \in Opener /\ RollBack(p) /\ file' = file
    BY DEF SchemaTypes, Retry
  <1>2. opener' = [opener EXCEPT ![p] = IF o.attempt < Attempts THEN again ELSE over]
    BY DEF Retry
  <1>3. again = [at |-> "opening", next |-> 1, known |-> {}, attempt |-> o.attempt + 1]
    <2> DEFINE a == o.attempt + 1
    <2>1. again = [Closed EXCEPT !.at = "opening", !.attempt = a]
      OBVIOUS
    <2> HIDE DEF again, a
    <2>2. again.at = "opening" /\ again.next = 1 /\ again.known = {} /\ again.attempt = a
      BY <2>1 DEF Closed
    <2>3. again = [at |-> again.at, next |-> again.next, known |-> again.known, attempt |-> again.attempt]
      BY <2>1 DEF Closed
    <2>4. again = [at |-> "opening", next |-> 1, known |-> {}, attempt |-> a]
      BY <2>2, <2>3
    <2> QED BY <2>4 DEF a
  <1>4. 1 \in 1..Len(Script) /\ {} \in SUBSET Columns /\ Attempts \in Nat
    BY ScriptTables, SchemaAssumption
  <1>5. CASE o.attempt < Attempts
    <2>1. o.attempt + 1 \in 1..Attempts
      BY <1>1, <1>4, <1>5 DEF Opener
    <2>2. again \in Opener
      BY <1>3, <1>4, <2>1 DEF Opener
    <2>3. opener'[p] = again /\ opener' = [opener EXCEPT ![p] = again]
      BY <1>1, <1>2, <1>5
    <2> HIDE DEF again
    <2>4. opener' \in [Proc -> Opener] /\ \A q \in Proc \ {p} : opener'[q] = opener[q]
      BY <1>1, <2>2, <2>3
    <2>5. opener'[p].at = "opening" /\ opener'[p].next = 1 /\ opener'[p].known = {}
      BY <1>3, <2>3
    <2> QED BY <1>1, <2>4, <2>5 DEF Restarts
  <1>6. CASE ~ (o.attempt < Attempts)
    <2>1. over \in Opener /\ over.at = "raised"
      BY <1>1 DEF Opener
    <2>2. opener'[p] = over /\ opener' = [opener EXCEPT ![p] = over]
      BY <1>1, <1>2, <1>6
    <2> HIDE DEF over
    <2>3. opener' \in [Proc -> Opener] /\ \A q \in Proc \ {p} : opener'[q] = opener[q]
      BY <1>1, <2>1, <2>2
    <2> QED BY <1>1, <2>1, <2>2, <2>3 DEF Restarts
  <1> QED BY <1>5, <1>6

LEMMA OpenShape ==
  ASSUME SchemaTypes, Lock, NEW p \in Proc, Open(p)
  PROVE  Restarts(p) /\ OpenerStep(p)
  <1> DEFINE first == [Closed EXCEPT !.at = "opening"]
  <1>1. /\ opener \in [Proc -> Opener] /\ opener[p].at = "closed"
        /\ opener' = [opener EXCEPT ![p] = first]
        /\ UNCHANGED <<file, draft, writer, faults, crashes>>
        /\ faults \in Nat /\ crashes \in Nat
    BY DEF Open, SchemaTypes
  <1>2. first = [at |-> "opening", next |-> 1, known |-> {}, attempt |-> 1]
    BY DEF Closed
  <1>3. first \in Opener
    <2>1. 1 \in 1..Len(Script) /\ {} \in SUBSET Columns /\ 1 \in 1..Attempts
      BY ScriptTables, SchemaAssumption
    <2> QED BY <1>2, <2>1 DEF Opener
  <1> HIDE DEF first
  <1>4. opener' \in [Proc -> Opener] /\ \A q \in Proc \ {p} : opener'[q] = opener[q]
    BY <1>1, <1>3
  <1>5. opener'[p].at = "opening" /\ opener'[p].next = 1 /\ opener'[p].known = {}
    BY <1>1, <1>2
  <1>6. writer # p
    BY <1>1 DEF Lock
  <1> QED BY <1>1, <1>4, <1>5, <1>6 DEF Restarts, RollBack, OpenerStep

LEMMA CollideShape ==
  ASSUME SchemaTypes, NEW p \in Proc, Collide(p) \/ OpenFault(p)
  PROVE  Restarts(p) /\ OpenerStep(p)
  <1>1. opener[p].at = "opening" /\ Retry(p) /\ crashes' = crashes
    BY DEF Collide, OpenFault
  <1>2. faults' \in Nat /\ faults' <= faults /\ crashes \in Nat
    BY DEF Collide, OpenFault, SchemaTypes
  <1> QED BY <1>1, <1>2, RetryShape DEF OpenerStep

LEMMA CommitShape ==
  ASSUME SchemaTypes, NEW p \in Proc, Commit(p)
  PROVE  Ends(p) /\ OpenerStep(p)
  <1> DEFINE o == [opener[p] EXCEPT !.at = "open"]
  <1>1. /\ opener \in [Proc -> Opener] /\ opener[p] \in Opener /\ opener' = [opener EXCEPT ![p] = o]
        /\ faults' = faults /\ crashes' = crashes /\ faults \in Nat /\ crashes \in Nat
    BY DEF Commit, SchemaTypes
  <1>2. o \in Opener /\ o.at = "open"
    BY <1>1 DEF Opener
  <1> HIDE DEF o
  <1>3. opener' \in [Proc -> Opener] /\ \A q \in Proc \ {p} : opener'[q] = opener[q]
    BY <1>1, <1>2
  <1>4. opener'[p].at = "open"
    BY <1>1, <1>2
  <1> QED BY <1>1, <1>3, <1>4 DEF Ends, OpenerStep, Commit

LEMMA ReclaimShape ==
  ASSUME SchemaTypes, NEW p \in Proc, Reclaim(p)
  PROVE  Reclaims(p) /\ OpenerStep(p)
  <1> DEFINE f == [file EXCEPT !.lease = "no compile"]
  <1>1. /\ opener[p].at = "open" /\ opener' = opener /\ writer = Nobody /\ writer' = writer
        /\ file' = f /\ draft' = file'
        /\ opener \in [Proc -> Opener] /\ file \in FileRec
        /\ faults' = faults /\ crashes' = crashes /\ faults \in Nat /\ crashes \in Nat
    BY DEF Reclaim, SchemaTypes
  <1>2. Grown(file, f)
    BY <1>1, GrownLease DEF Lease
  <1>3. f \in FileRec
    BY <1>2 DEF Grown
  <1> HIDE DEF f
  <1>4. Reclaims(p)
    BY <1>1, <1>2, <1>3 DEF Reclaims
  <1>5. OpenerStep(p)
    BY <1>1 DEF OpenerStep
  <1> QED BY <1>4, <1>5

LEMMA SchemaShapes ==
  ASSUME SchemaTypes, Lock, Progress, NEW p \in Proc, SchemaStep(p)
  PROVE  SchemaShape(p) /\ OpenerStep(p)
  BY OpenShape, CreateTableShape, ProbeShape, PassColumnShape, AddColumnShape, CollideShape, BackfillShape,
     BumpVersionShape, CommitShape, ReclaimShape DEF SchemaStep, SchemaShape

-----------------------------------------------------------------------------
(* The steps of a thread, by what they change. *)

\* The thread holds the write lock.
Holds(t) == Live(t) /\ txn[t].at \in {"read", "write", "commit"}

\* It is outside of its write transaction before and after.
Outside(t) == Quiet /\ ~ Holds(t) /\ ~ Holds(t)'

ReadsRow(t) ==
  Quiet /\ Holds(t) /\ Holds(t)' /\ txn[t].at = "read" /\ txn'[t].at = "write" /\ txn'[t].seen = Seen(t).epoch

RollsBack(t) == RollBack(t) /\ file' = file /\ ~ Holds(t)'

Begins(t) ==
  /\ writer \in {Nobody, t} /\ ~ Holds(t) /\ Holds(t)' /\ txn'[t].at = "read"
  /\ writer' = t /\ draft' = file /\ file' = file

WritesRow(t) ==
  /\ Holds(t) /\ Holds(t)' /\ txn[t].at = "write" /\ txn'[t].at = "commit"
  /\ writer' = t /\ file' = file
  /\ \E f \in FileRec :
       /\ draft' = f /\ Below(Seen(t), f)
       /\ f.epoch = txn[t].seen + 1 /\ f.config \in {Seen(t).config, txn[t].seen + 1}
       /\ f.log = Append(Seen(t).log, txn[t].seen + 1)

CommitsRow(t) ==
  /\ Holds(t) /\ ~ Holds(t)' /\ txn[t].at = "commit" /\ txn'[t].at = "note"
  /\ file' = draft /\ draft' = draft /\ writer' = Nobody

Prunes(t) ==
  /\ writer = Nobody /\ writer' = Nobody /\ ~ Holds(t)'
  /\ txn[t].at = "prune" /\ txn'[t].at = "idle"
  /\ \E f \in FileRec : /\ file' = f /\ draft' = f
                        /\ Below(file, f) /\ f.epoch = file.epoch /\ f.config = file.config
                        /\ f.log = SubSeq(file.log, IF Len(file.log) > Cap THEN Len(file.log) - Cap + 1 ELSE 1,
                                          Len(file.log))

ThreadShape(t) ==
  \/ Outside(t) \/ ReadsRow(t) \/ RollsBack(t) \/ Begins(t) \/ WritesRow(t) \/ CommitsRow(t) \/ Prunes(t)

\* Only t's connection and transaction change.
ThreadOnly(t) ==
  /\ opener' = opener /\ crashes' = crashes /\ faults' \in Nat /\ faults' <= faults
  /\ closing' = closing /\ world' = world /\ clock' \in [Proc -> Nat] /\ begun' \in Nat
  /\ conn' \in [Thread -> {"none", "unregistered", "open", "listed", "closed"}]
  /\ txn' \in [Thread -> TxnRec]
  /\ \A u \in Thread \ {t} : conn'[u] = conn[u] /\ txn'[u] = txn[u]
  /\ conn'[t] \in {"none", "unregistered"} => txn'[t].at = "idle"
  /\ txn'[t].at = "reading" => txn'[t].snap # <<>>
  /\ conn'[t] = "open" => conn[t] = "open" \/ closing[ProcOf[t]] = "no"
  /\ conn'[t] = "listed" => conn[t] = "listed"

\* What the report a thread has been given looks like from outside.
GotOf(t) == CASE txn[t].at = "reading"  -> <<txn[t].seen, txn[t].snap[1]>>
              [] txn[t].at = "reported" -> <<txn[t].seen, txn[t].config>>
              [] OTHER -> <<>>

\* A step takes a report, keeps it, or ends it.
ReportStep(t) ==
  \/ GotOf(t)' = GotOf(t)
  \/ GotOf(t)' = <<>>
  \/ Quiet /\ GotOf(t)' = <<file.epoch, file.config>>

LEMMA IdleType == Idle \in TxnRec /\ Idle.at = "idle"
  <1>1. 1 \in 1..Attempts /\ <<>> \in Seq(Nat)
    BY SchemaAssumption
  <1> QED BY <1>1 DEF Idle, TxnRec, Places

LEMMA TxnPut ==
  ASSUME StoreTypes, NEW t \in Thread, NEW r \in TxnRec, txn' = [txn EXCEPT ![t] = r]
  PROVE  /\ txn' \in [Thread -> TxnRec] /\ txn'[t] = r
         /\ \A u \in Thread \ {t} : txn'[u] = txn[u]
  BY DEF StoreTypes

LEMMA ConnPut ==
  ASSUME StoreTypes, NEW t \in Thread, NEW c \in {"none", "unregistered", "open", "listed", "closed"},
         conn' = [conn EXCEPT ![t] = c]
  PROVE  /\ conn' \in [Thread -> {"none", "unregistered", "open", "listed", "closed"}] /\ conn'[t] = c
         /\ \A u \in Thread \ {t} : conn'[u] = conn[u]
  BY DEF StoreTypes

LEMMA TxnGoto ==
  ASSUME StoreTypes, NEW t \in Thread, NEW a \in Places, Goto(t, a)
  PROVE  /\ txn' \in [Thread -> TxnRec]
         /\ \A u \in Thread \ {t} : txn'[u] = txn[u]
         /\ txn'[t].at = a /\ txn'[t].seen = txn[t].seen /\ txn'[t].config = txn[t].config
         /\ txn'[t].snap = txn[t].snap /\ txn'[t].attempt = txn[t].attempt
  <1> DEFINE r == [txn[t] EXCEPT !.at = a]
  <1>1. txn \in [Thread -> TxnRec] /\ txn[t] \in TxnRec /\ txn' = [txn EXCEPT ![t] = r]
    BY DEF Goto, StoreTypes
  <1>2. /\ r \in TxnRec /\ r.at = a /\ r.seen = txn[t].seen /\ r.config = txn[t].config
        /\ r.snap = txn[t].snap /\ r.attempt = txn[t].attempt
    BY <1>1 DEF TxnRec
  <1> HIDE DEF r
  <1> QED BY <1>1, <1>2, TxnPut

LEMMA GotNone ==
  ASSUME NEW t, txn[t].at \notin {"reading", "reported"}
  PROVE  GotOf(t) = <<>>
  BY DEF GotOf

LEMMA GotSame ==
  ASSUME NEW t, txn'[t] = txn[t]
  PROVE  GotOf(t)' = GotOf(t)
  BY DEF GotOf

LEMMA GotNext ==
  ASSUME NEW t, txn'[t].at \notin {"reading", "reported"}
  PROVE  GotOf(t)' = <<>>
  BY DEF GotOf

LEMMA ConnectShape ==
  ASSUME Types, Lock, NEW t \in Thread, Connect(t) \/ Register(t)
  PROVE  Outside(t) /\ ThreadOnly(t) /\ GotOf(t)' = GotOf(t)
  <1> DEFINE c == IF conn[t] = "none" THEN "unregistered" ELSE IF closing[ProcOf[t]] = "no" THEN "open" ELSE "none"
  <1>1. conn[t] \in {"none", "unregistered"} /\ conn' = [conn EXCEPT ![t] = c]
    BY DEF Connect, Register
  <1>2. /\ UNCHANGED <<file, draft, writer, opener, faults, crashes, closing, txn, clock, world, begun>>
        /\ faults \in Nat /\ clock \in [Proc -> Nat] /\ begun \in Nat /\ txn \in [Thread -> TxnRec]
    BY DEF Connect, Register, schema, Types, SchemaTypes, StoreTypes
  <1>3. c \in {"none", "unregistered", "open"} /\ (c = "open" => closing[ProcOf[t]] = "no")
    OBVIOUS
  <1> HIDE DEF c
  <1>4. /\ conn' \in [Thread -> {"none", "unregistered", "open", "listed", "closed"}] /\ conn'[t] = c
        /\ \A u \in Thread \ {t} : conn'[u] = conn[u]
    BY <1>1, <1>3, ConnPut DEF Types
  <1>5. txn[t].at = "idle" /\ txn'[t].at = "idle"
    BY <1>1, <1>2 DEF Lock
  <1>6. Outside(t)
    BY <1>2, <1>5 DEF Outside, Quiet, Holds
  <1>7. ThreadOnly(t)
    BY <1>2, <1>3, <1>4, <1>5 DEF ThreadOnly
  <1> QED BY <1>2, <1>6, <1>7, GotSame

LEMMA CloseOneShape ==
  ASSUME Types, Lock, NEW t \in Thread, CloseOne(t)
  PROVE  RollsBack(t) /\ ThreadOnly(t) /\ GotOf(t)' = GotOf(t)
  <1>1. /\ conn[t] = "listed" /\ conn' = [conn EXCEPT ![t] = "closed"] /\ RollBack(t)
        /\ UNCHANGED <<file, opener, faults, crashes, closing, txn, clock, world, begun>>
        /\ faults \in Nat /\ clock \in [Proc -> Nat] /\ begun \in Nat /\ txn \in [Thread -> TxnRec]
        /\ \A u \in Thread : txn[u].at = "reading" => txn[u].snap # <<>>
    BY DEF CloseOne, Types, SchemaTypes, StoreTypes
  <1>2. /\ conn' \in [Thread -> {"none", "unregistered", "open", "listed", "closed"}] /\ conn'[t] = "closed"
        /\ \A u \in Thread \ {t} : conn'[u] = conn[u]
    BY <1>1, ConnPut DEF Types
  <1>3. RollsBack(t)
    BY <1>1, <1>2 DEF RollsBack, Holds, Live
  <1>4. ThreadOnly(t)
    BY <1>1, <1>2 DEF ThreadOnly
  <1> QED BY <1>1, <1>3, <1>4, GotSame

\* The steps that change nothing but t's transaction, the clock and the count.
Inside(t) ==
  /\ UNCHANGED <<opener, crashes, conn, closing, world>>
  /\ faults' \in Nat /\ faults' <= faults /\ clock' \in [Proc -> Nat] /\ begun' \in Nat

LEMMA InsideOnly ==
  ASSUME Types, NEW t \in Thread, Inside(t),
         conn[t] \notin {"none", "unregistered"} \/ txn'[t].at = "idle",
         txn' \in [Thread -> TxnRec], \A u \in Thread \ {t} : txn'[u] = txn[u],
         txn'[t].at = "reading" => txn'[t].snap # <<>>
  PROVE  ThreadOnly(t)
  BY DEF Types, StoreTypes, Inside, ThreadOnly

LEMMA BeginWriteShape ==
  ASSUME Types, Lock, NEW t \in Thread, BeginWrite(t)
  PROVE  Outside(t) /\ ThreadOnly(t) /\ GotOf(t)' = GotOf(t)
  <1>1. txn[t].at = "idle" /\ Live(t) /\ Goto(t, "begin") /\ Inside(t) /\ Quiet
    BY DEF BeginWrite, In, schema, Types, SchemaTypes, StoreTypes, Inside, Quiet
  <1>2. txn' \in [Thread -> TxnRec] /\ (\A u \in Thread \ {t} : txn'[u] = txn[u]) /\ txn'[t].at = "begin"
    BY <1>1, TxnGoto DEF Types, Places
  <1>3. ThreadOnly(t)
    BY <1>1, <1>2, InsideOnly DEF Live
  <1>4. Outside(t)
    BY <1>1, <1>2 DEF Outside, Holds
  <1> QED BY <1>1, <1>2, <1>3, <1>4, GotNone, GotNext

LEMMA BeginImmediateShape ==
  ASSUME Types, Lock, NEW t \in Thread, BeginImmediate(t)
  PROVE  Begins(t) /\ ThreadOnly(t) /\ GotOf(t)' = GotOf(t)
  <1>1. /\ txn[t].at = "begin" /\ Live(t) /\ Goto(t, "read") /\ Inside(t)
        /\ writer \in {Nobody, t} /\ writer' = t /\ draft' = file /\ file' = file /\ conn' = conn
    BY DEF BeginImmediate, MayWrite, In, schema, Types, SchemaTypes, StoreTypes, Inside
  <1>2. txn' \in [Thread -> TxnRec] /\ (\A u \in Thread \ {t} : txn'[u] = txn[u]) /\ txn'[t].at = "read"
    BY <1>1, TxnGoto DEF Types, Places
  <1>3. ThreadOnly(t)
    BY <1>1, <1>2, InsideOnly DEF Live
  <1>4. ~ Holds(t) /\ Holds(t)'
    BY <1>1, <1>2 DEF Holds, Live
  <1> QED BY <1>1, <1>2, <1>3, <1>4, GotNone, GotNext DEF Begins

LEMMA ReadRowShape ==
  ASSUME Types, Lock, NEW t \in Thread, ReadRow(t)
  PROVE  ReadsRow(t) /\ ThreadOnly(t) /\ GotOf(t)' = GotOf(t)
  <1> DEFINE e == Seen(t).epoch
             r == [txn[t] EXCEPT !.at = "write", !.seen = e]
  <1>1. /\ txn[t].at = "read" /\ Live(t) /\ Inside(t) /\ Quiet /\ conn' = conn
        /\ txn' = [txn EXCEPT ![t].at = "write", ![t].seen = e]
        /\ txn \in [Thread -> TxnRec] /\ txn[t] \in TxnRec
    BY DEF ReadRow, In, schema, Types, SchemaTypes, StoreTypes, Inside, Quiet
  <1>2. e \in Nat
    BY SeenType DEF FileRec, Types
  <1>3. txn' = [txn EXCEPT ![t] = r]
    BY <1>1
  <1>4. r \in TxnRec /\ r.at = "write" /\ r.seen = e
    BY <1>1, <1>2 DEF TxnRec, Places
  <1> HIDE DEF r
  <1>5. txn' \in [Thread -> TxnRec] /\ (\A u \in Thread \ {t} : txn'[u] = txn[u]) /\ txn'[t] = r
    BY <1>3, <1>4, TxnPut DEF Types
  <1>6. ThreadOnly(t)
    BY <1>1, <1>4, <1>5, InsideOnly DEF Live
  <1>7. Holds(t) /\ Holds(t)'
    BY <1>1, <1>4, <1>5 DEF Holds, Live
  <1> QED BY <1>1, <1>4, <1>5, <1>6, <1>7, GotNone, GotNext DEF ReadsRow

LEMMA WriteRowShape ==
  ASSUME Types, Lock, NEW t \in Thread, WriteRow(t)
  PROVE  WritesRow(t) /\ ThreadOnly(t) /\ GotOf(t)' = GotOf(t)
  <1> DEFINE e == txn[t].seen + 1
             s == Seen(t)
  <1>1. /\ txn[t].at = "write" /\ Live(t) /\ Goto(t, "commit") /\ Inside(t)
        /\ writer' = t /\ file' = file /\ conn' = conn
    BY DEF WriteRow, In, schema, Types, SchemaTypes, StoreTypes, Inside
  <1>2. PICK c \in {s.config, e} : draft' = [s EXCEPT !.epoch = e, !.config = c, !.log = Append(@, e)]
    BY DEF WriteRow
  <1>3. s \in FileRec /\ e \in Nat
    BY SeenType DEF Types, StoreTypes, TxnRec
  <1>4. c \in Nat
    BY <1>2, <1>3 DEF FileRec
  <1> DEFINE f == draft'
  <1>5. /\ f.epoch = e /\ f.config = c /\ f.log = Append(s.log, e)
        /\ f.tables = s.tables /\ f.columns = s.columns /\ f.version = s.version /\ f.lease = s.lease
    <2> HIDE DEF s, e
    <2> QED BY <1>2, <1>3 DEF FileRec
  <1>6. f = [tables |-> f.tables, columns |-> f.columns, version |-> f.version, lease |-> f.lease,
             epoch |-> f.epoch, config |-> f.config, log |-> f.log]
    <2> HIDE DEF s, e
    <2> QED BY <1>2, <1>3 DEF FileRec
  <1>7. Append(s.log, e) \in Seq(Nat)
    BY <1>3, AppendProperties DEF FileRec
  <1> HIDE DEF s, e
  <1>8. f \in FileRec
    <2>1. /\ f.tables \in SUBSET Tables /\ f.columns \in SUBSET Columns /\ f.version \in Nat
          /\ f.lease \in Lease /\ f.epoch \in Nat /\ f.config \in Nat /\ f.log \in Seq(Nat)
      BY <1>3, <1>4, <1>5, <1>7 DEF FileRec
    <2> QED BY <1>6, <2>1 DEF FileRec
  <1>9. Below(s, f)
    BY <1>3, <1>5 DEF Below, FileRec
  <1>10. txn' \in [Thread -> TxnRec] /\ (\A u \in Thread \ {t} : txn'[u] = txn[u]) /\ txn'[t].at = "commit"
    BY <1>1, TxnGoto DEF Types, Places
  <1>11. ThreadOnly(t)
    BY <1>1, <1>10, InsideOnly DEF Live
  <1>12. Holds(t) /\ Holds(t)'
    BY <1>1, <1>10 DEF Holds, Live
  <1>13. WritesRow(t)
    BY <1>1, <1>2, <1>5, <1>8, <1>9, <1>10, <1>12 DEF WritesRow, s, e
  <1> QED BY <1>1, <1>10, <1>11, <1>13, GotNone, GotNext

LEMMA CommitRowShape ==
  ASSUME Types, Lock, NEW t \in Thread, CommitRow(t)
  PROVE  CommitsRow(t) /\ ThreadOnly(t) /\ GotOf(t)' = GotOf(t)
  <1>1. /\ txn[t].at = "commit" /\ Live(t) /\ Goto(t, "note") /\ Inside(t)
        /\ file' = draft /\ draft' = draft /\ writer' = Nobody
    BY DEF CommitRow, In, Types, SchemaTypes, StoreTypes, Inside
  <1>2. txn' \in [Thread -> TxnRec] /\ (\A u \in Thread \ {t} : txn'[u] = txn[u]) /\ txn'[t].at = "note"
    BY <1>1, TxnGoto DEF Types, Places
  <1>3. ThreadOnly(t)
    BY <1>1, <1>2, InsideOnly DEF Live
  <1>4. Holds(t) /\ ~ Holds(t)'
    BY <1>1, <1>2 DEF Holds, Live
  <1> QED BY <1>1, <1>2, <1>3, <1>4, GotNone, GotNext DEF CommitsRow

LEMMA NoteWriteShape ==
  ASSUME Types, Lock, NEW t \in Thread, NoteWrite(t)
  PROVE  Outside(t) /\ ThreadOnly(t) /\ GotOf(t)' = GotOf(t)
  <1> DEFINE n == clock[ProcOf[t]] + 1
             r == [txn[t] EXCEPT !.at = "prune", !.attempt = 1]
  <1>1. /\ txn[t].at = "note" /\ Quiet /\ clock' = [clock EXCEPT ![ProcOf[t]] = n]
        /\ UNCHANGED <<opener, faults, crashes, conn, closing, world, begun>>
        /\ txn \in [Thread -> TxnRec] /\ txn[t] \in TxnRec /\ faults \in Nat /\ begun \in Nat
        /\ clock \in [Proc -> Nat] /\ ProcOf[t] \in Proc
    BY StoreAssumption DEF NoteWrite, schema, Types, SchemaTypes, StoreTypes, Quiet
  <1>2. n \in Nat /\ clock' \in [Proc -> Nat]
    BY <1>1
  <1>3. r \in TxnRec /\ r.at = "prune"
    <2>1. 1 \in 1..Attempts
      BY SchemaAssumption
    <2> QED BY <1>1, <2>1 DEF TxnRec, Places
  <1>4. \E q \in TxnRec : txn' = [txn EXCEPT ![t] = q] /\ q.at \in {"prune", "idle"}
    <2>1. CASE n % Interval = 0
      <3>1. txn' = [txn EXCEPT ![t] = r]
        BY <1>1, <2>1 DEF NoteWrite
      <3> HIDE DEF r
      <3> QED BY <1>3, <3>1
    <2>2. CASE n % Interval # 0
      <3>1. txn' = [txn EXCEPT ![t] = Idle]
        BY <2>2 DEF NoteWrite
      <3> QED BY <3>1, IdleType
    <2> QED BY <2>1, <2>2
  <1> HIDE DEF n, r
  <1>5. txn' \in [Thread -> TxnRec] /\ (\A u \in Thread \ {t} : txn'[u] = txn[u]) /\ txn'[t].at \in {"prune", "idle"}
    BY <1>4, TxnPut DEF Types
  <1>6. conn[t] \notin {"none", "unregistered"}
    BY <1>1 DEF Lock
  <1>7. Inside(t)
    BY <1>1, <1>2 DEF Inside
  <1>8. ThreadOnly(t)
    BY <1>5, <1>6, <1>7, InsideOnly
  <1>9. Outside(t)
    BY <1>1, <1>5 DEF Outside, Holds
  <1> QED BY <1>1, <1>5, <1>8, <1>9, GotNone, GotNext

LEMMA PruneShape ==
  ASSUME Types, Lock, NEW t \in Thread, Prune(t)
  PROVE  Prunes(t) /\ ThreadOnly(t) /\ GotOf(t)' = GotOf(t)
  <1> DEFINE k == IF Len(file.log) > Cap THEN Len(file.log) - Cap + 1 ELSE 1
             l == SubSeq(file.log, k, Len(file.log))
             f == [file EXCEPT !.log = l]
  <1>1. /\ txn[t].at = "prune" /\ Live(t) /\ writer = Nobody /\ writer' = Nobody /\ draft' = file'
        /\ txn' = [txn EXCEPT ![t] = Idle] /\ file' = f /\ Inside(t) /\ file \in FileRec
    BY DEF Prune, In, Types, SchemaTypes, StoreTypes, Inside
  <1>2. file.log \in Seq(Nat) /\ Len(file.log) \in Nat /\ Cap \in Nat \ {0}
    BY <1>1, LenProperties, StoreAssumption DEF FileRec
  <1>3. k \in Nat /\ k >= 1 /\ k <= Len(file.log) + 1
    BY <1>2
  <1>4. l \in Seq(Nat)
    <2> HIDE DEF k
    <2> QED BY <1>2, <1>3, SubSeqProperties
  <1> HIDE DEF l
  <1>5. f \in FileRec /\ Below(file, f) /\ f.epoch = file.epoch /\ f.config = file.config /\ f.log = l
    <2>1. /\ f.tables = file.tables /\ f.columns = file.columns /\ f.version = file.version
          /\ f.lease = file.lease /\ f.epoch = file.epoch /\ f.config = file.config /\ f.log = l
      BY <1>1 DEF FileRec
    <2>2. f = [tables |-> file.tables, columns |-> file.columns, version |-> file.version,
               lease |-> file.lease, epoch |-> file.epoch, config |-> file.config, log |-> l]
      BY <1>1 DEF FileRec
    <2>3. f \in FileRec
      BY <1>1, <1>4, <2>2 DEF FileRec
    <2>4. Below(file, f)
      BY <1>1, <2>1 DEF FileRec, Below
    <2> QED BY <2>1, <2>3, <2>4
  <1>6. txn' \in [Thread -> TxnRec] /\ (\A u \in Thread \ {t} : txn'[u] = txn[u]) /\ txn'[t].at = "idle"
    BY <1>1, TxnPut, IdleType DEF Types
  <1>7. ThreadOnly(t)
    BY <1>1, <1>6, InsideOnly DEF Live
  <1>8. ~ Holds(t)'
    BY <1>6 DEF Holds
  <1>9. Prunes(t)
    BY <1>1, <1>5, <1>6, <1>8 DEF Prunes, l
  <1> QED BY <1>1, <1>6, <1>7, <1>9, GotNone, GotNext

LEMMA ReadTaskShape ==
  ASSUME Types, Lock, NEW t \in Thread, ReadTask(t)
  PROVE  Outside(t) /\ ThreadOnly(t) /\ GotOf(t)' = <<file.epoch, file.config>>
  <1> DEFINE e == file.epoch
             s == <<file.config>>
             r == [txn[t] EXCEPT !.at = "reading", !.seen = e, !.snap = s]
  <1>1. /\ txn[t].at = "idle" /\ Live(t) /\ Quiet /\ Inside(t) /\ conn' = conn
        /\ txn' = [txn EXCEPT ![t] = r]
        /\ txn \in [Thread -> TxnRec] /\ txn[t] \in TxnRec /\ file \in FileRec
    BY DEF ReadTask, In, schema, Types, SchemaTypes, StoreTypes, Quiet, Inside
  <1>2. e \in Nat /\ s \in Seq(Nat) /\ s # <<>> /\ s[1] = file.config
    BY <1>1 DEF FileRec
  <1> HIDE DEF e, s
  <1>3. r.at = "reading" /\ r.seen = e /\ r.snap = s /\ r.config = txn[t].config /\ r.attempt = txn[t].attempt
    BY <1>1 DEF TxnRec
  <1>4. r = [txn[t] EXCEPT !.at = "reading", !.seen = e, !.snap = s]
    OBVIOUS
  <1>5. r \in TxnRec
    <2> HIDE DEF r
    <2>1. r = [at |-> r.at, seen |-> r.seen, config |-> r.config, snap |-> r.snap, attempt |-> r.attempt]
      BY <1>1, <1>4 DEF TxnRec
    <2>2. /\ r.at \in Places /\ r.seen \in Nat /\ r.config \in Nat /\ r.snap \in Seq(Nat)
          /\ r.attempt \in 1..Attempts
      BY <1>1, <1>2, <1>3 DEF TxnRec, Places
    <2> QED BY <2>1, <2>2 DEF TxnRec
  <1> HIDE DEF r
  <1>6. txn' \in [Thread -> TxnRec] /\ (\A u \in Thread \ {t} : txn'[u] = txn[u]) /\ txn'[t] = r
    BY <1>1, <1>5, TxnPut DEF Types
  <1>7. ThreadOnly(t)
    BY <1>1, <1>2, <1>3, <1>6, InsideOnly DEF Live
  <1>8. Outside(t)
    BY <1>1, <1>3, <1>6 DEF Outside, Holds
  <1>9. GotOf(t)' = <<e, s[1]>>
    BY <1>3, <1>6 DEF GotOf
  <1> QED BY <1>2, <1>7, <1>8, <1>9 DEF e

LEMMA ReadConfigShape ==
  ASSUME Types, Lock, NEW t \in Thread, ReadConfig(t)
  PROVE  Outside(t) /\ ThreadOnly(t) /\ GotOf(t)' = GotOf(t)
  <1> DEFINE c == txn[t].snap[1]
             r == [txn[t] EXCEPT !.at = "reported", !.config = c, !.snap = <<>>]
  <1>1. /\ txn[t].at = "reading" /\ Live(t) /\ Quiet /\ Inside(t) /\ conn' = conn
        /\ txn' = [txn EXCEPT ![t] = r]
        /\ txn \in [Thread -> TxnRec] /\ txn[t] \in TxnRec
        /\ txn[t].snap # <<>>
    BY DEF ReadConfig, In, schema, Types, SchemaTypes, StoreTypes, Quiet, Inside
  <1>2. c \in Nat
    <2>1. txn[t].snap \in Seq(Nat) /\ txn[t].snap # <<>>
      BY <1>1 DEF TxnRec
    <2> QED BY <2>1, ElementOfSeq, EmptySeq, LenProperties
  <1> HIDE DEF c
  <1>3. /\ r.at = "reported" /\ r.seen = txn[t].seen /\ r.snap = <<>> /\ r.config = c
        /\ r.attempt = txn[t].attempt
    BY <1>1 DEF TxnRec
  <1>4. r = [txn[t] EXCEPT !.at = "reported", !.config = c, !.snap = <<>>]
    OBVIOUS
  <1>5. r \in TxnRec
    <2> HIDE DEF r
    <2>1. r = [at |-> r.at, seen |-> r.seen, config |-> r.config, snap |-> r.snap, attempt |-> r.attempt]
      BY <1>1, <1>4 DEF TxnRec
    <2>2. /\ r.at \in Places /\ r.seen \in Nat /\ r.config \in Nat /\ r.snap \in Seq(Nat)
          /\ r.attempt \in 1..Attempts
      BY <1>1, <1>2, <1>3 DEF TxnRec, Places
    <2> QED BY <2>1, <2>2 DEF TxnRec
  <1> HIDE DEF r
  <1>6. txn' \in [Thread -> TxnRec] /\ (\A u \in Thread \ {t} : txn'[u] = txn[u]) /\ txn'[t] = r
    BY <1>1, <1>5, TxnPut DEF Types
  <1>7. ThreadOnly(t)
    BY <1>1, <1>3, <1>6, InsideOnly DEF Live
  <1>8. Outside(t)
    BY <1>1, <1>3, <1>6 DEF Outside, Holds
  <1>9. GotOf(t) = <<txn[t].seen, c>>
    BY <1>1 DEF GotOf, c
  <1>10. GotOf(t)' = <<txn[t].seen, c>>
    BY <1>3, <1>6 DEF GotOf
  <1> QED BY <1>7, <1>8, <1>9, <1>10

LEMMA EndReportShape ==
  ASSUME Types, Lock, NEW t \in Thread, EndReport(t) \/ UseAfterClose(t)
  PROVE  Outside(t) /\ ThreadOnly(t) /\ GotOf(t)' = <<>>
  <1>1. /\ txn[t].at = "reported" \/ conn[t] = "closed"
        /\ Quiet /\ Inside(t) /\ conn' = conn
        /\ txn' = [txn EXCEPT ![t] = Idle]
    BY DEF EndReport, UseAfterClose, schema, Types, SchemaTypes, StoreTypes, Quiet, Inside
  <1>2. txn' \in [Thread -> TxnRec] /\ (\A u \in Thread \ {t} : txn'[u] = txn[u]) /\ txn'[t].at = "idle"
    BY <1>1, TxnPut, IdleType DEF Types
  <1>3. ThreadOnly(t)
    BY <1>1, <1>2, InsideOnly
  <1>4. Outside(t)
    BY <1>1, <1>2 DEF Outside, Holds, Live
  <1> QED BY <1>2, <1>3, <1>4, GotNext

LEMMA AgainType ==
  ASSUME NEW x \in TxnRec, x.attempt # Attempts
  PROVE  /\ Again(x) \in TxnRec /\ Again(x).at \in {"begin", "prune"}
         /\ Again(x).attempt = x.attempt + 1
         /\ x.at = "prune" => Again(x).at = "prune"
         /\ x.at # "prune" => Again(x).at = "begin"
  <1> DEFINE r == Again(x)
  <1>1. /\ r.at = IF x.at = "prune" THEN x.at ELSE "begin"
        /\ r.attempt = x.attempt + 1 /\ r.seen = x.seen /\ r.config = x.config /\ r.snap = x.snap
        /\ r = [at |-> r.at, seen |-> r.seen, config |-> r.config, snap |-> r.snap, attempt |-> r.attempt]
    <2> DEFINE a == IF x.at = "prune" THEN x.at ELSE "begin"
               n == x.attempt + 1
    <2>1. r = [x EXCEPT !.at = a, !.attempt = n]
      BY DEF Again
    <2> HIDE DEF r, a, n
    <2>2. r.at = a /\ r.attempt = n /\ r.seen = x.seen /\ r.config = x.config /\ r.snap = x.snap
      BY <2>1 DEF TxnRec
    <2>3. r = [at |-> r.at, seen |-> r.seen, config |-> r.config, snap |-> r.snap, attempt |-> r.attempt]
      BY <2>1 DEF TxnRec
    <2> QED BY <2>2, <2>3 DEF a, n
  <1>2. x.attempt + 1 \in 1..Attempts
    BY SchemaAssumption DEF TxnRec
  <1>3. r.at \in Places /\ r.seen \in Nat /\ r.config \in Nat /\ r.snap \in Seq(Nat) /\ r.attempt \in 1..Attempts
    BY <1>1, <1>2 DEF TxnRec, Places
  <1>4. r \in TxnRec
    <2> HIDE DEF r
    <2> QED BY <1>1, <1>3 DEF TxnRec
  <1> QED BY <1>1, <1>4

LEMMA FaultShape ==
  ASSUME Types, Lock, NEW t \in Thread, StatementFault(t)
  PROVE  RollsBack(t) /\ ThreadOnly(t) /\ GotOf(t)' = GotOf(t)
  <1> DEFINE r == IF txn[t].attempt = Attempts THEN Idle ELSE Again(txn[t])
  <1>1. /\ txn[t].at \in {"begin", "read", "write", "commit", "prune"} /\ Live(t)
        /\ RollBack(t) /\ file' = file /\ Inside(t) /\ conn' = conn
        /\ txn \in [Thread -> TxnRec] /\ txn[t] \in TxnRec
        /\ txn' = [txn EXCEPT ![t] = r]
    BY DEF StatementFault, Types, SchemaTypes, StoreTypes, Inside
  <1>2. r \in TxnRec /\ r.at \in {"begin", "prune", "idle"}
    BY <1>1, AgainType, IdleType
  <1> HIDE DEF r
  <1>3. /\ txn' \in [Thread -> TxnRec] /\ (\A u \in Thread \ {t} : txn'[u] = txn[u])
        /\ txn'[t].at \in {"begin", "prune", "idle"}
    BY <1>1, <1>2, TxnPut DEF Types
  <1>4. ThreadOnly(t)
    BY <1>1, <1>3, InsideOnly DEF Live
  <1>5. RollsBack(t)
    BY <1>1, <1>3 DEF RollsBack, Holds
  <1> QED BY <1>1, <1>3, <1>4, <1>5, GotNone, GotNext

LEMMA ThreadShapes ==
  ASSUME Types, Lock, NEW t \in Thread, ThreadStep(t)
  PROVE  ThreadShape(t) /\ ThreadOnly(t) /\ ReportStep(t)
  <1>1. CASE Connect(t) \/ Register(t)
    BY <1>1, ConnectShape DEF ThreadShape, ReportStep
  <1>2. CASE CloseOne(t)
    BY <1>2, CloseOneShape DEF ThreadShape, ReportStep
  <1>3. CASE BeginWrite(t)
    BY <1>3, BeginWriteShape DEF ThreadShape, ReportStep
  <1>4. CASE BeginImmediate(t)
    BY <1>4, BeginImmediateShape DEF ThreadShape, ReportStep
  <1>5. CASE ReadRow(t)
    BY <1>5, ReadRowShape DEF ThreadShape, ReportStep
  <1>6. CASE WriteRow(t)
    BY <1>6, WriteRowShape DEF ThreadShape, ReportStep
  <1>7. CASE CommitRow(t)
    BY <1>7, CommitRowShape DEF ThreadShape, ReportStep
  <1>8. CASE NoteWrite(t)
    BY <1>8, NoteWriteShape DEF ThreadShape, ReportStep
  <1>9. CASE Prune(t)
    BY <1>9, PruneShape DEF ThreadShape, ReportStep
  <1>10. CASE ReadTask(t)
    BY <1>10, ReadTaskShape DEF ThreadShape, ReportStep, Outside
  <1>11. CASE ReadConfig(t)
    BY <1>11, ReadConfigShape DEF ThreadShape, ReportStep
  <1>12. CASE EndReport(t) \/ UseAfterClose(t)
    BY <1>12, EndReportShape DEF ThreadShape, ReportStep
  <1>13. CASE StatementFault(t)
    BY <1>13, FaultShape DEF ThreadShape, ReportStep
  <1> QED BY <1>1, <1>2, <1>3, <1>4, <1>5, <1>6, <1>7, <1>8, <1>9, <1>10, <1>11, <1>12, <1>13 DEF ThreadStep

-----------------------------------------------------------------------------
(* What a step of an opening keeps. *)

LEMMA Names ==
  /\ Nobody \notin Proc /\ Nobody \notin Thread
  /\ \A p \in Proc, t \in Thread : p # t
  BY SchemaAssumption, StoreAssumption

LEMMA GrownBelow ==
  ASSUME NEW f \in FileRec, NEW g \in FileRec, NEW h \in FileRec
  PROVE  /\ Below(f, f)
         /\ Below(f, g) /\ Below(g, h) => Below(f, h)
         /\ SameTask(f, f)
         /\ SameTask(f, g) /\ SameTask(g, h) => SameTask(f, h)
  BY DEF FileRec, Below, SameTask

\* The file stays below what it was, for whoever holds the lock and for everybody else.
Upward(p) ==
  /\ file' \in FileRec /\ draft' \in FileRec
  /\ Below(file, file') /\ Below(file', draft')
  /\ writer' \in {writer, p, Nobody}
  /\ \A q \in Proc \ {p} : writer = q => UNCHANGED <<file, draft, writer>>

\* As to the task: nothing happens, or the write lock is not a thread's.
TaskKept ==
  /\ SameTask(file, file')
  /\ Quiet \/ (writer \notin Thread /\ writer' \notin Thread /\ SameTask(file', draft'))

LEMMA AdvancesKeeps ==
  ASSUME IInv, NEW p \in Proc, Advances(p)
  PROVE  Upward(p) /\ TaskKept
  <1>1. PICK f \in FileRec :
          /\ Grown(Seen(p), f)
          /\ \/ Quiet /\ f = Seen(p)
             \/ Puts(p, f)
             \/ writer \in {Nobody, p} /\ writer' = p /\ draft' = f /\ file' = file
    BY DEF Advances
  <1>2. /\ file \in FileRec /\ draft \in FileRec /\ Below(file, draft)
        /\ Below(Seen(p), f) /\ SameTask(Seen(p), f)
        /\ writer = p => SameTask(file, draft)
        /\ writer \in Proc \union Thread \union {Nobody}
    BY <1>1, Names DEF IInv, Types, SchemaTypes, Progress, Task, Grown
  <1>3. CASE Quiet
    BY <1>2, <1>3, GrownBelow DEF Quiet, Upward, TaskKept
  <1>4. CASE Puts(p, f) /\ writer = p
    <2>1. Below(draft, f) /\ SameTask(draft, f) /\ file' = file /\ draft' = f /\ writer' = p
      BY <1>2, <1>4, Names DEF Puts, Seen
    <2> QED BY <1>2, <1>4, <2>1, GrownBelow, Names DEF Upward, TaskKept
  <1>5. CASE Puts(p, f) /\ writer = Nobody
    <2>1. Below(file, f) /\ SameTask(file, f) /\ file' = f /\ draft' = f /\ writer' = Nobody
      BY <1>2, <1>5, Names DEF Puts, Seen
    <2> QED BY <1>2, <1>5, <2>1, GrownBelow, Names DEF Upward, TaskKept
  <1>6. CASE writer \in {Nobody, p} /\ writer' = p /\ draft' = f /\ file' = file
    <2>1. Below(file, f) /\ SameTask(file, f)
      BY <1>2, <1>6, GrownBelow, Names DEF Seen
    <2> QED BY <1>2, <1>6, <2>1, GrownBelow, Names DEF Upward, TaskKept
  <1> QED BY <1>1, <1>3, <1>4, <1>5, <1>6 DEF Puts

LEMMA RestartsKeeps ==
  ASSUME IInv, NEW p \in Proc, Restarts(p) \/ Ends(p) \/ Reclaims(p)
  PROVE  Upward(p) /\ TaskKept
  <1>1. /\ file \in FileRec /\ draft \in FileRec /\ Below(file, draft)
        /\ writer = p => SameTask(file, draft)
        /\ writer \in Proc \union Thread \union {Nobody}
    BY Names DEF IInv, Types, SchemaTypes, Progress, Task
  <1>2. CASE Restarts(p)
    <2>1. CASE writer = p
      <3>1. file' = file /\ draft' = file /\ writer' = Nobody
        BY <1>2, <2>1 DEF Restarts, RollBack
      <3> QED BY <1>1, <2>1, <3>1, GrownBelow, Names DEF Upward, TaskKept
    <2>2. CASE writer # p
      <3>1. Quiet
        BY <1>2, <2>2 DEF Restarts, RollBack, Quiet
      <3> QED BY <1>1, <3>1, GrownBelow DEF Upward, TaskKept, Quiet
    <2> QED BY <2>1, <2>2
  <1>3. CASE Ends(p)
    <2>1. CASE writer = p
      <3>1. file' = draft /\ draft' = draft /\ writer' = Nobody
        BY <1>3, <2>1 DEF Ends, Seen
      <3> QED BY <1>1, <2>1, <3>1, GrownBelow, Names DEF Upward, TaskKept
    <2>2. CASE writer # p
      <3>1. Quiet
        BY <1>3, <2>2 DEF Ends, Seen, Quiet
      <3> QED BY <1>1, <3>1, GrownBelow DEF Upward, TaskKept, Quiet
    <2> QED BY <2>1, <2>2
  <1>4. CASE Reclaims(p)
    <2>1. PICK f \in FileRec : Grown(file, f) /\ file' = f
      BY <1>4 DEF Reclaims
    <2>2. draft' = f /\ writer = Nobody /\ writer' = Nobody
      BY <1>4, <2>1 DEF Reclaims
    <2> QED BY <1>1, <2>1, <2>2, GrownBelow, Names DEF Upward, TaskKept, Grown
  <1> QED BY <1>2, <1>3, <1>4

LEMMA SchemaKeeps ==
  ASSUME IInv, NEW p \in Proc, SchemaShape(p)
  PROVE  Upward(p) /\ TaskKept
  BY AdvancesKeeps, RestartsKeeps DEF SchemaShape

\* What p's opening sees after a step of its own, and what it then has done.
LEMMA OpeningProgress ==
  ASSUME IInv, NEW p \in Proc, SchemaShape(p), OpenerStep(p), opener'[p].at = "opening"
  PROVE  /\ \A i \in 1..(opener'[p].next - 1) : DoneIn(i, Seen(p)')
         /\ opener'[p].known \subseteq Seen(p)'.columns
  <1>1. Advances(p) \/ (opener'[p].next = 1 /\ opener'[p].known = {})
    <2>1. CASE Restarts(p)
      BY <2>1 DEF Restarts
    <2>2. ~ Ends(p)
      BY DEF Ends
    <2>3. CASE Reclaims(p)
      BY <2>3 DEF Reclaims
    <2> QED BY <2>1, <2>2, <2>3 DEF SchemaShape
  <1>2. CASE opener'[p].next = 1 /\ opener'[p].known = {}
    BY <1>2
  <1>3. CASE Advances(p)
    <2>1. PICK f \in FileRec :
            /\ Grown(Seen(p), f)
            /\ \/ Quiet /\ f = Seen(p)
               \/ Puts(p, f)
               \/ writer \in {Nobody, p} /\ writer' = p /\ draft' = f /\ file' = file
            /\ opener[p].at = "opening"
            /\ \A i \in opener[p].next..(opener'[p].next - 1) : DoneIn(i, f)
            /\ opener'[p].known \in {opener[p].known, Seen(p).columns}
      BY <1>3 DEF Advances
    <2>2. Seen(p)' = f
      BY <2>1, Names DEF Quiet, Puts, Seen
    <2>3. Seen(p) \in FileRec /\ Below(Seen(p), f) /\ Seen(p).columns \subseteq f.columns
      BY <2>1, SeenType DEF Grown, Below, IInv, Types
    <2>4. /\ \A i \in 1..(opener[p].next - 1) : DoneIn(i, Seen(p))
          /\ opener[p].known \subseteq Seen(p).columns
      BY <2>1 DEF IInv, Progress
    <2>5. opener[p].next \in Nat /\ opener'[p].next \in Nat
      BY ScriptTables DEF IInv, Types, SchemaTypes, Opener, OpenerStep
    <2>6. ASSUME NEW i \in 1..(opener'[p].next - 1)
          PROVE  DoneIn(i, f)
      <3>1. CASE i < opener[p].next
        <4>1. DoneIn(i, Seen(p))
          BY <2>4, <2>5, <3>1
        <4> QED BY <2>3, <4>1, DoneStays
      <3>2. CASE ~ (i < opener[p].next)
        BY <2>1, <2>5, <3>2
      <3> QED BY <3>1, <3>2
    <2>7. opener'[p].known \subseteq f.columns
      BY <2>1, <2>3, <2>4
    <2> QED BY <2>2, <2>6, <2>7
  <1> QED BY <1>1, <1>2, <1>3

\* What somebody who is not in a step sees after it is not less than before.
SeesMore(q) == Seen(q) \in FileRec /\ Seen(q)' \in FileRec /\ Below(Seen(q), Seen(q)')

LEMMA UpwardSees ==
  ASSUME Types, Progress, NEW p, Upward(p), NEW q \in Proc \ {p}
  PROVE  SeesMore(q)
  <1>1. /\ file \in FileRec /\ draft \in FileRec /\ file' \in FileRec /\ draft' \in FileRec
        /\ Below(file, file')
    BY DEF Types, SchemaTypes, Upward
  <1>2. CASE writer = q
    <2>1. Seen(q) = draft /\ Seen(q)' = draft
      BY <1>2 DEF Upward, Seen
    <2> QED BY <1>1, <2>1, GrownBelow DEF SeesMore
  <1>3. CASE writer # q
    <2>1. writer' # q
      BY <1>3, Names DEF Upward
    <2> QED BY <1>1, <1>3, <2>1 DEF SeesMore, Seen
  <1> QED BY <1>2, <1>3

LEMMA ProgressStays ==
  ASSUME NEW q \in Proc, SeesMore(q), opener'[q] = opener[q], opener[q].at = "opening", Progress
  PROVE  /\ \A i \in 1..(opener'[q].next - 1) : DoneIn(i, Seen(q)')
         /\ opener'[q].known \subseteq Seen(q)'.columns
  <1>1. /\ \A i \in 1..(opener[q].next - 1) : DoneIn(i, Seen(q))
        /\ opener[q].known \subseteq Seen(q).columns
    BY DEF Progress
  <1>2. \A i \in 1..(opener[q].next - 1) : DoneIn(i, Seen(q)')
    BY <1>1, DoneStays DEF SeesMore
  <1>3. Seen(q).columns \subseteq Seen(q)'.columns
    BY DEF SeesMore, Below
  <1> QED BY <1>1, <1>2, <1>3

\* `Complete` of the file of all that are open, in the form of the lemmas.
LEMMA CompleteIs ==
  SchemaComplete <=> \A p \in Proc : opener[p].at = "open" => Complete(file)
  BY DEF SchemaComplete, Complete

\* The step that ends an opening publishes all that it did.
LEMMA EndsComplete ==
  ASSUME IInv, NEW p \in Proc, Ends(p)
  PROVE  Complete(file')
  <1>1. /\ opener[p].at = "opening" /\ Script[opener[p].next] = "commit" /\ opener[p].next \in 1..12
        /\ file' = Seen(p) /\ Seen(p) \in FileRec
    BY ScriptTables, SeenType DEF Ends, At, Statement, IInv, Types, SchemaTypes, Opener
  <1>2. opener[p].next = 12
    BY <1>1, ScriptOthers
  <1>3. \A i \in 1..11 : DoneIn(i, Seen(p))
    BY <1>1, <1>2 DEF IInv, Progress
  <1>4. Complete(Seen(p))
    BY <1>1, <1>3, AllDone
  <1> QED BY <1>1, <1>4

LEMMA SchemaStepProgress ==
  ASSUME IInv, NEW p \in Proc, SchemaShape(p), OpenerStep(p)
  PROVE  Progress' /\ SchemaComplete'
  <1>1. Upward(p)
    BY SchemaKeeps
  <1>2. ASSUME NEW q \in Proc, opener'[q].at = "opening"
        PROVE  /\ \A i \in 1..(opener'[q].next - 1) : DoneIn(i, Seen(q)')
               /\ opener'[q].known \subseteq Seen(q)'.columns
    <2>1. CASE q = p
      BY <1>2, <2>1, OpeningProgress
    <2>2. CASE q # p
      <3>1. SeesMore(q) /\ opener'[q] = opener[q]
        BY <1>1, <2>2, UpwardSees DEF IInv, OpenerStep
      <3> QED BY <1>2, <3>1, ProgressStays DEF IInv
    <2> QED BY <2>1, <2>2
  <1>3. Progress'
    <2>1. Below(file, draft)'
      BY <1>1 DEF Upward
    <2> QED BY <1>2, <2>1 DEF Progress
  <1>4. ASSUME NEW q \in Proc, opener'[q].at = "open"
        PROVE  Complete(file')
    <2>1. file \in FileRec /\ file' \in FileRec /\ Below(file, file')
      BY <1>1 DEF Upward, IInv, Types, SchemaTypes
    <2>2. CASE opener[q].at = "open"
      <3>1. Complete(file)
        BY <2>2, CompleteIs DEF IInv
      <3> QED BY <2>1, <3>1, CompleteStays
    <2>3. CASE opener[q].at # "open"
      <3>1. q = p
        BY <1>4, <2>3 DEF OpenerStep
      <3>2. Ends(p)
        BY <1>4, <2>3, <3>1 DEF SchemaShape, Advances, Restarts, Reclaims
      <3> QED BY <3>2, EndsComplete
    <2> QED BY <2>2, <2>3
  <1>5. SchemaComplete'
    BY <1>4 DEF SchemaComplete, Complete
  <1> QED BY <1>3, <1>5

LEMMA SchemaStepLock ==
  ASSUME IInv, NEW p \in Proc, SchemaShape(p), OpenerStep(p), UNCHANGED store
  PROVE  Types' /\ Lock' /\ Task' /\ NoneOpenAfterClose'
  <1>1. /\ conn' = conn /\ closing' = closing /\ txn' = txn /\ clock' = clock /\ world' = world /\ begun' = begun
        /\ Upward(p) /\ TaskKept
    BY SchemaKeeps DEF store
  <1>2. Types'
    <2>1. SchemaTypes'
      BY <1>1, Names DEF IInv, Types, SchemaTypes, OpenerStep, Upward
    <2>2. StoreTypes'
      BY <1>1 DEF IInv, Types, StoreTypes
    <2> QED BY <2>1, <2>2 DEF Types
  <1>3. writer' = Nobody => draft' = file'
    <2>1. writer = Nobody => draft = file
      BY DEF IInv, Lock
    <2>2. CASE Advances(p)
      BY <2>1, <2>2, Names DEF Advances, Quiet, Puts
    <2>3. CASE Restarts(p)
      BY <2>1, <2>3 DEF Restarts, RollBack
    <2>4. CASE Ends(p)
      BY <2>1, <2>4 DEF Ends, Seen
    <2>5. CASE Reclaims(p)
      BY <2>5 DEF Reclaims
    <2> QED BY <2>2, <2>3, <2>4, <2>5 DEF SchemaShape
  <1>4. ASSUME NEW q \in Proc, writer' = q
        PROVE  opener'[q].at = "opening" /\ opener'[q].next > 8
    <2>1. CASE q # p
      <3>1. writer = q
        BY <1>1, <1>4, <2>1, Names DEF Upward
      <3> QED BY <2>1, <3>1 DEF IInv, Lock, OpenerStep
    <2>2. CASE q = p
      <3>1. Advances(p)
        BY <1>4, <2>2, Names DEF SchemaShape, Restarts, RollBack, Ends, Reclaims
      <3>2. /\ opener'[p].at = "opening" /\ opener'[p].next >= opener[p].next
            /\ writer = p \/ opener'[p].next > 8
        BY <1>4, <2>2, <3>1 DEF Advances, Quiet, Puts
      <3>3. writer = p => opener[p].next > 8
        BY DEF IInv, Lock
      <3>4. opener[p].next \in Nat /\ opener'[p].next \in Nat
        BY ScriptTables DEF IInv, Types, SchemaTypes, Opener, OpenerStep
      <3> QED BY <2>2, <3>2, <3>3, <3>4
    <2> QED BY <2>1, <2>2
  <1>5. \A t \in Thread : (writer' = t) <=> (writer = t)
    BY <1>1, Names DEF Upward, TaskKept, Quiet
  <1>6. Lock'
    <2>1. \A t \in Thread : (writer' = t) <=> (Live(t)' /\ txn'[t].at \in {"read", "write", "commit"})
      BY <1>1, <1>5 DEF IInv, Lock, Live
    <2>2. \A t \in Thread : conn'[t] \in {"none", "unregistered"} => txn'[t].at = "idle"
      BY <1>1 DEF IInv, Lock
    <2> QED BY <1>3, <1>4, <2>1, <2>2 DEF Lock
  <1>7. Task'
    <2>1. CASE Quiet
      BY <1>1, <2>1 DEF Quiet, IInv, Task
    <2>2. CASE writer' \notin Thread /\ SameTask(file', draft')
      BY <2>2 DEF Task
    <2> QED BY <1>1, <2>1, <2>2 DEF TaskKept
  <1>8. NoneOpenAfterClose'
    BY <1>1 DEF IInv, NoneOpenAfterClose
  <1> QED BY <1>2, <1>6, <1>7, <1>8

-----------------------------------------------------------------------------
(* What a step of a thread keeps. *)

LEMMA HoldsIs ==
  ASSUME Lock, NEW t \in Thread
  PROVE  writer = t <=> Holds(t)
  BY DEF Lock, Holds

LEMMA ThreadStepTypes ==
  ASSUME IInv, NEW t \in Thread, ThreadShape(t), ThreadOnly(t)
  PROVE  Types' /\ Upward(t)
  <1>1. /\ file \in FileRec /\ draft \in FileRec /\ Below(file, draft)
        /\ writer = Nobody => draft = file
        /\ writer \in Proc \union Thread \union {Nobody}
        /\ \A u \in Thread : writer = u <=> Holds(u)
    BY HoldsIs DEF IInv, Types, SchemaTypes, Progress, Lock
  <1>2. Upward(t)
    <2>1. CASE Outside(t) \/ ReadsRow(t)
      BY <1>1, <2>1, GrownBelow DEF Outside, ReadsRow, Quiet, Upward
    <2>2. CASE RollsBack(t)
      BY <1>1, <2>2, GrownBelow, Names DEF RollsBack, RollBack, Upward
    <2>3. CASE Begins(t)
      BY <1>1, <2>3, GrownBelow, Names DEF Begins, Upward
    <2>4. CASE WritesRow(t)
      <3>1. writer = t /\ Seen(t) = draft
        BY <1>1, <2>4 DEF WritesRow, Seen
      <3>2. PICK f \in FileRec : draft' = f /\ Below(draft, f)
        BY <2>4, <3>1 DEF WritesRow
      <3>3. file' = file /\ writer' = t
        BY <2>4 DEF WritesRow
      <3> QED BY <1>1, <3>1, <3>2, <3>3, GrownBelow, Names DEF Upward
    <2>5. CASE CommitsRow(t)
      <3>1. writer = t
        BY <1>1, <2>5 DEF CommitsRow
      <3> QED BY <1>1, <2>5, <3>1, GrownBelow, Names DEF CommitsRow, Upward
    <2>6. CASE Prunes(t)
      BY <1>1, <2>6, GrownBelow, Names DEF Prunes, Upward
    <2> QED BY <2>1, <2>2, <2>3, <2>4, <2>5, <2>6 DEF ThreadShape
  <1>3. SchemaTypes'
    BY <1>1, <1>2 DEF Upward, ThreadOnly, SchemaTypes, IInv, Types
  <1>4. StoreTypes'
    <2>1. \A u \in Thread : txn'[u].at = "reading" => txn'[u].snap # <<>>
      BY DEF ThreadOnly, IInv, Types, StoreTypes
    <2> QED BY <2>1 DEF ThreadOnly, IInv, Types, StoreTypes
  <1> QED BY <1>2, <1>3, <1>4 DEF Types

LEMMA ThreadStepProgress ==
  ASSUME IInv, NEW t \in Thread, ThreadShape(t), ThreadOnly(t)
  PROVE  Progress' /\ SchemaComplete'
  <1>1. Upward(t) /\ opener' = opener
    BY ThreadStepTypes DEF ThreadOnly
  <1>2. ASSUME NEW q \in Proc, opener'[q].at = "opening"
        PROVE  /\ \A i \in 1..(opener'[q].next - 1) : DoneIn(i, Seen(q)')
               /\ opener'[q].known \subseteq Seen(q)'.columns
    <2>1. q # t
      BY Names
    <2>2. SeesMore(q)
      BY <1>1, <2>1, UpwardSees DEF IInv
    <2> QED BY <1>1, <1>2, <2>2, ProgressStays DEF IInv
  <1>3. Progress'
    BY <1>1, <1>2 DEF Progress, Upward
  <1>4. ASSUME NEW q \in Proc, opener'[q].at = "open"
        PROVE  Complete(file')
    <2>1. Complete(file)
      BY <1>1, <1>4, CompleteIs DEF IInv
    <2>2. file \in FileRec /\ file' \in FileRec /\ Below(file, file')
      BY <1>1 DEF Upward, IInv, Types, SchemaTypes
    <2> QED BY <2>1, <2>2, CompleteStays
  <1>5. SchemaComplete'
    BY <1>4 DEF SchemaComplete, Complete
  <1> QED BY <1>3, <1>5

LEMMA ThreadStepLock ==
  ASSUME IInv, NEW t \in Thread, ThreadShape(t), ThreadOnly(t)
  PROVE  Lock' /\ NoneOpenAfterClose'
  <1>1. /\ \A u \in Thread : writer = u <=> Holds(u)
        /\ writer = Nobody => draft = file
        /\ \A p \in Proc : writer = p => opener[p].at = "opening" /\ opener[p].next > 8
        /\ Upward(t)
    BY HoldsIs, ThreadStepTypes DEF IInv, Lock
  <1>2. writer' = t <=> Holds(t)'
    BY <1>1, Names DEF ThreadShape, Outside, ReadsRow, RollsBack, RollBack, Begins, WritesRow, CommitsRow,
                       Prunes, Quiet
  <1>3. ASSUME NEW u \in Thread \ {t}
        PROVE  writer' = u <=> Holds(u)'
    <2>1. Holds(u)' <=> Holds(u)
      BY DEF ThreadOnly, Holds, Live
    <2>2. writer' = u <=> writer = u
      BY <1>1, Names DEF ThreadShape, Outside, ReadsRow, RollsBack, RollBack, Begins, WritesRow, CommitsRow,
                         Prunes, Quiet
    <2> QED BY <1>1, <2>1, <2>2
  <1>4. writer' = Nobody => draft' = file'
    BY <1>1, Names DEF ThreadShape, Outside, ReadsRow, RollsBack, RollBack, Begins, WritesRow, CommitsRow,
                       Prunes, Quiet
  <1>5. \A p \in Proc : writer' = p => writer = p
    BY <1>1, Names DEF Upward
  <1>6. \A u \in Thread : conn'[u] \in {"none", "unregistered"} => txn'[u].at = "idle"
    BY DEF ThreadOnly, IInv, Lock
  <1>7. Lock'
    <2>1. \A u \in Thread : (writer' = u) <=> (Live(u)' /\ txn'[u].at \in {"read", "write", "commit"})
      BY <1>2, <1>3 DEF Holds
    <2>2. \A p \in Proc : writer' = p => opener'[p].at = "opening" /\ opener'[p].next > 8
      BY <1>1, <1>5 DEF ThreadOnly
    <2> QED BY <1>4, <1>6, <2>1, <2>2 DEF Lock
  <1>8. NoneOpenAfterClose'
    <2>1. ASSUME NEW u \in Thread
          PROVE  /\ closing'[ProcOf[u]] # "no" => conn'[u] # "open"
                 /\ closing'[ProcOf[u]] = "returned" => conn'[u] # "listed"
      BY DEF IInv, NoneOpenAfterClose, ThreadOnly
    <2> QED BY <2>1 DEF NoneOpenAfterClose
  <1> QED BY <1>7, <1>8

LEMMA ThreadStepTask ==
  ASSUME IInv, NEW t \in Thread, ThreadShape(t), ThreadOnly(t)
  PROVE  Task'
  <1>1. /\ \A u \in Thread : writer = u <=> Holds(u)
        /\ writer = Nobody => draft = file
        /\ (\A u \in Thread : writer = u => txn[u].at # "commit") => SameTask(file, draft)
        /\ \A u \in Thread : writer = u =>
             /\ txn[u].at = "write" => txn[u].seen = file.epoch
             /\ txn[u].at = "commit" =>
                  /\ draft.epoch = file.epoch + 1
                  /\ draft.config \in {file.config, file.epoch + 1}
                  /\ draft.log = Append(file.log, file.epoch + 1)
        /\ file \in FileRec /\ draft \in FileRec
        /\ \A u \in Thread \ {t} : txn'[u] = txn[u]
    BY HoldsIs DEF IInv, Lock, Task, Types, SchemaTypes, ThreadOnly
  <1>2. CASE Outside(t)
    <2>1. file' = file /\ draft' = draft /\ writer' = writer /\ writer # t
      BY <1>1, <1>2 DEF Outside, Quiet
    <2>2. \A u \in Thread : writer' = u => writer = u /\ txn'[u] = txn[u]
      BY <1>1, <2>1
    <2>3. (\A u \in Thread : writer' = u => txn'[u].at # "commit") => SameTask(file, draft)
      BY <1>1, <2>1
    <2> QED BY <1>1, <2>1, <2>2, <2>3 DEF Task
  <1>3. CASE ReadsRow(t)
    <2>1. /\ file' = file /\ draft' = draft /\ writer' = t /\ writer = t
          /\ txn[t].at = "read" /\ txn'[t].at = "write" /\ txn'[t].seen = draft.epoch
      BY <1>1, <1>3 DEF ReadsRow, Quiet, Seen
    <2>2. SameTask(file, draft)
      BY <1>1, <2>1
    <2>3. txn'[t].seen = file.epoch
      BY <2>1, <2>2 DEF SameTask
    <2>4. \A u \in Thread : writer' = u => u = t
      BY <2>1
    <2> QED BY <2>1, <2>2, <2>3, <2>4 DEF Task
  <1>4. CASE RollsBack(t)
    <2>1. file' = file /\ writer' # t
      BY <1>4, Names DEF RollsBack, RollBack
    <2>2. CASE writer = t
      <3>1. draft' = file /\ writer' = Nobody
        BY <1>4, <2>2 DEF RollsBack, RollBack
      <3> QED BY <1>1, <2>1, <3>1, GrownBelow, Names DEF Task
    <2>3. CASE writer # t
      <3>1. draft' = draft /\ writer' = writer
        BY <1>4, <2>3 DEF RollsBack, RollBack
      <3>2. \A u \in Thread : writer' = u => writer = u /\ txn'[u] = txn[u]
        BY <1>1, <2>1, <3>1
      <3>3. (\A u \in Thread : writer' = u => txn'[u].at # "commit") => SameTask(file, draft)
        BY <1>1, <2>3, <3>1
      <3> QED BY <1>1, <2>1, <3>1, <3>2, <3>3 DEF Task
    <2> QED BY <2>2, <2>3
  <1>5. CASE Begins(t)
    <2>1. file' = file /\ draft' = file /\ writer' = t /\ txn'[t].at = "read"
      BY <1>5 DEF Begins
    <2>2. \A u \in Thread : writer' = u => u = t
      BY <2>1
    <2> QED BY <1>1, <2>1, <2>2, GrownBelow DEF Task
  <1>6. CASE WritesRow(t)
    <2>1. writer = t /\ txn[t].at = "write" /\ Seen(t) = draft
      BY <1>1, <1>6 DEF WritesRow, Seen
    <2>2. SameTask(file, draft) /\ txn[t].seen = file.epoch
      BY <1>1, <2>1
    <2>3. file' = file /\ writer' = t /\ txn'[t].at = "commit"
      BY <1>6 DEF WritesRow
    <2>4. PICK f \in FileRec :
            /\ draft' = f
            /\ f.epoch = txn[t].seen + 1 /\ f.config \in {draft.config, txn[t].seen + 1}
            /\ f.log = Append(draft.log, txn[t].seen + 1)
      BY <1>6, <2>1 DEF WritesRow
    <2>5. /\ f.epoch = file.epoch + 1 /\ f.config \in {file.config, file.epoch + 1}
          /\ f.log = Append(file.log, file.epoch + 1)
      BY <2>2, <2>4 DEF SameTask
    <2>6. \A u \in Thread : writer' = u => u = t
      BY <2>3
    <2> QED BY <2>3, <2>4, <2>5, <2>6 DEF Task
  <1>7. CASE CommitsRow(t)
    <2>1. file' = draft' /\ writer' = Nobody /\ draft' = draft
      BY <1>7 DEF CommitsRow
    <2> QED BY <1>1, <2>1, GrownBelow, Names DEF Task
  <1>8. CASE Prunes(t)
    <2>1. file' = draft' /\ writer' = Nobody
      BY <1>8 DEF Prunes
    <2>2. SameTask(file', draft')
      BY <2>1 DEF SameTask
    <2> QED BY <2>1, <2>2, Names DEF Task
  <1> QED BY <1>2, <1>3, <1>4, <1>5, <1>6, <1>7, <1>8 DEF ThreadShape

\* What a step of a thread does to the task: nothing, its commit, or a pruning.
LEMMA ThreadTaskStep ==
  ASSUME IInv, NEW t \in Thread, ThreadShape(t), ThreadOnly(t)
  PROVE  \/ SameTask(file, file')
         \/ CommitsRow(t) /\ writer = t
         \/ Prunes(t)
  <1>1. writer = t <=> Holds(t)
    BY HoldsIs DEF IInv
  <1>2. file' = file => SameTask(file, file')
    BY DEF SameTask
  <1> QED BY <1>1, <1>2 DEF ThreadShape, Outside, ReadsRow, RollsBack, Begins, WritesRow, CommitsRow, Quiet

-----------------------------------------------------------------------------
(* The steps of a process: close(), and its death. *)

LEMMA CloseMarkStep ==
  ASSUME IInv, NEW p \in Proc, CloseMark(p)
  PROVE  IInv' /\ file' = file /\ txn' = txn
  <1>1. /\ UNCHANGED <<file, draft, writer, opener, faults, crashes, txn, clock, world, begun>>
        /\ closing' = [closing EXCEPT ![p] = "marked"]
        /\ conn' = [t \in Thread |-> IF ProcOf[t] = p /\ conn[t] = "open" THEN "listed" ELSE conn[t]]
        /\ conn \in [Thread -> {"none", "unregistered", "open", "listed", "closed"}]
        /\ closing \in [Proc -> {"no", "marked", "returned"}] /\ closing[p] = "no"
    BY DEF CloseMark, schema, IInv, Types, StoreTypes
  <1>2. \A t \in Thread : conn'[t] = IF ProcOf[t] = p /\ conn[t] = "open" THEN "listed" ELSE conn[t]
    BY <1>1
  <1>3. closing' \in [Proc -> {"no", "marked", "returned"}] /\ closing'[p] = "marked"
        /\ \A q \in Proc \ {p} : closing'[q] = closing[q]
    BY <1>1
  <1>4. conn' \in [Thread -> {"none", "unregistered", "open", "listed", "closed"}]
    BY <1>1
  <1>5. Types'
    <2>1. SchemaTypes'
      BY <1>1 DEF IInv, Types, SchemaTypes
    <2>2. StoreTypes'
      BY <1>1, <1>3, <1>4 DEF IInv, Types, StoreTypes
    <2> QED BY <2>1, <2>2 DEF Types
  <1>6. Lock'
    <2>1. \A t \in Thread : Live(t)' <=> Live(t)
      BY <1>2 DEF Live
    <2>2. \A t \in Thread : (writer' = t) <=> (Live(t)' /\ txn'[t].at \in {"read", "write", "commit"})
      BY <1>1, <2>1 DEF IInv, Lock
    <2>3. \A t \in Thread : conn'[t] \in {"none", "unregistered"} => txn'[t].at = "idle"
      BY <1>1, <1>2 DEF IInv, Lock
    <2>4. writer' = Nobody => draft' = file'
      BY <1>1 DEF IInv, Lock
    <2>5. \A q \in Proc : writer' = q => opener'[q].at = "opening" /\ opener'[q].next > 8
      BY <1>1 DEF IInv, Lock
    <2> QED BY <2>2, <2>3, <2>4, <2>5 DEF Lock
  <1>7. Task'
    BY <1>1 DEF IInv, Task
  <1>8. Progress' /\ SchemaComplete'
    BY <1>1 DEF IInv, Progress, SchemaComplete, Seen
  <1>9. NoneOpenAfterClose'
    <2>1. ASSUME NEW t \in Thread
          PROVE  /\ closing'[ProcOf[t]] # "no" => conn'[t] # "open"
                 /\ closing'[ProcOf[t]] = "returned" => conn'[t] # "listed"
      <3>1. ProcOf[t] \in Proc
        BY StoreAssumption
      <3>2. CASE ProcOf[t] = p
        BY <1>2, <1>3, <3>2
      <3>3. CASE ProcOf[t] # p
        BY <1>2, <1>3, <3>1, <3>3 DEF IInv, NoneOpenAfterClose
      <3> QED BY <3>2, <3>3
    <2> QED BY <2>1 DEF NoneOpenAfterClose
  <1> QED BY <1>1, <1>5, <1>6, <1>7, <1>8, <1>9 DEF IInv

LEMMA CloseReturnsStep ==
  ASSUME IInv, NEW p \in Proc, CloseReturns(p)
  PROVE  IInv' /\ file' = file /\ txn' = txn
  <1>1. /\ UNCHANGED <<file, draft, writer, opener, faults, crashes, conn, txn, clock, world, begun>>
        /\ closing' = [closing EXCEPT ![p] = "returned"]
        /\ closing \in [Proc -> {"no", "marked", "returned"}] /\ closing[p] = "marked"
        /\ \A t \in Thread : ProcOf[t] = p => conn[t] # "listed"
    BY DEF CloseReturns, schema, IInv, Types, StoreTypes
  <1>2. closing' \in [Proc -> {"no", "marked", "returned"}] /\ closing'[p] = "returned"
        /\ \A q \in Proc \ {p} : closing'[q] = closing[q]
    BY <1>1
  <1>3. Types'
    <2>1. SchemaTypes'
      BY <1>1 DEF IInv, Types, SchemaTypes
    <2>2. StoreTypes'
      BY <1>1, <1>2 DEF IInv, Types, StoreTypes
    <2> QED BY <2>1, <2>2 DEF Types
  <1>4. Lock'
    BY <1>1 DEF IInv, Lock, Live
  <1>5. Task'
    BY <1>1 DEF IInv, Task
  <1>6. Progress' /\ SchemaComplete'
    BY <1>1 DEF IInv, Progress, SchemaComplete, Seen
  <1>7. NoneOpenAfterClose'
    <2>1. ASSUME NEW t \in Thread
          PROVE  /\ closing'[ProcOf[t]] # "no" => conn'[t] # "open"
                 /\ closing'[ProcOf[t]] = "returned" => conn'[t] # "listed"
      <3>1. ProcOf[t] \in Proc
        BY StoreAssumption
      <3>2. CASE ProcOf[t] = p
        BY <1>1, <3>2 DEF IInv, NoneOpenAfterClose
      <3>3. CASE ProcOf[t] # p
        BY <1>1, <1>2, <3>1, <3>3 DEF IInv, NoneOpenAfterClose
      <3> QED BY <3>2, <3>3
    <2> QED BY <2>1 DEF NoneOpenAfterClose
  <1> QED BY <1>1, <1>3, <1>4, <1>5, <1>6, <1>7 DEF IInv

\* The write lock is p's or one of its threads'.
HeldBy(p) == writer = p \/ \E t \in Thread : ProcOf[t] = p /\ writer = t

\* p and its threads are gone, with what they had not committed; nobody else notices.
Gone(p) ==
  /\ file' = file
  /\ HeldBy(p) => writer' = Nobody /\ draft' = file
  /\ ~ HeldBy(p) => Quiet
  /\ opener' \in [Proc -> Opener] /\ opener'[p].at = "closed"
  /\ \A q \in Proc \ {p} : opener'[q] = opener[q]
  /\ conn' \in [Thread -> {"none", "unregistered", "open", "listed", "closed"}] /\ txn' \in [Thread -> TxnRec]
  /\ \A t \in Thread : IF ProcOf[t] = p THEN conn'[t] = "none" /\ txn'[t] = Idle
                       ELSE conn'[t] = conn[t] /\ txn'[t] = txn[t]
  /\ closing' \in [Proc -> {"no", "marked", "returned"}] /\ closing'[p] = "no"
  /\ \A q \in Proc \ {p} : closing'[q] = closing[q]
  /\ clock' \in [Proc -> Nat] /\ faults' = faults /\ crashes' \in Nat
  /\ world' = world /\ begun' = begun

LEMMA ClosedType == Closed \in Opener /\ Closed.at = "closed"
  <1>1. 1 \in 1..Len(Script) /\ 1 \in 1..Attempts
    BY ScriptTables, SchemaAssumption
  <1> QED BY <1>1 DEF Closed, Opener

LEMMA CrashShape ==
  ASSUME Types, NEW p \in Proc, Crash(p)
  PROVE  Gone(p)
  <1> DEFINE mine == {t \in Thread : ProcOf[t] = p}
  <1>1. SchemaTypes /\ StoreTypes /\ file' = file /\ faults' = faults /\ world' = world /\ begun' = begun
    BY DEF Types, Crash
  <1>2. HeldBy(p) <=> writer \in mine \union {p}
    BY DEF HeldBy
  <1>3. HeldBy(p) => writer' = Nobody /\ draft' = file
    <2>1. ASSUME HeldBy(p) PROVE RollBack(writer)
      BY <1>2, <2>1 DEF Crash
    <2> QED BY <2>1 DEF RollBack
  <1>4. ~ HeldBy(p) => Quiet
    BY <1>1, <1>2 DEF Crash, Quiet
  <1>5. opener' = [opener EXCEPT ![p] = Closed] /\ opener \in [Proc -> Opener]
    BY <1>1 DEF Crash, SchemaTypes
  <1>6. opener' \in [Proc -> Opener] /\ opener'[p].at = "closed" /\ \A q \in Proc \ {p} : opener'[q] = opener[q]
    BY <1>5, ClosedType
  <1>7. /\ conn' = [t \in Thread |-> IF t \in mine THEN "none" ELSE conn[t]]
        /\ txn' = [t \in Thread |-> IF t \in mine THEN Idle ELSE txn[t]]
        /\ conn \in [Thread -> {"none", "unregistered", "open", "listed", "closed"}] /\ txn \in [Thread -> TxnRec]
    BY <1>1 DEF Crash, StoreTypes
  <1>8. /\ conn' \in [Thread -> {"none", "unregistered", "open", "listed", "closed"}]
        /\ txn' \in [Thread -> TxnRec]
        /\ \A t \in Thread : IF ProcOf[t] = p THEN conn'[t] = "none" /\ txn'[t] = Idle
                             ELSE conn'[t] = conn[t] /\ txn'[t] = txn[t]
    BY <1>7, IdleType
  <1>9. /\ closing' = [closing EXCEPT ![p] = "no"] /\ clock' = [clock EXCEPT ![p] = 0]
        /\ closing \in [Proc -> {"no", "marked", "returned"}] /\ clock \in [Proc -> Nat]
        /\ crashes \in Nat /\ crashes > 0 /\ crashes' = crashes - 1
    BY <1>1 DEF Crash, StoreTypes, SchemaTypes
  <1>10. /\ closing' \in [Proc -> {"no", "marked", "returned"}] /\ closing'[p] = "no"
         /\ \A q \in Proc \ {p} : closing'[q] = closing[q]
         /\ clock' \in [Proc -> Nat] /\ crashes' \in Nat
    BY <1>9
  <1> QED BY <1>1, <1>3, <1>4, <1>6, <1>8, <1>10 DEF Gone

LEMMA CrashStep ==
  ASSUME IInv, NEW p \in Proc, Gone(p)
  PROVE  IInv'
  <1>1. /\ file' = file /\ draft' \in {draft, file} /\ writer' \in {writer, Nobody}
        /\ writer' # Nobody => Quiet
        /\ file \in FileRec /\ draft \in FileRec /\ Below(file, draft)
        /\ writer = Nobody => draft = file
        /\ writer' = Nobody => draft' = file
        /\ writer' # p /\ \A t \in Thread : ProcOf[t] = p => writer' # t
    BY Names DEF Gone, HeldBy, Quiet, IInv, Types, SchemaTypes, Progress, Lock
  <1>2. Types'
    <2>1. SchemaTypes'
      BY <1>1 DEF Gone, IInv, Types, SchemaTypes
    <2>2. \A t \in Thread : txn'[t].at = "reading" => txn'[t].snap # <<>>
      BY IdleType DEF Gone, IInv, Types, StoreTypes
    <2>3. StoreTypes'
      BY <2>2 DEF Gone, IInv, Types, StoreTypes
    <2> QED BY <2>1, <2>3 DEF Types
  <1>3. ASSUME NEW t \in Thread, writer' = t
        PROVE  writer = t /\ Quiet /\ txn'[t] = txn[t] /\ conn'[t] = conn[t]
    BY <1>1, <1>3, Names DEF Quiet, Gone
  <1>4. Lock'
    <2>1. ASSUME NEW q \in Proc, writer' = q
          PROVE  opener'[q].at = "opening" /\ opener'[q].next > 8
      <3>1. q # p /\ writer = q
        BY <1>1, <2>1, Names
      <3> QED BY <3>1 DEF Gone, IInv, Lock
    <2>2. ASSUME NEW t \in Thread
          PROVE  (writer' = t) <=> (Live(t)' /\ txn'[t].at \in {"read", "write", "commit"})
      <3>1. CASE ProcOf[t] = p
        BY <1>1, <3>1, IdleType DEF Gone, Live
      <3>2. CASE ProcOf[t] # p
        <4>1. conn'[t] = conn[t] /\ txn'[t] = txn[t]
          BY <3>2 DEF Gone
        <4>2. writer = t => ~ HeldBy(p)
          BY <3>2, Names DEF HeldBy
        <4>3. writer = t => writer' = t
          BY <4>2 DEF Gone, Quiet
        <4>4. writer' = t <=> writer = t
          BY <1>3, <4>3
        <4> QED BY <4>1, <4>4 DEF Live, IInv, Lock
      <3> QED BY <3>1, <3>2
    <2>3. \A t \in Thread : conn'[t] \in {"none", "unregistered"} => txn'[t].at = "idle"
      BY IdleType DEF Gone, IInv, Lock
    <2> QED BY <1>1, <2>1, <2>2, <2>3 DEF Lock
  <1>5. Task'
    <2>1. CASE writer' = Nobody
      BY <1>1, <2>1, GrownBelow, Names DEF Task
    <2>2. CASE writer' # Nobody
      <3>1. Quiet
        BY <1>1, <2>2
      <3>2. \A t \in Thread : writer' = t => writer = t /\ txn'[t] = txn[t]
        BY <1>3
      <3>3. (\A t \in Thread : writer' = t => txn'[t].at # "commit") => SameTask(file, draft)
        <4> SUFFICES ASSUME \A t \in Thread : writer' = t => txn'[t].at # "commit"
                     PROVE  SameTask(file, draft)
          OBVIOUS
        <4>1. \A t \in Thread : writer = t => txn[t].at # "commit"
          BY <3>1, <3>2 DEF Quiet
        <4> QED BY <4>1 DEF IInv, Task
      <3> QED BY <3>1, <3>2, <3>3 DEF Quiet, IInv, Task
    <2> QED BY <2>1, <2>2
  <1>6. Progress'
    <2>1. Below(file', draft')
      BY <1>1, GrownBelow
    <2>2. ASSUME NEW q \in Proc, opener'[q].at = "opening"
          PROVE  /\ \A i \in 1..(opener'[q].next - 1) : DoneIn(i, Seen(q)')
                 /\ opener'[q].known \subseteq Seen(q)'.columns
      <3>1. q # p /\ opener'[q] = opener[q]
        BY <2>2 DEF Gone
      <3>2. Seen(q)' = Seen(q)
        <4>1. CASE writer = q
          <5>1. Quiet
            BY <3>1, <4>1, Names DEF Gone, HeldBy
          <5> QED BY <5>1 DEF Quiet, Seen
        <4>2. CASE writer # q
          BY <1>1, <4>2, Names DEF Seen
        <4> QED BY <4>1, <4>2
      <3>3. SeesMore(q)
        BY <1>1, <3>2, SeenType, GrownBelow DEF SeesMore, IInv, Types
      <3> QED BY <2>2, <3>1, <3>3, ProgressStays DEF IInv
    <2> QED BY <2>1, <2>2 DEF Progress
  <1>7. SchemaComplete'
    <2>1. \A q \in Proc : opener'[q].at = "open" => opener[q].at = "open"
      BY DEF Gone
    <2> QED BY <1>1, <2>1 DEF IInv, SchemaComplete
  <1>8. NoneOpenAfterClose'
    <2>1. ASSUME NEW t \in Thread
          PROVE  /\ closing'[ProcOf[t]] # "no" => conn'[t] # "open"
                 /\ closing'[ProcOf[t]] = "returned" => conn'[t] # "listed"
      <3>1. ProcOf[t] \in Proc
        BY StoreAssumption
      <3> QED BY <3>1 DEF Gone, IInv, NoneOpenAfterClose
    <2> QED BY <2>1 DEF NoneOpenAfterClose
  <1> QED BY <1>2, <1>4, <1>5, <1>6, <1>7, <1>8 DEF IInv

-----------------------------------------------------------------------------
(* The invariant. *)

LEMMA SchemaType ==
  ASSUME NEW ts \in SUBSET Tables, NEW cs \in SUBSET Columns, NEW v \in Nat, NEW l \in Lease
  PROVE  Schema(ts, cs, v, l) \in FileRec /\ Schema(ts, cs, v, l).log = <<>>
         /\ Schema(ts, cs, v, l).epoch = 0 /\ Schema(ts, cs, v, l).config = 0
  <1>1. <<>> \in Seq(Nat)
    OBVIOUS
  <1> QED BY <1>1 DEF Schema, FileRec

\* A file found holds no task's history yet.
Found(f) == f \in FileRec /\ f.epoch = 0 /\ f.config = 0 /\ f.log = <<>>

LEMMA FoundFiles ==
  ASSUME NEW f \in Earlier \union {Fresh, Current}
  PROVE  Found(f)
  <1>1. Found(Fresh)
    BY SchemaType DEF Found, Fresh, Lease
  <1>2. Found(Current)
    BY SchemaType DEF Found, Current, Lease, SchemaVersion
  <1>3. Found(Schema({"tasks", "traces"}, {}, 0, "unstamped"))
    BY SchemaType DEF Found, Lease, Tables
  <1>4. Found(Schema({"tasks", "traces"}, {"compile_attempts"}, 0, "unstamped"))
    BY SchemaType DEF Found, Lease, Tables, Columns
  <1>5. Found(Schema(Tables, Columns \ {"compiling_started_at"}, 2, "unstamped"))
    BY SchemaType DEF Found, Lease
  <1> QED BY <1>1, <1>2, <1>3, <1>4, <1>5 DEF Earlier

LEMMA CurrentComplete == Complete(Current)
  BY DEF Complete, Current, Schema, SchemaVersion

LEMMA InitInv == Init => IInv
  <1> SUFFICES ASSUME Init PROVE IInv
    OBVIOUS
  <1> DEFINE first == IF world.open THEN [Closed EXCEPT !.at = "open"] ELSE Closed
  <1>1. /\ world \in World /\ world.files \subseteq Earlier \union {Fresh, Current}
        /\ world.faults \in Nat /\ world.crashes \in Nat
        /\ world.open => world.files \subseteq {Current}
    BY StoreAssumption DEF Init
  <1>2. /\ file \in world.files /\ draft = file /\ writer = Nobody
        /\ opener = [p \in Proc |-> first]
        /\ faults = world.faults /\ crashes = world.crashes
    BY DEF Init, SchemaInit
  <1>3. Found(file)
    BY <1>1, <1>2, FoundFiles
  <1>4. first \in Opener /\ first.at \in {"closed", "open"} /\ (first.at = "open" => world.open)
    BY ClosedType DEF Opener
  <1> HIDE DEF first
  <1>5. /\ conn = [t \in Thread |-> "none"] /\ closing = [p \in Proc |-> "no"]
        /\ txn = [t \in Thread |-> Idle] /\ clock = [p \in Proc |-> 0] /\ begun = 0
    BY DEF Init
  <1>6. Types
    <2>1. SchemaTypes
      BY <1>1, <1>2, <1>3, <1>4 DEF SchemaTypes, Found
    <2>2. StoreTypes
      BY <1>1, <1>5, IdleType DEF StoreTypes
    <2> QED BY <2>1, <2>2 DEF Types
  <1>7. Lock
    BY <1>2, <1>5, IdleType, Names DEF Lock, Live
  <1>8. Task
    BY <1>2, Names DEF Task, SameTask
  <1>9. \A p \in Proc : opener[p].at # "opening"
    BY <1>2, <1>4
  <1>10. Below(file, draft)
    BY <1>2, <1>3 DEF Below, Found, FileRec
  <1>11. Progress
    BY <1>9, <1>10 DEF Progress
  <1>12. SchemaComplete
    <2>1. ASSUME NEW p \in Proc, opener[p].at = "open"
          PROVE  Complete(file)
      <3>1. file = Current
        BY <1>1, <1>2, <1>4, <2>1
      <3> QED BY <3>1, CurrentComplete
    <2> QED BY <2>1, CompleteIs
  <1>13. NoneOpenAfterClose
    BY <1>5 DEF NoneOpenAfterClose
  <1> QED BY <1>6, <1>7, <1>8, <1>11, <1>12, <1>13 DEF IInv

LEMMA SchemaStepInv ==
  ASSUME IInv, NEW p \in Proc, SchemaStep(p), UNCHANGED store
  PROVE  IInv' /\ SchemaShape(p)
  <1>1. SchemaShape(p) /\ OpenerStep(p)
    BY SchemaShapes DEF IInv, Types
  <1> QED BY <1>1, SchemaStepLock, SchemaStepProgress DEF IInv

LEMMA ThreadStepInv ==
  ASSUME IInv, NEW t \in Thread, ThreadStep(t)
  PROVE  IInv' /\ ThreadShape(t) /\ ThreadOnly(t) /\ ReportStep(t)
  <1>1. ThreadShape(t) /\ ThreadOnly(t) /\ ReportStep(t)
    BY ThreadShapes DEF IInv
  <1> QED BY <1>1, ThreadStepTypes, ThreadStepLock, ThreadStepTask, ThreadStepProgress DEF IInv

LEMMA StutterInv ==
  ASSUME IInv, UNCHANGED vars
  PROVE  IInv'
  BY DEF vars, IInv, Types, SchemaTypes, StoreTypes, Lock, Live, Task, Progress, Seen, SchemaComplete,
         NoneOpenAfterClose

LEMMA NextInv == IInv /\ [Next]_vars => IInv'
  <1> SUFFICES ASSUME IInv, [Next]_vars PROVE IInv'
    OBVIOUS
  <1>1. ASSUME NEW p \in Proc, SchemaStep(p) /\ UNCHANGED store PROVE IInv'
    BY <1>1, SchemaStepInv
  <1>2. ASSUME NEW p \in Proc, CloseMark(p) PROVE IInv'
    BY <1>2, CloseMarkStep
  <1>3. ASSUME NEW p \in Proc, CloseReturns(p) PROVE IInv'
    BY <1>3, CloseReturnsStep
  <1>4. ASSUME NEW p \in Proc, Crash(p) PROVE IInv'
    BY <1>4, CrashShape, CrashStep DEF IInv
  <1>5. ASSUME NEW t \in Thread, ThreadStep(t) PROVE IInv'
    BY <1>5, ThreadStepInv
  <1>6. CASE UNCHANGED vars
    BY <1>6, StutterInv
  <1> QED BY <1>1, <1>2, <1>3, <1>4, <1>5, <1>6 DEF Next

\* The invariant holds of every behaviour: a write transaction holds the lock of db.py
\* from its BEGIN IMMEDIATE to its end, works on the epoch it read, and an opening sees
\* what it has run.
THEOREM Inductive == Spec => []IInv
  BY InitInv, NextInv, PTL DEF Spec

\* Every variable keeps its type, and whoever holds the write lock of the file is past
\* the backfill of `_init_db` or inside `_write_txn`.
THEOREM TypeCorrect == Spec => []TypeOK
  <1>1. DOMAIN Fresh = {"tables", "columns", "version", "lease", "epoch", "config", "log"}
    BY DEF Fresh, Schema
  <1>2. \A f \in FileRec : DOMAIN f = DOMAIN Fresh
    BY <1>1 DEF FileRec
  <1>3. IInv => TypeOK
    <2> SUFFICES ASSUME IInv PROVE TypeOK
      OBVIOUS
    <2>1. DOMAIN file = DOMAIN Fresh /\ DOMAIN draft = DOMAIN Fresh
      BY <1>2 DEF IInv, Types, SchemaTypes
    <2>2. /\ opener \in [Proc -> Opener]
          /\ conn \in [Thread -> {"none", "unregistered", "open", "listed", "closed"}]
          /\ closing \in [Proc -> {"no", "marked", "returned"}]
          /\ DOMAIN txn = Thread
      BY DEF IInv, Types, SchemaTypes, StoreTypes
    <2>3. /\ writer = Nobody => draft = file
          /\ writer \in Proc => opener[writer].at = "opening" /\ opener[writer].next > 8
          /\ writer \in Thread => txn[writer].at \in {"read", "write", "commit"} /\ Live(writer)
      BY DEF IInv, Lock
    <2> QED BY <2>1, <2>2, <2>3 DEF TypeOK
  <1> QED BY <1>3, Inductive, PTL

\* `_init_db`: a process that has a TraceDB finds every table and column its statements
\* name, whatever release wrote the file, however many processes open it at once, and
\* however their openings failed, collided or died.
THEOREM SchemasComplete == Spec => []SchemaComplete
  <1>1. IInv => SchemaComplete
    BY DEF IInv
  <1> QED BY <1>1, Inductive, PTL

\* close(): no connection is left open, also not one a thread was opening meanwhile.
THEOREM NoneStaysOpen == Spec => []NoneOpenAfterClose
  <1>1. IInv => NoneOpenAfterClose
    BY DEF IInv
  <1> QED BY <1>1, Inductive, PTL

-----------------------------------------------------------------------------
(* The refinement of AtomicTasks. *)

Got == [t \in Thread |-> GotOf(t)]

\* What the steps of AtomicTasks are of the file and the reports given.
TransitionStep ==
  /\ file'.epoch = file.epoch + 1 /\ file'.log = Append(file.log, file.epoch + 1)
  /\ file'.config \in {file.config, file.epoch + 1} /\ Got' = Got

PruneStep ==
  /\ \E n \in 1..Len(file.log) : file'.log = SubSeq(file.log, n, Len(file.log))
  /\ file'.epoch = file.epoch /\ file'.config = file.config /\ Got' = Got

ReportOf(t) == SameTask(file, file') /\ Got' = [Got EXCEPT ![t] = <<file.epoch, file.config>>]

DoneOf(ts) == SameTask(file, file') /\ Got' = [t \in Thread |-> IF t \in ts THEN <<>> ELSE Got[t]]

AtomicShape ==
  \/ TransitionStep \/ PruneStep
  \/ \E t \in Thread : ReportOf(t)
  \/ \E ts \in SUBSET Thread : DoneOf(ts)
  \/ SameTask(file, file') /\ Got' = Got

LEMMA AtomicShapeIs == AtomicShape => [Atomic!AtomicNext]_(Atomic!avars)
  <1>1. TransitionStep => Atomic!Transition
    BY DEF TransitionStep, Atomic!Transition, Got, GotOf
  <1>2. PruneStep => Atomic!Prune
    BY DEF PruneStep, Atomic!Prune, Got, GotOf
  <1>3. ASSUME NEW t \in Thread, ReportOf(t) PROVE Atomic!Report(t)
    BY <1>3 DEF ReportOf, SameTask, Atomic!Report, Got, GotOf
  <1>4. ASSUME NEW ts \in SUBSET Thread, DoneOf(ts) PROVE Atomic!Done(ts)
    BY <1>4 DEF DoneOf, SameTask, Atomic!Done, Got, GotOf
  <1>5. SameTask(file, file') /\ Got' = Got => UNCHANGED Atomic!avars
    BY DEF SameTask, Atomic!avars, Got, GotOf
  <1> QED BY <1>1, <1>2, <1>3, <1>4, <1>5 DEF AtomicShape, Atomic!AtomicNext

LEMMA GotPut ==
  ASSUME NEW t \in Thread, NEW g, GotOf(t)' = g, \A u \in Thread \ {t} : txn'[u] = txn[u]
  PROVE  Got' = [Got EXCEPT ![t] = g]
  <1>1. \A u \in Thread \ {t} : GotOf(u)' = GotOf(u)
    BY GotSame
  <1> QED BY <1>1 DEF Got

LEMMA ThreadAtomic ==
  ASSUME IInv, NEW t \in Thread, ThreadShape(t), ThreadOnly(t), ReportStep(t)
  PROVE  AtomicShape
  <1>1. \A u \in Thread \ {t} : txn'[u] = txn[u]
    BY DEF ThreadOnly
  <1>2. GotOf(t)' = GotOf(t) => Got' = Got
    <2>1. ASSUME GotOf(t)' = GotOf(t) PROVE Got' = [Got EXCEPT ![t] = GotOf(t)]
      BY <1>1, <2>1, GotPut
    <2> QED BY <2>1 DEF Got
  <1>3. CASE SameTask(file, file')
    <2>1. CASE GotOf(t)' = GotOf(t)
      BY <1>2, <1>3, <2>1 DEF AtomicShape
    <2>2. CASE GotOf(t)' = <<>>
      <3>1. Got' = [Got EXCEPT ![t] = <<>>]
        BY <1>1, <2>2, GotPut
      <3>2. Got' = [u \in Thread |-> IF u \in {t} THEN <<>> ELSE Got[u]]
        BY <3>1 DEF Got
      <3>3. DoneOf({t})
        BY <1>3, <3>2 DEF DoneOf
      <3> QED BY <3>3 DEF AtomicShape
    <2>3. CASE GotOf(t)' = <<file.epoch, file.config>>
      <3>1. ReportOf(t)
        BY <1>1, <1>3, <2>3, GotPut DEF ReportOf
      <3> QED BY <3>1 DEF AtomicShape
    <2> QED BY <2>1, <2>2, <2>3 DEF ReportStep
  <1>4. CASE CommitsRow(t) /\ writer = t
    <2>1. txn[t].at = "commit" /\ txn'[t].at = "note" /\ file' = draft
      BY <1>4 DEF CommitsRow
    <2>2. /\ draft.epoch = file.epoch + 1 /\ draft.config \in {file.config, file.epoch + 1}
          /\ draft.log = Append(file.log, file.epoch + 1)
      BY <1>4, <2>1 DEF IInv, Task
    <2>3. GotOf(t)' = GotOf(t)
      BY <2>1, GotNone, GotNext
    <2>4. TransitionStep
      BY <1>2, <2>1, <2>2, <2>3 DEF TransitionStep
    <2> QED BY <2>4 DEF AtomicShape
  <1>5. CASE Prunes(t)
    <2> DEFINE k == IF Len(file.log) > Cap THEN Len(file.log) - Cap + 1 ELSE 1
    <2>1. PICK f \in FileRec :
            /\ file' = f /\ f.epoch = file.epoch /\ f.config = file.config
            /\ f.log = SubSeq(file.log, k, Len(file.log))
      BY <1>5 DEF Prunes
    <2>2. GotOf(t)' = GotOf(t)
      BY <1>5, GotNone, GotNext DEF Prunes
    <2>3. file.log \in Seq(Nat) /\ Len(file.log) \in Nat /\ Cap \in Nat \ {0}
      BY LenProperties, StoreAssumption DEF IInv, Types, SchemaTypes, FileRec
    <2>4. CASE Len(file.log) = 0
      <3>1. file.log = <<>> /\ k = 1
        BY <2>3, <2>4, EmptySeq
      <3>2. f.log = <<>>
        BY <2>1, <2>4, <3>1, SubSeqEmpty
      <3>3. SameTask(file, file')
        BY <2>1, <3>1, <3>2 DEF SameTask
      <3> QED BY <1>2, <2>2, <3>3 DEF AtomicShape
    <2>5. CASE Len(file.log) # 0
      <3>1. k \in 1..Len(file.log)
        BY <2>3, <2>5
      <3> HIDE DEF k
      <3>2. PruneStep
        BY <1>2, <2>1, <2>2, <3>1 DEF PruneStep
      <3> QED BY <3>2 DEF AtomicShape
    <2> QED BY <2>4, <2>5
  <1> QED BY <1>3, <1>4, <1>5, ThreadTaskStep

LEMMA NextAtomic == IInv /\ [Next]_vars => AtomicShape
  <1> SUFFICES ASSUME IInv, [Next]_vars PROVE AtomicShape
    OBVIOUS
  <1>1. txn' = txn => Got' = Got
    BY DEF Got, GotOf
  <1>2. file' = file => SameTask(file, file')
    BY DEF SameTask
  <1>3. ASSUME NEW p \in Proc, SchemaStep(p) /\ UNCHANGED store PROVE AtomicShape
    <2>1. TaskKept
      BY <1>3, SchemaStepInv, SchemaKeeps
    <2> QED BY <1>1, <1>3, <2>1 DEF store, TaskKept, AtomicShape
  <1>4. ASSUME NEW p \in Proc, CloseMark(p) \/ CloseReturns(p) PROVE AtomicShape
    BY <1>1, <1>2, <1>4, CloseMarkStep, CloseReturnsStep DEF AtomicShape
  <1>5. ASSUME NEW p \in Proc, Crash(p) PROVE AtomicShape
    <2> DEFINE mine == {t \in Thread : ProcOf[t] = p}
    <2>1. Gone(p)
      BY <1>5, CrashShape DEF IInv
    <2>2. ASSUME NEW t \in Thread
          PROVE  GotOf(t)' = IF t \in mine THEN <<>> ELSE GotOf(t)
      <3>1. CASE t \in mine
        <4>1. txn'[t].at = "idle"
          BY <2>1, <3>1, IdleType DEF Gone
        <4> QED BY <3>1, <4>1, GotNext
      <3>2. CASE t \notin mine
        BY <2>1, <3>2, GotSame DEF Gone
      <3> QED BY <3>1, <3>2
    <2>3. Got' = [t \in Thread |-> IF t \in mine THEN <<>> ELSE Got[t]]
      BY <2>2 DEF Got
    <2> HIDE DEF mine
    <2>4. mine \in SUBSET Thread
      BY DEF mine
    <2>5. DoneOf(mine)
      BY <1>2, <2>1, <2>3 DEF DoneOf, Gone
    <2> QED BY <2>4, <2>5 DEF AtomicShape
  <1>6. ASSUME NEW t \in Thread, ThreadStep(t) PROVE AtomicShape
    BY <1>6, ThreadStepInv, ThreadAtomic
  <1>7. CASE UNCHANGED vars
    BY <1>1, <1>2, <1>7 DEF vars, AtomicShape
  <1> QED BY <1>3, <1>4, <1>5, <1>6, <1>7 DEF Next

\* D-1 and D-4 of db.py: whatever the threads of any number of processes interleave, and
\* whenever they fail or die, a change of status takes the epoch after the last and logs
\* it at one moment, and a report is of one moment.
THEOREM KeepsTasksCorrect == Spec => KeepsTasks
  <1>1. Init => Atomic!AtomicInit
    <2> SUFFICES ASSUME Init PROVE Atomic!AtomicInit
      OBVIOUS
    <2>1. Found(file)
      <3>1. world \in World /\ world.files \subseteq Earlier \union {Fresh, Current} /\ file \in world.files
        BY StoreAssumption DEF Init, SchemaInit
      <3> QED BY <3>1, FoundFiles
    <2>2. \A t \in Thread : txn[t].at = "idle"
      BY IdleType DEF Init
    <2>3. Got = [t \in Thread |-> <<>>]
      BY <2>2, GotNone DEF Got
    <2> QED BY <2>1, <2>3 DEF Found, Atomic!AtomicInit, Got, GotOf
  <1>2. IInv /\ [Next]_vars => [Atomic!AtomicNext]_(Atomic!avars)
    BY NextAtomic, AtomicShapeIs
  <1> QED BY <1>1, <1>2, Inductive, PTL DEF Spec, KeepsTasks, Atomic!AtomicSpec

-----------------------------------------------------------------------------
(* Of numbers: remainders. *)

LEMMA ModRange ==
  ASSUME NEW n \in Nat, NEW k \in Nat \ {0}
  PROVE  n % k \in 0..(k-1)
  BY Z3

LEMMA DivDef ==
  ASSUME NEW u \in Nat, NEW a \in Nat \ {0}
  PROVE  u = a * (u \div a) + (u % a) /\ (u \div a) \in Nat
  BY Z3

\* A number has one quotient and one remainder.
LEMMA Uniq ==
  ASSUME NEW k \in Nat \ {0}, NEW q \in Int, NEW r \in 0..(k-1), NEW q2 \in Int, NEW r2 \in 0..(k-1),
         k * q + r = k * q2 + r2
  PROVE  r = r2 /\ q = q2
  <1>1. CASE q = q2
    <2>1. k * q = k * q2
      BY <1>1
    <2>2. k * q \in Int /\ k * q2 \in Int
      OBVIOUS
    <2> QED BY <1>1, <2>1, <2>2
  <1>2. CASE q < q2
    <2>1. k * (q2 - q) >= k
      <3>1. q2 - q >= 1
        BY <1>2
      <3> DEFINE d == q2 - q
      <3>2. d \in Int /\ d >= 1
        BY <3>1
      <3> HIDE DEF d
      <3>3. k * d >= k
        BY <3>2, Z3
      <3> QED BY <3>3 DEF d
    <2>2. k * (q2 - q) = k * q2 - k * q
      OBVIOUS
    <2>3. k * q2 \in Int /\ k * q \in Int
      OBVIOUS
    <2> QED BY <2>1, <2>2, <2>3
  <1>3. CASE q > q2
    <2>1. k * (q - q2) >= k
      <3>1. q - q2 >= 1
        BY <1>3
      <3> DEFINE d == q - q2
      <3>2. d \in Int /\ d >= 1
        BY <3>1
      <3> HIDE DEF d
      <3>3. k * d >= k
        BY <3>2, Z3
      <3> QED BY <3>3 DEF d
    <2>2. k * (q - q2) = k * q - k * q2
      OBVIOUS
    <2>3. k * q2 \in Int /\ k * q \in Int
      OBVIOUS
    <2> QED BY <2>1, <2>2, <2>3
  <1> QED BY <1>1, <1>2, <1>3

\* The remainder of the next number.
LEMMA ModStep ==
  ASSUME NEW n \in Nat, NEW k \in Nat \ {0}
  PROVE  IF (n + 1) % k = 0 THEN n % k = k - 1 ELSE (n + 1) % k = (n % k) + 1
  <1> DEFINE q == n \div k
             r == n % k
             q1 == (n+1) \div k
             r1 == (n+1) % k
  <1>1. n = k * q + r /\ q \in Nat /\ r \in 0..(k-1)
    BY DivDef, ModRange
  <1>2. n + 1 \in Nat
    OBVIOUS
  <1>3. n + 1 = k * q1 + r1 /\ q1 \in Nat /\ r1 \in 0..(k-1)
    BY <1>2, DivDef, ModRange
  <1> HIDE DEF q, r, q1, r1
  <1>4. CASE r < k - 1
    <2>1. k * q \in Int /\ k * q1 \in Int
      BY <1>1, <1>3
    <2>2. r + 1 \in 0..(k-1)
      BY <1>1, <1>4
    <2>3. k * q + (r + 1) = k * q1 + r1
      BY <1>1, <1>3, <2>1
    <2>4. r + 1 = r1
      BY <1>1, <1>3, <2>2, <2>3, Uniq
    <2> QED BY <1>1, <1>4, <2>4 DEF r, r1
  <1>5. CASE r = k - 1
    <2>1. k * (q + 1) = k * q + k
      BY <1>1
    <2>2. k * q \in Int /\ k * q1 \in Int /\ k * (q + 1) \in Int /\ q + 1 \in Int /\ 0 \in 0..(k-1)
      BY <1>1, <1>3
    <2>3. k * (q + 1) + 0 = k * q1 + r1
      BY <1>1, <1>3, <1>5, <2>1, <2>2
    <2>4. 0 = r1
      BY <1>1, <1>3, <2>2, <2>3, Uniq
    <2> QED BY <1>5, <2>4 DEF r, r1
  <1> QED BY <1>1, <1>4, <1>5

-----------------------------------------------------------------------------
(* Of sums over a finite set, as sizes of sets of tokens. *)

\* A set of as many tokens as the weights of the members of X come to.
Tokens(X, m, w) == {c \in X \X (1..m) : c[2] <= w[c[1]]}

Col(x, n) == {x} \X (1..n)

LEMMA ColSize ==
  ASSUME NEW x, NEW n \in Nat
  PROVE  IsFiniteSet(Col(x, n)) /\ Cardinality(Col(x, n)) = n
  <1>1. IsFiniteSet({x}) /\ Cardinality({x}) = 1
    BY FS_Singleton
  <1>2. IsFiniteSet(1..n) /\ Cardinality(1..n) = n
    BY FS_Interval
  <1>3. IsFiniteSet(Col(x, n)) /\ Cardinality(Col(x, n)) = Cardinality({x}) * Cardinality(1..n)
    BY <1>1, <1>2, FS_Product DEF Col
  <1> QED BY <1>1, <1>2, <1>3

LEMMA TokensFinite ==
  ASSUME NEW X, IsFiniteSet(X), NEW m \in Nat, NEW w
  PROVE  IsFiniteSet(Tokens(X, m, w)) /\ Cardinality(Tokens(X, m, w)) \in Nat
  <1>1. IsFiniteSet(1..m)
    BY FS_Interval
  <1>2. IsFiniteSet(X \X (1..m))
    BY <1>1, FS_Product
  <1>3. Tokens(X, m, w) \subseteq X \X (1..m)
    BY DEF Tokens
  <1> QED BY <1>2, <1>3, FS_Subset, FS_CardinalityType

\* One member's weight changes: so does the sum, by as much.
LEMMA TokensPut ==
  ASSUME NEW X, IsFiniteSet(X), NEW m \in Nat, NEW w \in [X -> 0..m], NEW y \in [X -> 0..m],
         NEW x \in X, \A z \in X \ {x} : y[z] = w[z]
  PROVE  Cardinality(Tokens(X, m, y)) + w[x] = Cardinality(Tokens(X, m, w)) + y[x]
  <1> DEFINE R == {c \in X \X (1..m) : c[1] # x /\ c[2] <= w[c[1]]}
  <1>1. Tokens(X, m, w) = R \union Col(x, w[x])
    BY DEF Tokens, Col
  <1>2. Tokens(X, m, y) = R \union Col(x, y[x])
    BY DEF Tokens, Col
  <1>3. R \cap Col(x, w[x]) = {} /\ R \cap Col(x, y[x]) = {}
    BY DEF Col
  <1>4. IsFiniteSet(R) /\ Cardinality(R) \in Nat
    <2>1. R \subseteq Tokens(X, m, w)
      BY DEF Tokens
    <2> QED BY <2>1, TokensFinite, FS_Subset, FS_CardinalityType
  <1>5. w[x] \in Nat /\ y[x] \in Nat
    OBVIOUS
  <1> HIDE DEF R
  <1>6. Cardinality(Tokens(X, m, w)) = Cardinality(R) + w[x]
    <2>1. Cardinality(R \union Col(x, w[x])) = Cardinality(R) + Cardinality(Col(x, w[x])) - Cardinality({})
      BY <1>3, <1>4, <1>5, ColSize, FS_Union
    <2> QED BY <1>1, <1>4, <1>5, <2>1, ColSize, FS_EmptySet
  <1>7. Cardinality(Tokens(X, m, y)) = Cardinality(R) + y[x]
    <2>1. Cardinality(R \union Col(x, y[x])) = Cardinality(R) + Cardinality(Col(x, y[x])) - Cardinality({})
      BY <1>3, <1>4, <1>5, ColSize, FS_Union
    <2> QED BY <1>2, <1>4, <1>5, <2>1, ColSize, FS_EmptySet
  <1> QED BY <1>4, <1>5, <1>6, <1>7

\* Fewer tokens for smaller weights.
LEMMA TokensBelow ==
  ASSUME NEW X, IsFiniteSet(X), NEW m \in Nat, NEW w \in [X -> 0..m], NEW y \in [X -> 0..m],
         \A z \in X : y[z] <= w[z]
  PROVE  Cardinality(Tokens(X, m, y)) <= Cardinality(Tokens(X, m, w))
  <1>1. Tokens(X, m, y) \subseteq Tokens(X, m, w)
    BY DEF Tokens
  <1> QED BY <1>1, TokensFinite, FS_Subset

\* Taking the weights of the members of S away takes at most m tokens for each.
LEMMA TokensGone ==
  ASSUME NEW X, IsFiniteSet(X), NEW m \in Nat, NEW w \in [X -> 0..m], NEW y \in [X -> 0..m],
         NEW S \in SUBSET X, \A z \in X \ S : y[z] = w[z]
  PROVE  Cardinality(Tokens(X, m, w)) <= Cardinality(Tokens(X, m, y)) + m * Cardinality(S)
  <1> DEFINE Y == Tokens(X, m, y)
             L == S \X (1..m)
  <1>1. Tokens(X, m, w) \subseteq Y \union L
    BY DEF Tokens
  <1>2. IsFiniteSet(Y) /\ Cardinality(Y) \in Nat /\ IsFiniteSet(S) /\ Cardinality(S) \in Nat
    BY TokensFinite, FS_Subset, FS_CardinalityType
  <1>3. IsFiniteSet(1..m) /\ Cardinality(1..m) = m
    BY FS_Interval
  <1>4. IsFiniteSet(L) /\ Cardinality(L) = Cardinality(S) * Cardinality(1..m)
    BY <1>2, <1>3, FS_Product
  <1>5. Cardinality(L) = m * Cardinality(S) /\ Cardinality(L) \in Nat
    BY <1>2, <1>3, <1>4
  <1> HIDE DEF Y, L
  <1>6. IsFiniteSet(Y \union L) /\ Cardinality(Y \union L) <= Cardinality(Y) + Cardinality(L)
    <2>1. Cardinality(Y \cap L) \in Nat
      BY <1>2, FS_Subset, FS_CardinalityType
    <2>2. IsFiniteSet(Y \union L) /\ Cardinality(Y \union L) = Cardinality(Y) + Cardinality(L) - Cardinality(Y \cap L)
      BY <1>2, <1>4, FS_Union
    <2> QED BY <1>2, <1>5, <2>1, <2>2
  <1>7. Cardinality(Tokens(X, m, w)) \in Nat /\ Cardinality(Tokens(X, m, w)) <= Cardinality(Y \union L)
    BY <1>1, <1>6, FS_Subset, FS_CardinalityType
  <1>8. Cardinality(Y \union L) \in Nat
    BY <1>6, FS_CardinalityType
  <1>9. Cardinality(Tokens(X, m, w)) <= Cardinality(Y) + Cardinality(L)
    BY <1>2, <1>5, <1>6, <1>7, <1>8
  <1> QED BY <1>5, <1>9 DEF Y

-----------------------------------------------------------------------------
(* How long the log gets. *)

Writing == {ProcOf[t] : t \in world.users}

\* What a process has written since its clock last struck; what a thread owes the
\* table that has a row to note, or a prune it may not get to; and how often it has
\* tried the prune in vain.
Since(p) == clock[p] % Interval
Due(t)   == IF txn[t].at = "note" THEN 1
            ELSE IF txn[t].at = "prune" \/ conn[t] = "closed" THEN Interval ELSE 0
Tried(t) == IF txn[t].at = "prune" THEN txn[t].attempt - 1 ELSE 0

Sinces == [p \in Writing |-> Since(p)]
Dues   == [t \in Thread |-> Due(t)]
Tries  == [t \in Thread |-> Tried(t)]

ClockDebt  == Cardinality(Tokens(Writing, Interval - 1, Sinces))
ThreadDebt == Cardinality(Tokens(Thread, Interval, Dues))
TryDebt    == Cardinality(Tokens(Thread, Attempts, Tries))

Died     == world.crashes - crashes
PerDeath == (Interval - 1) + Interval * Cardinality(Thread)

\* The rows beyond the cap are owed by somebody, or are those of the dead and of the
\* `g` prunes given up; each prune given up took as many faults as it has attempts.
Owed(g)  == Len(file.log) <= Cap + ClockDebt + ThreadDebt + Died * PerDeath + Interval * g
Spent(g) == Attempts * g + TryDebt <= world.faults - faults

\* Whoever is in a transaction uses the file.
Users == \A t \in Thread : txn[t].at # "idle" => t \in world.users

Counted ==
  /\ Users
  /\ crashes <= world.crashes /\ faults <= world.faults
  /\ \E g \in Nat : Owed(g) /\ Spent(g)

LEMMA IntervalType == Interval \in Nat \ {0} /\ Interval - 1 \in Nat
  BY StoreAssumption DEF Interval

LEMMA Sizes ==
  /\ IsFiniteSet(Thread) /\ Cardinality(Thread) \in Nat
  /\ PerDeath \in Nat
  <1>1. IsFiniteSet(Thread) /\ Cardinality(Thread) \in Nat
    BY StoreAssumption, FS_CardinalityType
  <1>2. Interval * Cardinality(Thread) \in Nat
    BY <1>1, IntervalType
  <1> QED BY <1>1, <1>2, IntervalType DEF PerDeath

LEMMA WritingType ==
  ASSUME Types
  PROVE  /\ Writing \in SUBSET Proc /\ IsFiniteSet(Writing) /\ Cardinality(Writing) \in Nat
         /\ world.users \in SUBSET Thread /\ world.faults \in Nat /\ world.crashes \in Nat
  <1>1. world.users \in SUBSET Thread /\ world.faults \in Nat /\ world.crashes \in Nat
    BY StoreAssumption DEF Types, StoreTypes
  <1>2. Writing \in SUBSET Proc
    BY <1>1, StoreAssumption DEF Writing
  <1>3. IsFiniteSet(world.users)
    BY <1>1, Sizes, FS_Subset
  <1>4. IsFiniteSet(Writing)
    <2> DEFINE f == [t \in world.users |-> ProcOf[t]]
    <2>1. f \in Surjection(world.users, Writing)
      BY DEF Surjection, Writing
    <2> QED BY <1>3, <2>1, FS_Surjection
  <1> QED BY <1>1, <1>2, <1>4, FS_CardinalityType

\* What the debts are made of.
DebtTyped ==
  /\ Sinces \in [Writing -> 0..(Interval - 1)]
  /\ Dues \in [Thread -> 0..Interval]
  /\ Tries \in [Thread -> 0..Attempts]
  /\ ClockDebt \in Nat /\ ThreadDebt \in Nat /\ TryDebt \in Nat
  /\ Len(file.log) \in Nat /\ file.log \in Seq(Nat)

LEMMA DebtTypes == Types => DebtTyped
  <1> SUFFICES ASSUME Types PROVE DebtTyped
    OBVIOUS
  <1>1. \A p \in Writing : Since(p) \in 0..(Interval - 1)
    <2>1. ASSUME NEW p \in Writing PROVE Since(p) \in 0..(Interval - 1)
      <3>1. clock[p] \in Nat
        BY WritingType DEF Types, StoreTypes
      <3> QED BY <3>1, IntervalType, ModRange DEF Since
    <2> QED BY <2>1
  <1>2. \A t \in Thread : Due(t) \in 0..Interval
    BY IntervalType DEF Due
  <1>3. \A t \in Thread : Tried(t) \in 0..Attempts
    <2>1. ASSUME NEW t \in Thread PROVE Tried(t) \in 0..Attempts
      <3>1. txn[t].attempt \in 1..Attempts
        BY DEF Types, StoreTypes, TxnRec
      <3> QED BY <3>1, SchemaAssumption DEF Tried
    <2> QED BY <2>1
  <1>4. Sinces \in [Writing -> 0..(Interval - 1)] /\ Dues \in [Thread -> 0..Interval] /\ Tries \in [Thread -> 0..Attempts]
    BY <1>1, <1>2, <1>3 DEF Sinces, Dues, Tries
  <1>5. ClockDebt \in Nat
    BY WritingType, IntervalType, TokensFinite DEF ClockDebt
  <1>6. ThreadDebt \in Nat
    BY Sizes, IntervalType, TokensFinite DEF ThreadDebt
  <1>7. TryDebt \in Nat
    BY Sizes, SchemaAssumption, TokensFinite DEF TryDebt
  <1>8. file.log \in Seq(Nat)
    BY DEF Types, SchemaTypes, FileRec
  <1> QED BY <1>4, <1>5, <1>6, <1>7, <1>8, LenProperties DEF DebtTyped

\* A step of one thread changes what that thread owes.
LEMMA ThreadDebts ==
  ASSUME Types, Types', NEW t \in Thread, ThreadOnly(t)
  PROVE  /\ ThreadDebt' + Due(t) = ThreadDebt + Due(t)'
         /\ TryDebt' + Tried(t) = TryDebt + Tried(t)'
         /\ Writing' = Writing /\ world' = world /\ crashes' = crashes
         /\ Due(t) \in 0..Interval /\ Due(t)' \in 0..Interval
         /\ Tried(t) \in 0..Attempts /\ Tried(t)' \in 0..Attempts
  <1>1. /\ Dues \in [Thread -> 0..Interval] /\ Tries \in [Thread -> 0..Attempts]
        /\ Dues' \in [Thread -> 0..Interval] /\ Tries' \in [Thread -> 0..Attempts]
    <2>1. Types' => DebtTyped'
      BY DebtTypes, PTL
    <2> QED BY <2>1, DebtTypes DEF DebtTyped
  <1>2. \A u \in Thread \ {t} : Dues'[u] = Dues[u] /\ Tries'[u] = Tries[u]
    BY DEF ThreadOnly, Dues, Tries, Due, Tried
  <1>3. Dues[t] = Due(t) /\ Dues'[t] = Due(t)' /\ Tries[t] = Tried(t) /\ Tries'[t] = Tried(t)'
    BY DEF Dues, Tries
  <1>4. Interval \in Nat /\ Attempts \in Nat /\ IsFiniteSet(Thread)
    BY IntervalType, SchemaAssumption, Sizes
  <1> DEFINE d == Dues
             e == Dues'
             f == Tries
             h == Tries'
  <1>5. Cardinality(Tokens(Thread, Interval, e)) + d[t] = Cardinality(Tokens(Thread, Interval, d)) + e[t]
    <2> HIDE DEF d, e
    <2>1. d \in [Thread -> 0..Interval] /\ e \in [Thread -> 0..Interval] /\ \A u \in Thread \ {t} : e[u] = d[u]
      BY <1>1, <1>2 DEF d, e
    <2> QED BY <1>4, <2>1, TokensPut
  <1>6. Cardinality(Tokens(Thread, Attempts, h)) + f[t] = Cardinality(Tokens(Thread, Attempts, f)) + h[t]
    <2> HIDE DEF f, h
    <2>1. f \in [Thread -> 0..Attempts] /\ h \in [Thread -> 0..Attempts] /\ \A u \in Thread \ {t} : h[u] = f[u]
      BY <1>1, <1>2 DEF f, h
    <2> QED BY <1>4, <2>1, TokensPut
  <1>7. ThreadDebt' + Due(t) = ThreadDebt + Due(t)'
    BY <1>3, <1>5 DEF ThreadDebt
  <1>8. TryDebt' + Tried(t) = TryDebt + Tried(t)'
    BY <1>3, <1>6 DEF TryDebt
  <1> QED BY <1>1, <1>3, <1>7, <1>8 DEF ThreadOnly, Writing

-----------------------------------------------------------------------------
(* What the steps owe. *)

Pays(t) ==
  /\ clock' = clock
  /\ Len(file'.log) + Due(t) <= Len(file.log) + Due(t)'
  /\ Tried(t)' + faults' <= Tried(t) + faults

Clears(t) == clock' = clock /\ Len(file'.log) <= Cap /\ Tried(t)' + faults' <= Tried(t) + faults

GivesUp(t) ==
  /\ clock' = clock /\ Len(file'.log) = Len(file.log)
  /\ Tried(t)' = 0 /\ Tried(t) = Attempts - 1 /\ faults' = faults - 1

Notes(t) ==
  /\ t \in world.users
  /\ clock' = [clock EXCEPT ![ProcOf[t]] = @ + 1]
  /\ file' = file /\ faults' = faults /\ Tried(t)' = Tried(t)
  /\ Due(t) = 1
  /\ IF (clock[ProcOf[t]] + 1) % Interval = 0 THEN Due(t)' = Interval ELSE Due(t)' >= 0

\* A thread begins as a user, and only from there goes on.
Begun(t) == txn'[t].at # "idle" => t \in world.users

ThreadPays(t) == (Pays(t) \/ Clears(t) \/ GivesUp(t) \/ Notes(t)) /\ Begun(t)

LEMMA AtHome ==
  ASSUME Types, NEW t \in Thread
  PROVE  /\ txn[t] \in TxnRec /\ txn[t].attempt \in 1..Attempts /\ Attempts \in Nat
         /\ Tried(t) \in Nat /\ faults \in Nat /\ Due(t) \in 0..Interval /\ Interval \in Nat
         /\ Len(file.log) \in Nat
  <1>1. txn[t] \in TxnRec /\ txn[t].attempt \in 1..Attempts /\ faults \in Nat
    BY DEF Types, StoreTypes, SchemaTypes, TxnRec
  <1>2. Len(file.log) \in Nat
    BY DebtTypes DEF DebtTyped
  <1> QED BY <1>1, <1>2, IntervalType, SchemaAssumption DEF Tried, Due

\* Neither the log nor the clock nor the faults change, and the thread neither notes
\* nor prunes.
LEMMA PaysNothing ==
  ASSUME Types, NEW t \in Thread, clock' = clock, file' = file, faults' \in Nat, faults' <= faults,
         txn[t].at \notin {"note", "prune"}, txn'[t].at \notin {"note", "prune"},
         conn[t] = "closed" => conn'[t] = "closed"
  PROVE  Pays(t)
  <1>1. Due(t) = (IF conn[t] = "closed" THEN Interval ELSE 0) /\ Tried(t) = 0
    BY DEF Due, Tried
  <1>2. Due(t)' = (IF conn'[t] = "closed" THEN Interval ELSE 0) /\ Tried(t)' = 0
    BY IntervalType DEF Due, Tried
  <1>3. Due(t) <= Due(t)'
    BY <1>1, <1>2, IntervalType
  <1>4. Len(file'.log) = Len(file.log) /\ Len(file.log) \in Nat /\ faults \in Nat
    BY AtHome
  <1> DEFINE d == Due(t)
             e == Due(t)'
             l == Len(file.log)
             k == Len(file'.log)
             x == Tried(t)
             y == Tried(t)'
             f == faults
             h == faults'
  <1>5. /\ d <= e /\ d \in Nat /\ e \in Nat /\ k = l /\ l \in Nat /\ k \in Nat /\ x = 0 /\ y = 0
        /\ f \in Nat /\ h \in Nat /\ h <= f
    BY <1>1, <1>2, <1>3, <1>4, IntervalType
  <1>6. k + d <= l + e /\ y + h <= x + f
    <2> HIDE DEF d, e, l, k, x, y, f, h
    <2> QED BY <1>5
  <1> QED BY <1>6 DEF Pays

LEMMA ConnectPays ==
  ASSUME Types, Lock, Users, NEW t \in Thread, Connect(t) \/ Register(t)
  PROVE  ThreadPays(t)
  <1>1. /\ clock' = clock /\ file' = file /\ faults' = faults /\ txn' = txn /\ world' = world
        /\ conn[t] \in {"none", "unregistered"} /\ faults \in Nat /\ txn[t].at = "idle"
    BY DEF Connect, Register, schema, Lock, Types, SchemaTypes
  <1>2. Pays(t)
    BY <1>1, PaysNothing
  <1> QED BY <1>1, <1>2 DEF ThreadPays, Begun

LEMMA CloseOnePays ==
  ASSUME Types, Lock, Users, NEW t \in Thread, CloseOne(t)
  PROVE  ThreadPays(t)
  <1>1. /\ clock' = clock /\ file' = file /\ faults' = faults /\ txn' = txn /\ world' = world
        /\ conn[t] = "listed" /\ faults \in Nat /\ Tried(t) \in Nat
        /\ conn' = [conn EXCEPT ![t] = "closed"] /\ conn'[t] = "closed"
    BY AtHome DEF CloseOne, Types, SchemaTypes, StoreTypes
  <1>2. Tried(t)' = Tried(t)
    BY <1>1 DEF Tried
  <1>3. Due(t) <= Due(t)' /\ Due(t) \in Nat /\ Due(t)' \in Nat
    BY <1>1, IntervalType DEF Due
  <1> DEFINE d == Due(t)
             e == Due(t)'
             l == Len(file.log)
             x == Tried(t)
  <1>4. d <= e /\ d \in Nat /\ e \in Nat /\ l \in Nat /\ x \in Nat
    BY <1>1, <1>3, AtHome
  <1>5. l + d <= l + e /\ x + faults' <= x + faults
    <2> HIDE DEF d, e, l, x
    <2> QED BY <1>1, <1>4
  <1>6. Pays(t)
    BY <1>1, <1>2, <1>5 DEF Pays
  <1> QED BY <1>1, <1>6 DEF ThreadPays, Begun, Users

LEMMA InsidePays ==
  ASSUME Types, Lock, Users, NEW t \in Thread,
         \/ BeginWrite(t) \/ BeginImmediate(t) \/ ReadRow(t) \/ WriteRow(t)
         \/ ReadTask(t) \/ ReadConfig(t) \/ EndReport(t)
  PROVE  ThreadPays(t)
  <1>1. /\ clock' = clock /\ file' = file /\ faults' = faults /\ world' = world /\ conn' = conn /\ faults \in Nat
    BY DEF BeginWrite, BeginImmediate, ReadRow, WriteRow, ReadTask, ReadConfig, EndReport, schema,
           Types, SchemaTypes
  <1>2. /\ txn[t].at \notin {"note", "prune"}
        /\ txn[t].at = "idle" => t \in world.users
    BY DEF BeginWrite, BeginImmediate, ReadRow, WriteRow, ReadTask, ReadConfig, EndReport, In, Uses
  <1>3. txn'[t].at \notin {"note", "prune"}
    <2>1. CASE BeginWrite(t)
      BY <2>1, TxnGoto DEF BeginWrite, Types, Places
    <2>2. CASE BeginImmediate(t)
      BY <2>2, TxnGoto DEF BeginImmediate, Types, Places
    <2>3. CASE WriteRow(t)
      BY <2>3, TxnGoto DEF WriteRow, Types, Places
    <2>4. CASE ReadRow(t)
      BY <2>4, ReadRowShape DEF ReadsRow
    <2>5. CASE ReadTask(t)
      <3>1. txn' = [txn EXCEPT ![t] = [@ EXCEPT !.at = "reading", !.seen = file.epoch, !.snap = <<file.config>>]]
        BY <2>5 DEF ReadTask
      <3>2. txn[t] \in TxnRec /\ txn \in [Thread -> TxnRec]
        BY DEF Types, StoreTypes
      <3> QED BY <3>1, <3>2 DEF TxnRec
    <2>6. CASE ReadConfig(t)
      <3>1. txn' = [txn EXCEPT ![t] = [@ EXCEPT !.at = "reported", !.config = txn[t].snap[1], !.snap = <<>>]]
        BY <2>6 DEF ReadConfig
      <3>2. txn[t] \in TxnRec /\ txn \in [Thread -> TxnRec]
        BY DEF Types, StoreTypes
      <3> QED BY <3>1, <3>2 DEF TxnRec
    <2>7. CASE EndReport(t)
      BY <2>7, IdleType DEF EndReport, Types, StoreTypes
    <2> QED BY <2>1, <2>2, <2>3, <2>4, <2>5, <2>6, <2>7
  <1>4. Pays(t)
    BY <1>1, <1>2, <1>3, PaysNothing
  <1> QED BY <1>2, <1>4 DEF ThreadPays, Begun, Users

LEMMA CommitPays ==
  ASSUME Types, Lock, Task, Users, NEW t \in Thread, CommitRow(t)
  PROVE  ThreadPays(t)
  <1>1. /\ clock' = clock /\ faults' = faults /\ world' = world /\ conn' = conn /\ faults \in Nat
        /\ txn[t].at = "commit" /\ Live(t) /\ file' = draft
    BY DEF CommitRow, In, Types, SchemaTypes
  <1>2. txn'[t].at = "note"
    BY CommitRowShape DEF CommitsRow
  <1>3. writer = t
    BY <1>1 DEF Lock
  <1>4. file'.log = Append(file.log, file.epoch + 1)
    BY <1>1, <1>3 DEF Task
  <1>5. Len(file'.log) = Len(file.log) + 1 /\ Len(file.log) \in Nat
    <2>1. file.log \in Seq(Nat) /\ file.epoch + 1 \in Nat
      BY DebtTypes DEF DebtTyped, Types, SchemaTypes, FileRec
    <2> QED BY <1>4, <2>1, AppendProperties, LenProperties
  <1>6. Due(t) = 0 /\ Due(t)' = 1 /\ Tried(t) = 0 /\ Tried(t)' = 0
    BY <1>1, <1>2 DEF Due, Tried, Live
  <1>7. Pays(t)
    BY <1>1, <1>5, <1>6 DEF Pays
  <1> QED BY <1>1, <1>7 DEF ThreadPays, Begun, Users

LEMMA NotePays ==
  ASSUME Types, Lock, Users, NEW t \in Thread, NoteWrite(t)
  PROVE  ThreadPays(t)
  <1> DEFINE n == clock[ProcOf[t]] + 1
  <1>1. /\ clock' = [clock EXCEPT ![ProcOf[t]] = n] /\ file' = file /\ faults' = faults
        /\ txn[t].at = "note" /\ conn' = conn /\ world' = world /\ txn \in [Thread -> TxnRec]
        /\ txn[t] \in TxnRec
    BY DEF NoteWrite, schema, Types, StoreTypes
  <1>2. t \in world.users /\ Due(t) = 1 /\ Tried(t) = 0
    BY <1>1 DEF Users, Due, Tried
  <1>3. CASE n % Interval = 0
    <2> DEFINE r == [txn[t] EXCEPT !.at = "prune", !.attempt = 1]
    <2>1. txn' = [txn EXCEPT ![t] = r]
      BY <1>1, <1>3 DEF NoteWrite
    <2>2. r.at = "prune" /\ r.attempt = 1
      BY <1>1 DEF TxnRec
    <2> HIDE DEF r
    <2>3. txn'[t].at = "prune" /\ txn'[t].attempt = 1
      BY <1>1, <2>1, <2>2
    <2>4. Due(t)' = Interval /\ Tried(t)' = 0
      BY <2>3 DEF Due, Tried
    <2>5. Notes(t)
      BY <1>1, <1>2, <1>3, <2>4 DEF Notes
    <2> QED BY <1>2, <2>5 DEF ThreadPays, Begun
  <1>4. CASE n % Interval # 0
    <2>1. txn'[t] = Idle
      BY <1>1, <1>4 DEF NoteWrite
    <2>2. Due(t)' >= 0 /\ Tried(t)' = 0
      BY <2>1, IdleType, IntervalType DEF Due, Tried
    <2>3. Notes(t)
      BY <1>1, <1>2, <1>4, <2>2 DEF Notes
    <2> QED BY <1>2, <2>3 DEF ThreadPays, Begun
  <1> QED BY <1>3, <1>4

LEMMA PrunePays ==
  ASSUME Types, Lock, Users, NEW t \in Thread, Prune(t)
  PROVE  ThreadPays(t)
  <1>1. clock' = clock /\ faults' = faults
    BY DEF Prune
  <1>2. txn'[t].at = "idle" /\ Prunes(t)
    BY PruneShape DEF Prunes
  <1>3. file'.log = SubSeq(file.log, IF Len(file.log) > Cap THEN Len(file.log) - Cap + 1 ELSE 1, Len(file.log))
    BY <1>2 DEF Prunes
  <1>4. Len(file'.log) <= Cap
    <2> DEFINE k == IF Len(file.log) > Cap THEN Len(file.log) - Cap + 1 ELSE 1
    <2>1. file.log \in Seq(Nat) /\ Len(file.log) \in Nat /\ Cap \in Nat \ {0}
      BY DebtTypes, StoreAssumption DEF DebtTyped
    <2>2. k \in Int /\ k >= 1 /\ k <= Len(file.log) + 1 /\ Len(file.log) - k + 1 <= Cap
      BY <2>1
    <2>3. k \in 1..(Len(file.log) + 1)
      BY <2>1, <2>2
    <2> HIDE DEF k
    <2>4. Len(SubSeq(file.log, k, Len(file.log))) = Len(file.log) - k + 1
      BY <2>1, <2>2, <2>3, SubSeqProperties
    <2> QED BY <1>3, <2>2, <2>4 DEF k
  <1>5. Tried(t)' = 0 /\ Tried(t) \in Nat /\ faults \in Nat
    BY <1>2, AtHome DEF Tried
  <1>6. Clears(t)
    BY <1>1, <1>4, <1>5 DEF Clears
  <1> QED BY <1>2, <1>6 DEF ThreadPays, Begun

LEMMA FaultPays ==
  ASSUME Types, Lock, Users, NEW t \in Thread, StatementFault(t)
  PROVE  ThreadPays(t)
  <1>1. /\ clock' = clock /\ file' = file /\ conn' = conn /\ faults' = faults - 1 /\ faults > 0
        /\ txn[t].at \in {"begin", "read", "write", "commit", "prune"} /\ Live(t)
        /\ txn' = [txn EXCEPT ![t] = IF @.attempt = Attempts THEN Idle ELSE Again(@)]
        /\ txn \in [Thread -> TxnRec]
    BY DEF StatementFault, Types, StoreTypes
  <1>2. txn[t] \in TxnRec /\ txn[t].attempt \in 1..Attempts /\ Attempts \in Nat /\ faults \in Nat /\ Len(file.log) \in Nat
    BY AtHome
  <1>3. txn'[t] = IF txn[t].attempt = Attempts THEN Idle ELSE Again(txn[t])
    BY <1>1
  <1>4. conn[t] # "closed"
    BY <1>1 DEF Live
  <1>5. t \in world.users
    BY <1>1 DEF Users
  <1>6. CASE txn[t].at # "prune"
    <2>1. txn'[t].at \in {"idle", "begin"}
      BY <1>2, <1>3, <1>6, IdleType, AgainType
    <2>2. Pays(t)
      BY <1>1, <1>2, <1>6, <2>1, PaysNothing
    <2> QED BY <1>5, <2>2 DEF ThreadPays, Begun
  <1>7. CASE txn[t].at = "prune" /\ txn[t].attempt # Attempts
    <2>1. txn'[t].at = "prune" /\ txn'[t].attempt = txn[t].attempt + 1
      BY <1>2, <1>3, <1>7, AgainType
    <2>2. Due(t) = Interval /\ Due(t)' = Interval
      BY <1>7, <2>1 DEF Due
    <2>3. Tried(t) = txn[t].attempt - 1 /\ Tried(t)' = txn[t].attempt
      BY <1>2, <1>7, <2>1 DEF Tried
    <2>4. Pays(t)
      BY <1>1, <1>2, <2>2, <2>3, IntervalType DEF Pays
    <2> QED BY <1>5, <2>4 DEF ThreadPays, Begun
  <1>8. CASE txn[t].at = "prune" /\ txn[t].attempt = Attempts
    <2>1. txn'[t].at = "idle"
      BY <1>3, <1>8, IdleType
    <2>2. Tried(t) = Attempts - 1 /\ Tried(t)' = 0
      BY <1>8, <2>1 DEF Tried
    <2>3. GivesUp(t)
      BY <1>1, <2>2 DEF GivesUp
    <2> QED BY <1>5, <2>3 DEF ThreadPays, Begun
  <1> QED BY <1>6, <1>7, <1>8

LEMMA AfterClosePays ==
  ASSUME Types, Lock, Users, NEW t \in Thread, UseAfterClose(t)
  PROVE  ThreadPays(t)
  <1>1. /\ clock' = clock /\ file' = file /\ conn' = conn /\ faults' = faults /\ faults \in Nat
        /\ conn[t] = "closed" /\ txn[t].at # "note" /\ txn' = [txn EXCEPT ![t] = Idle]
        /\ txn \in [Thread -> TxnRec] /\ Len(file.log) \in Nat
    BY AtHome DEF UseAfterClose, schema, Types, StoreTypes
  <1>2. txn'[t].at = "idle"
    BY <1>1, IdleType
  <1>3. Due(t) = Interval /\ Due(t)' = Interval
    BY <1>1, <1>2 DEF Due
  <1>4. Tried(t)' = 0 /\ Tried(t) \in Nat
    BY <1>2, AtHome DEF Tried
  <1>5. Pays(t)
    BY <1>1, <1>3, <1>4, IntervalType DEF Pays
  <1> QED BY <1>2, <1>5 DEF ThreadPays, Begun

LEMMA StepPays ==
  ASSUME Types, Lock, Task, Users, NEW t \in Thread, ThreadStep(t)
  PROVE  ThreadPays(t)
  BY ConnectPays, CloseOnePays, InsidePays, CommitPays, NotePays, PrunePays, FaultPays, AfterClosePays
     DEF ThreadStep

-----------------------------------------------------------------------------
(* The count is kept. *)

\* The numbers of a state, typed.
LEMMA Numbers ==
  ASSUME Types, Counted
  PROVE  /\ Died \in Nat /\ world.faults - faults \in Nat
         /\ Died * PerDeath \in Nat /\ \A g \in Nat : Interval * g \in Nat /\ Attempts * g \in Nat
         /\ Cap \in Nat /\ Interval \in Nat /\ Attempts \in Nat /\ PerDeath \in Nat
         /\ \A g \in Nat : Interval * (g + 1) = Interval * g + Interval /\ Attempts * (g + 1) = Attempts * g + Attempts
  <1>1. crashes \in Nat /\ faults \in Nat /\ world.crashes \in Nat /\ world.faults \in Nat
    BY WritingType DEF Types, SchemaTypes
  <1>2. Died \in Nat /\ world.faults - faults \in Nat
    BY <1>1 DEF Counted, Died
  <1>3. Interval \in Nat /\ Attempts \in Nat /\ Cap \in Nat /\ PerDeath \in Nat
    BY IntervalType, SchemaAssumption, StoreAssumption, Sizes
  <1> QED BY <1>2, <1>3

\* The sums, by themselves.
LEMMA PaySum ==
  ASSUME NEW l \in Nat, NEW k \in Nat, NEW cap \in Nat, NEW c \in Nat, NEW d \in Nat, NEW e \in Nat,
         NEW a \in Nat, NEW b \in Nat, NEW x \in Nat, NEW y \in Nat,
         l <= cap + c + d + a + b, e + x = d + y, k + x <= l + y
  PROVE  k <= cap + c + e + a + b
  OBVIOUS

LEMMA TrySum ==
  ASSUME NEW c \in Nat, NEW d \in Nat, NEW e \in Nat, NEW x \in Nat, NEW y \in Nat,
         NEW w \in Nat, NEW f \in Nat, NEW h \in Nat,
         c + d <= w - f, e + x = d + y, y + h <= x + f
  PROVE  c + e <= w - h
  OBVIOUS

LEMMA NoteSum ==
  ASSUME NEW c \in Nat, NEW e \in Nat, NEW d \in Nat, NEW f \in Nat, NEW i \in Nat,
         NEW s \in Nat, NEW k \in Nat, NEW x \in Nat,
         e + s = c + k, f + 1 = d + x,
         IF k = 0 THEN s = i - 1 /\ x = i ELSE k = s + 1
  PROVE  e + f >= c + d
  OBVIOUS

\* A thread that pays, or prunes.
LEMMA PaysKeeps ==
  ASSUME Types, Types', Counted, NEW t \in Thread, ThreadOnly(t), Begun(t),
         Pays(t) \/ Clears(t)
  PROVE  Counted'
  <1> PICK g \in Nat : Owed(g) /\ Spent(g)
    BY DEF Counted
  <1>1. /\ ThreadDebt' + Due(t) = ThreadDebt + Due(t)' /\ TryDebt' + Tried(t) = TryDebt + Tried(t)'
        /\ Writing' = Writing /\ world' = world /\ crashes' = crashes
        /\ Due(t) \in Nat /\ Due(t)' \in Nat /\ Tried(t) \in Nat /\ Tried(t)' \in Nat
    BY ThreadDebts, IntervalType, SchemaAssumption
  <1>2. DebtTyped /\ DebtTyped'
    <2>1. Types' => DebtTyped'
      BY DebtTypes, PTL
    <2> QED BY <2>1, DebtTypes
  <1>3. clock' = clock /\ faults' <= faults /\ faults' \in Nat /\ faults \in Nat /\ world.faults \in Nat
        /\ Tried(t)' + faults' <= Tried(t) + faults
    BY WritingType DEF Pays, Clears, ThreadOnly, Types, SchemaTypes
  <1>4. ClockDebt' = ClockDebt /\ Died' = Died
    BY <1>1, <1>3 DEF ClockDebt, Sinces, Since, Died
  <1>5. /\ ThreadDebt \in Nat /\ ThreadDebt' \in Nat /\ TryDebt \in Nat /\ TryDebt' \in Nat
        /\ ClockDebt \in Nat /\ Len(file.log) \in Nat /\ Len(file'.log) \in Nat
    BY <1>2 DEF DebtTyped
  <1> DEFINE a == Died * PerDeath
             b == Interval * g
             c == Attempts * g
  <1>6. a \in Nat /\ b \in Nat /\ c \in Nat /\ Cap \in Nat
    BY Numbers
  <1>7. Len(file.log) <= Cap + ClockDebt + ThreadDebt + a + b /\ c + TryDebt <= world.faults - faults
    BY DEF Owed, Spent
  <1> HIDE DEF a, b, c
  <1>8. Len(file'.log) <= Cap + ClockDebt + ThreadDebt' + a + b
    <2>1. CASE Pays(t)
      <3> DEFINE l == Len(file.log)
                 k == Len(file'.log)
                 u == ClockDebt
                 d == ThreadDebt
                 e == ThreadDebt'
                 x == Due(t)
                 y == Due(t)'
      <3>1. k + x <= l + y
        BY <2>1 DEF Pays
      <3>2. l \in Nat /\ k \in Nat /\ u \in Nat /\ d \in Nat /\ e \in Nat /\ x \in Nat /\ y \in Nat
        BY <1>1, <1>5
      <3>3. l <= Cap + u + d + a + b /\ e + x = d + y
        BY <1>1, <1>7
      <3>4. k <= Cap + u + e + a + b
        <4> HIDE DEF l, k, u, d, e, x, y
        <4> QED BY <1>6, <3>1, <3>2, <3>3, PaySum
      <3> QED BY <3>4
    <2>2. CASE Clears(t)
      BY <1>5, <1>6, <2>2 DEF Clears
    <2> QED BY <2>1, <2>2
  <1>9. c + TryDebt' <= world.faults - faults'
    <2> DEFINE d == TryDebt
               e == TryDebt'
               x == Tried(t)
               y == Tried(t)'
               w == world.faults
    <2>1. /\ d \in Nat /\ e \in Nat /\ x \in Nat /\ y \in Nat /\ w \in Nat
          /\ c + d <= w - faults /\ e + x = d + y /\ y + faults' <= x + faults
      BY <1>1, <1>3, <1>5, <1>7
    <2>2. c + e <= w - faults'
      <3> HIDE DEF d, e, x, y, w
      <3> QED BY <1>3, <1>6, <2>1, TrySum
    <2> QED BY <2>2
  <1>10. Owed(g)' /\ Spent(g)'
    BY <1>1, <1>4, <1>8, <1>9 DEF Owed, Spent, a, b, c
  <1>11. Users'
    BY <1>1 DEF Counted, Users, Begun, ThreadOnly
  <1>12. crashes' <= world'.crashes /\ faults' <= world'.faults
    BY <1>1, <1>3 DEF Counted
  <1>13. \E h \in Nat : Owed(h)' /\ Spent(h)'
    BY <1>10
  <1> QED BY <1>11, <1>12, <1>13 DEF Counted

LEMMA GivesUpKeeps ==
  ASSUME Types, Types', Counted, NEW t \in Thread, ThreadOnly(t), Begun(t), GivesUp(t)
  PROVE  Counted'
  <1> PICK g \in Nat : Owed(g) /\ Spent(g)
    BY DEF Counted
  <1>1. /\ ThreadDebt' + Due(t) = ThreadDebt + Due(t)' /\ TryDebt' + Tried(t) = TryDebt + Tried(t)'
        /\ Writing' = Writing /\ world' = world /\ crashes' = crashes
        /\ Due(t) \in 0..Interval /\ Due(t)' \in Nat /\ Tried(t) \in Nat /\ Tried(t)' \in Nat
    BY ThreadDebts, IntervalType, SchemaAssumption
  <1>2. DebtTyped /\ DebtTyped'
    <2>1. Types' => DebtTyped'
      BY DebtTypes, PTL
    <2> QED BY <2>1, DebtTypes
  <1>3. /\ clock' = clock /\ faults' = faults - 1 /\ faults' \in Nat /\ faults \in Nat /\ world.faults \in Nat
        /\ Len(file'.log) = Len(file.log) /\ Tried(t)' = 0 /\ Tried(t) = Attempts - 1
    BY WritingType DEF GivesUp, ThreadOnly, Types, SchemaTypes
  <1>4. ClockDebt' = ClockDebt /\ Died' = Died
    BY <1>1, <1>3 DEF ClockDebt, Sinces, Since, Died
  <1>5. /\ ThreadDebt \in Nat /\ ThreadDebt' \in Nat /\ TryDebt \in Nat /\ TryDebt' \in Nat
        /\ ClockDebt \in Nat /\ Len(file.log) \in Nat /\ Len(file'.log) \in Nat
    BY <1>2 DEF DebtTyped
  <1> DEFINE a == Died * PerDeath
             b == Interval * g
             c == Attempts * g
  <1>6. /\ a \in Nat /\ b \in Nat /\ c \in Nat /\ Cap \in Nat /\ Interval \in Nat /\ Attempts \in Nat
        /\ Interval * (g + 1) = b + Interval /\ Attempts * (g + 1) = c + Attempts
    BY Numbers
  <1>7. Len(file.log) <= Cap + ClockDebt + ThreadDebt + a + b /\ c + TryDebt <= world.faults - faults
    BY DEF Owed, Spent
  <1> HIDE DEF a, b, c
  <1>8. Len(file'.log) <= Cap + ClockDebt + ThreadDebt' + a + (b + Interval)
    <2> DEFINE l == Len(file.log)
               k == Len(file'.log)
               u == ClockDebt
               d == ThreadDebt
               e == ThreadDebt'
               x == Due(t)
               y == Due(t)'
               i == Interval
    <2>1. l \in Nat /\ k \in Nat /\ u \in Nat /\ d \in Nat /\ e \in Nat /\ x \in Nat /\ y \in Nat /\ i \in Nat
      BY <1>1, <1>5, <1>6
    <2>2. l <= Cap + u + d + a + b /\ e + x = d + y /\ k = l /\ x <= i
      BY <1>1, <1>3, <1>7
    <2>3. k <= Cap + u + e + a + (b + i)
      <3> HIDE DEF l, k, u, d, e, x, y, i
      <3> QED BY <1>6, <2>1, <2>2
    <2> QED BY <2>3
  <1>9. (c + Attempts) + TryDebt' <= world.faults - faults'
    <2> DEFINE d == TryDebt
               e == TryDebt'
               x == Tried(t)
               y == Tried(t)'
               w == world.faults
    <2>1. /\ d \in Nat /\ e \in Nat /\ x \in Nat /\ y \in Nat /\ w \in Nat
          /\ c + d <= w - faults /\ e + x = d + y /\ y = 0 /\ x = Attempts - 1 /\ faults' = faults - 1
      BY <1>1, <1>3, <1>5, <1>7
    <2>2. (c + Attempts) + e <= w - faults'
      <3> HIDE DEF d, e, x, y, w
      <3> QED BY <1>3, <1>6, <2>1
    <2> QED BY <2>2
  <1>10. Owed(g + 1)' /\ Spent(g + 1)'
    BY <1>1, <1>4, <1>6, <1>8, <1>9 DEF Owed, Spent, a
  <1>11. Users'
    BY <1>1 DEF Counted, Users, Begun, ThreadOnly
  <1>12. crashes' <= world'.crashes /\ faults' <= world'.faults
    BY <1>1, <1>3 DEF Counted
  <1>13. \E h \in Nat : Owed(h)' /\ Spent(h)'
    <2>1. g + 1 \in Nat
      OBVIOUS
    <2> QED BY <1>10, <2>1
  <1> QED BY <1>11, <1>12, <1>13 DEF Counted

\* The clock of one process moves on.
LEMMA ClockDebts ==
  ASSUME Types, Types', world' = world, NEW p \in Writing, NEW n \in Nat,
         clock' = [clock EXCEPT ![p] = n]
  PROVE  /\ ClockDebt' + Since(p) = ClockDebt + (n % Interval)
         /\ Since(p) \in 0..(Interval - 1)
  <1>1. Writing' = Writing /\ Writing \in SUBSET Proc /\ IsFiniteSet(Writing) /\ clock \in [Proc -> Nat]
    BY WritingType DEF Writing, Types, StoreTypes
  <1>2. Sinces \in [Writing -> 0..(Interval - 1)] /\ Sinces' \in [Writing -> 0..(Interval - 1)]
    <2>1. Types' => DebtTyped'
      BY DebtTypes, PTL
    <2> QED BY <1>1, <2>1, DebtTypes DEF DebtTyped
  <1>3. clock'[p] = n /\ \A q \in Writing \ {p} : clock'[q] = clock[q]
    BY <1>1
  <1>4. Sinces[p] = Since(p) /\ Sinces'[p] = n % Interval
    BY <1>1, <1>3 DEF Sinces, Since
  <1>5. \A q \in Writing \ {p} : Sinces'[q] = Sinces[q]
    BY <1>1, <1>3 DEF Sinces, Since
  <1> DEFINE s == Sinces
             r == Sinces'
             m == Interval - 1
  <1>6. Cardinality(Tokens(Writing, m, r)) + s[p] = Cardinality(Tokens(Writing, m, s)) + r[p]
    <2>1. s \in [Writing -> 0..m] /\ r \in [Writing -> 0..m] /\ m \in Nat
      BY <1>2, IntervalType
    <2>2. \A q \in Writing \ {p} : r[q] = s[q]
      BY <1>5
    <2> HIDE DEF s, r, m
    <2> QED BY <1>1, <2>1, <2>2, TokensPut
  <1>7. ClockDebt' = Cardinality(Tokens(Writing, m, r)) /\ ClockDebt = Cardinality(Tokens(Writing, m, s))
    BY <1>1 DEF ClockDebt
  <1> QED BY <1>2, <1>4, <1>6, <1>7

LEMMA NotesKeeps ==
  ASSUME Types, Types', Counted, NEW t \in Thread, ThreadOnly(t), Begun(t), Notes(t)
  PROVE  Counted'
  <1> PICK g \in Nat : Owed(g) /\ Spent(g)
    BY DEF Counted
  <1> DEFINE p == ProcOf[t]
             n == clock[p] + 1
  <1>1. /\ ThreadDebt' + Due(t) = ThreadDebt + Due(t)' /\ TryDebt' + Tried(t) = TryDebt + Tried(t)'
        /\ Writing' = Writing /\ world' = world /\ crashes' = crashes
        /\ Due(t) \in 0..Interval /\ Due(t)' \in 0..Interval /\ Tried(t) \in Nat /\ Tried(t)' \in Nat
    BY ThreadDebts, IntervalType, SchemaAssumption
  <1>2. DebtTyped /\ DebtTyped'
    <2>1. Types' => DebtTyped'
      BY DebtTypes, PTL
    <2> QED BY <2>1, DebtTypes
  <1>3. /\ file' = file /\ faults' = faults /\ Tried(t)' = Tried(t) /\ Due(t) = 1
        /\ clock' = [clock EXCEPT ![p] = n] /\ clock[p] \in Nat
        /\ t \in world.users /\ p \in Writing
    <2>1. t \in world.users /\ p \in Writing
      BY DEF Notes, Writing
    <2>2. clock[p] \in Nat
      BY <2>1, WritingType DEF Types, StoreTypes
    <2>3. clock' = [clock EXCEPT ![p] = clock[p] + 1]
      BY DEF Notes
    <2> QED BY <2>1, <2>2, <2>3 DEF Notes
  <1>4. ClockDebt' + Since(p) = ClockDebt + (n % Interval) /\ Since(p) \in 0..(Interval - 1)
    <2>1. n \in Nat
      BY <1>3
    <2> HIDE DEF n, p
    <2> QED BY <1>1, <1>3, <2>1, ClockDebts
  <1>5. IF n % Interval = 0 THEN Since(p) = Interval - 1 ELSE n % Interval = Since(p) + 1
    BY <1>3, IntervalType, ModStep DEF Since
  <1>6. IF n % Interval = 0 THEN Due(t)' = Interval ELSE Due(t)' >= 0
    BY DEF Notes
  <1>7. /\ ThreadDebt \in Nat /\ ThreadDebt' \in Nat /\ TryDebt \in Nat /\ TryDebt' \in Nat
        /\ ClockDebt \in Nat /\ ClockDebt' \in Nat /\ Len(file.log) \in Nat
    BY <1>2 DEF DebtTyped
  <1>8. Interval \in Nat \ {0} /\ n % Interval \in 0..(Interval - 1)
    <2>1. n \in Nat
      BY <1>3
    <2> HIDE DEF n
    <2> QED BY <2>1, IntervalType, ModRange
  <1> DEFINE k == n % Interval
             s == Since(p)
             i == Interval
             d == Due(t)'
  <1>9. ClockDebt' + ThreadDebt' >= ClockDebt + ThreadDebt
    <2>1. ClockDebt' + s = ClockDebt + k /\ ThreadDebt' + 1 = ThreadDebt + d
      BY <1>1, <1>3, <1>4
    <2>2. IF k = 0 THEN s = i - 1 /\ d = i ELSE k = s + 1
      BY <1>5, <1>6
    <2>3. s \in Nat /\ k \in Nat /\ i \in Nat /\ d \in Nat
      BY <1>1, <1>4, <1>8
    <2> HIDE DEF k, s, i, d
    <2> QED BY <1>7, <2>1, <2>2, <2>3, NoteSum
  <1>10. Died' = Died /\ TryDebt' = TryDebt
    <2>1. Died' = Died
      BY <1>1 DEF Died
    <2> HIDE DEF Tried, TryDebt
    <2>2. TryDebt' = TryDebt
      BY <1>1, <1>3, <1>7
    <2> QED BY <2>1, <2>2
  <1> DEFINE a == Died * PerDeath
             b == Interval * g
  <1>11. a \in Nat /\ b \in Nat /\ Cap \in Nat
    BY Numbers
  <1>12. Len(file.log) <= Cap + ClockDebt' + ThreadDebt' + a + b
    <2> DEFINE l == Len(file.log)
               c == ClockDebt
               f == ThreadDebt
               e == ClockDebt'
               h == ThreadDebt'
    <2>1. l <= Cap + c + f + a + b
      BY DEF Owed
    <2>2. /\ l \in Nat /\ c \in Nat /\ f \in Nat /\ e \in Nat /\ h \in Nat /\ a \in Nat /\ b \in Nat
          /\ Cap \in Nat /\ e + h >= c + f
      BY <1>7, <1>9, <1>11
    <2>3. l <= Cap + e + h + a + b
      <3> HIDE DEF a, b, c, e, f, h, l
      <3> QED BY <2>1, <2>2
    <2> QED BY <2>3
  <1>13. Owed(g)' /\ Spent(g)'
    BY <1>1, <1>3, <1>10, <1>12 DEF Owed, Spent
  <1>14. Users'
    BY <1>1 DEF Counted, Users, Begun, ThreadOnly
  <1>15. crashes' <= world'.crashes /\ faults' <= world'.faults
    BY <1>1, <1>3 DEF Counted
  <1>16. \E h \in Nat : Owed(h)' /\ Spent(h)'
    BY <1>13
  <1> QED BY <1>14, <1>15, <1>16 DEF Counted

\* A step in which no thread and no clock changes, and the log neither.
LEMMA StillKeeps ==
  ASSUME Types, Counted, txn' = txn, clock' = clock, world' = world, crashes' = crashes,
         file'.log = file.log, faults' \in Nat, faults' <= faults, Died' = Died,
         \A t \in Thread : Due(t)' = Due(t)
  PROVE  Counted'
  <1> PICK g \in Nat : Owed(g) /\ Spent(g)
    BY DEF Counted
  <1>1. ClockDebt' = ClockDebt
    BY DEF ClockDebt, Sinces, Since, Writing
  <1>2. ThreadDebt' = ThreadDebt
    <2>1. Dues' = Dues
      BY DEF Dues
    <2> QED BY <2>1 DEF ThreadDebt
  <1>3. TryDebt' = TryDebt
    BY DEF TryDebt, Tries, Tried
  <1>4. world.faults \in Nat /\ faults \in Nat /\ faults <= world.faults
    BY WritingType DEF Types, SchemaTypes, Counted
  <1>5. TryDebt \in Nat /\ Attempts * g \in Nat
    BY DebtTypes, Numbers DEF DebtTyped
  <1>6. Attempts * g + TryDebt <= world.faults - faults
    BY DEF Spent
  <1>7. Attempts * g + TryDebt <= world.faults - faults'
    BY <1>4, <1>5, <1>6
  <1>8. Owed(g)' /\ Spent(g)'
    BY <1>1, <1>2, <1>3, <1>7 DEF Owed, Spent
  <1>9. crashes' <= world'.crashes /\ faults' <= world'.faults
    BY <1>4 DEF Counted
  <1>10. \E h \in Nat : Owed(h)' /\ Spent(h)'
    BY <1>8
  <1> QED BY <1>9, <1>10 DEF Counted, Users

LEMMA SchemaCounts ==
  ASSUME IInv, Counted, NEW p \in Proc, SchemaStep(p), UNCHANGED store
  PROVE  Counted'
  <1>1. SchemaShape(p) /\ OpenerStep(p)
    BY SchemaShapes DEF IInv, Types
  <1>2. file'.log = file.log
    BY <1>1, SchemaKeeps DEF TaskKept, SameTask
  <1>3. /\ txn' = txn /\ clock' = clock /\ world' = world /\ conn' = conn
        /\ crashes' = crashes /\ faults' \in Nat /\ faults' <= faults
    BY <1>1 DEF store, OpenerStep
  <1>4. Died' = Died /\ \A t \in Thread : Due(t)' = Due(t)
    BY <1>3 DEF Died, Due
  <1> QED BY <1>2, <1>3, <1>4, StillKeeps DEF IInv

LEMMA CloseCounts ==
  ASSUME IInv, Counted, NEW p \in Proc, CloseMark(p) \/ CloseReturns(p)
  PROVE  Counted'
  <1>1. /\ file' = file /\ txn' = txn /\ clock' = clock /\ world' = world
        /\ crashes' = crashes /\ faults' = faults /\ faults \in Nat
    BY DEF CloseMark, CloseReturns, schema, IInv, Types, SchemaTypes
  <1>2. \A t \in Thread : conn'[t] = "closed" <=> conn[t] = "closed"
    <2>1. CASE CloseReturns(p)
      BY <2>1 DEF CloseReturns
    <2>2. CASE CloseMark(p)
      <3>1. conn' = [t \in Thread |-> IF ProcOf[t] = p /\ conn[t] = "open" THEN "listed" ELSE conn[t]]
        BY <2>2 DEF CloseMark
      <3> QED BY <3>1
    <2> QED BY <2>1, <2>2
  <1>3. Died' = Died /\ \A t \in Thread : Due(t)' = Due(t)
    BY <1>1, <1>2 DEF Died, Due
  <1>4. faults' <= faults
    BY <1>1
  <1> QED BY <1>1, <1>3, <1>4, StillKeeps DEF IInv

LEMMA ThreadCounts ==
  ASSUME IInv, IInv', Counted, NEW t \in Thread, ThreadStep(t)
  PROVE  Counted'
  <1>1. ThreadOnly(t)
    BY ThreadStepInv
  <1>2. ThreadPays(t)
    BY StepPays DEF IInv, Counted
  <1>3. Types /\ Types'
    BY DEF IInv
  <1> QED BY <1>1, <1>2, <1>3, PaysKeeps, GivesUpKeeps, NotesKeeps DEF ThreadPays

\* The debts of the threads of a process that dies, and of its clock, are written off.
LEMMA CrashCounts ==
  ASSUME IInv, IInv', Counted, NEW p \in Proc, Crash(p)
  PROVE  Counted'
  <1> PICK g \in Nat : Owed(g) /\ Spent(g)
    BY DEF Counted
  <1> DEFINE mine == {t \in Thread : ProcOf[t] = p}
  <1>1. /\ Gone(p) /\ file' = file /\ faults' = faults /\ world' = world /\ crashes' = crashes - 1
        /\ crashes > 0 /\ crashes \in Nat /\ faults \in Nat
        /\ clock' = [clock EXCEPT ![p] = 0] /\ clock \in [Proc -> Nat]
    BY CrashShape DEF Crash, IInv, Types, SchemaTypes, StoreTypes
  <1>2. Types /\ Types' /\ DebtTyped /\ DebtTyped'
    <2>1. Types' => DebtTyped'
      BY DebtTypes, PTL
    <2> QED BY <2>1, DebtTypes DEF IInv
  <1>3. /\ IsFiniteSet(Thread) /\ Cardinality(Thread) \in Nat /\ Interval \in Nat \ {0} /\ Attempts \in Nat
        /\ Interval - 1 \in Nat
    BY Sizes, IntervalType, SchemaAssumption
  <1>4. /\ \A t \in Thread : IF t \in mine THEN conn'[t] = "none" /\ txn'[t] = Idle
                             ELSE conn'[t] = conn[t] /\ txn'[t] = txn[t]
    BY <1>1 DEF Gone
  <1>5. ThreadDebt <= ThreadDebt' + Interval * Cardinality(Thread)
    <2>1. \A t \in Thread \ mine : Dues'[t] = Dues[t]
      BY <1>4 DEF Dues, Due
    <2> DEFINE d == Dues
               e == Dues'
               i == Interval
    <2>2. d \in [Thread -> 0..i] /\ e \in [Thread -> 0..i] /\ mine \in SUBSET Thread /\ i \in Nat
      BY <1>2, <1>3 DEF DebtTyped
    <2>3. Cardinality(Tokens(Thread, i, d)) <= Cardinality(Tokens(Thread, i, e)) + i * Cardinality(mine)
      <3> HIDE DEF d, e, i, mine
      <3> QED BY <1>3, <2>1, <2>2, TokensGone DEF d, e
    <2>4. Cardinality(mine) \in Nat /\ Cardinality(mine) <= Cardinality(Thread)
      <3> HIDE DEF mine
      <3> QED BY <1>3, <2>2, FS_Subset, FS_CardinalityType
    <2>5. i * Cardinality(mine) <= i * Cardinality(Thread)
      <3> DEFINE x == Cardinality(mine)
                 y == Cardinality(Thread)
      <3> HIDE DEF x, y, i
      <3>1. x \in Nat /\ y \in Nat /\ i \in Nat /\ x <= y
        BY <1>3, <2>2, <2>4 DEF x, y
      <3>2. i * x <= i * y
        BY <3>1, Z3
      <3> QED BY <3>2 DEF x, y
    <2>6. ThreadDebt = Cardinality(Tokens(Thread, i, d)) /\ ThreadDebt' = Cardinality(Tokens(Thread, i, e))
      BY DEF ThreadDebt
    <2> DEFINE a == ThreadDebt
               b == ThreadDebt'
               x == i * Cardinality(mine)
               y == i * Cardinality(Thread)
    <2>7. a \in Nat /\ b \in Nat /\ x <= y /\ a <= b + x
      BY <1>2, <2>3, <2>5, <2>6 DEF DebtTyped
    <2>8. x \in Nat /\ y \in Nat
      <3> DEFINE u == Cardinality(mine)
                 v == Cardinality(Thread)
      <3>1. u \in Nat /\ v \in Nat /\ i \in Nat
        BY <1>3, <2>2, <2>4
      <3>2. i * u \in Nat /\ i * v \in Nat
        <4> HIDE DEF u, v, i
        <4> QED BY <3>1
      <3> QED BY <3>2
    <2>9. a <= b + y
      <3> HIDE DEF a, b, x, y
      <3> QED BY <2>7, <2>8
    <2> QED BY <2>9
  <1>6. ClockDebt <= ClockDebt' + (Interval - 1)
    <2> DEFINE a == ClockDebt
               b == ClockDebt'
               i == Interval
    <2>1. a \in Nat /\ b \in Nat /\ i \in Nat \ {0}
      BY <1>2, <1>3 DEF DebtTyped
    <2>2. CASE p \in Writing
      <3>1. /\ ClockDebt' + Since(p) = ClockDebt + (0 % Interval) /\ Since(p) \in 0..(Interval - 1)
        BY <1>1, <1>2, <2>2, ClockDebts
      <3>2. 0 % i \in Nat
        <4>1. 0 % i \in 0..(i - 1)
          BY <2>1, ModRange
        <4> QED BY <2>1, <4>1
      <3> DEFINE s == Since(p)
                 z == 0 % i
      <3>3. b + s = a + z /\ s \in 0..(i - 1) /\ z \in Nat
        BY <3>1, <3>2
      <3>4. a <= b + (i - 1)
        <4> HIDE DEF a, b, i, s, z
        <4> QED BY <2>1, <3>3
      <3> QED BY <3>4
    <2>3. CASE p \notin Writing
      <3>1. Writing \in SUBSET Proc
        BY <1>2, WritingType
      <3>2. \A q \in Writing : clock'[q] = clock[q]
        BY <1>1, <2>3, <3>1
      <3>3. Sinces' = Sinces /\ Writing' = Writing
        BY <1>1, <3>2 DEF Sinces, Since, Writing
      <3>4. a = b
        BY <3>3 DEF ClockDebt
      <3> HIDE DEF a, b, i
      <3>5. a <= b + (i - 1)
        BY <2>1, <3>4
      <3> QED BY <3>5 DEF a, b, i
    <2> QED BY <2>2, <2>3
  <1>7. TryDebt' <= TryDebt
    <2> DEFINE d == Tries
               e == Tries'
    <2>1. d \in [Thread -> 0..Attempts] /\ e \in [Thread -> 0..Attempts]
      BY <1>2 DEF DebtTyped
    <2>2. \A t \in Thread : Tries'[t] <= Tries[t]
      <3>1. ASSUME NEW t \in Thread PROVE Tries'[t] <= Tries[t]
        <4>1. Tries[t] \in 0..Attempts /\ Tries'[t] = Tried(t)' /\ Tries[t] = Tried(t)
          BY <2>1 DEF Tries
        <4>2. CASE t \in mine
          <5>1. Tried(t)' = 0
            BY <1>4, <4>2, IdleType DEF Tried
          <5> HIDE DEF Tried
          <5> QED BY <1>3, <4>1, <5>1
        <4>3. CASE t \notin mine
          <5>1. Tried(t)' = Tried(t)
            BY <1>4, <4>3 DEF Tried
          <5> HIDE DEF Tried
          <5> QED BY <1>3, <4>1, <5>1
        <4> QED BY <4>2, <4>3
      <3> QED BY <3>1
    <2>3. Cardinality(Tokens(Thread, Attempts, e)) <= Cardinality(Tokens(Thread, Attempts, d))
      <3>1. \A t \in Thread : e[t] <= d[t]
        BY <2>2
      <3> HIDE DEF d, e
      <3> QED BY <1>3, <2>1, <3>1, TokensBelow
    <2> QED BY <2>3 DEF TryDebt
  <1>8. Died' * PerDeath = Died * PerDeath + PerDeath
    <2>1. Died \in Nat /\ PerDeath \in Nat
      BY <1>2, Numbers
    <2>2. Died' = Died + 1
      <3>1. world.crashes \in Nat
        BY <1>2, WritingType
      <3> QED BY <1>1, <3>1 DEF Died
    <2> DEFINE x == Died
               y == PerDeath
    <2>3. (x + 1) * y = x * y + y
      <3> HIDE DEF x, y
      <3>1. x \in Nat /\ y \in Nat
        BY <2>1 DEF x, y
      <3> QED BY <3>1
    <2> QED BY <2>2, <2>3
  <1>9. Owed(g)'
    <2> DEFINE l == Len(file.log)
               a == ClockDebt
               a2 == ClockDebt'
               b == ThreadDebt
               b2 == ThreadDebt'
               c == Died * PerDeath
               c2 == Died' * PerDeath
               x == Interval - 1
               y == Interval * Cardinality(Thread)
               z == Interval * g
    <2>1. /\ l \in Nat /\ a \in Nat /\ a2 \in Nat /\ b \in Nat /\ b2 \in Nat /\ c \in Nat /\ z \in Nat
          /\ x \in Nat /\ y \in Nat /\ Cap \in Nat
      BY <1>2, <1>3, Numbers DEF DebtTyped
    <2>2. /\ l <= Cap + a + b + c + z /\ a <= a2 + x /\ b <= b2 + y /\ c2 = c + (x + y)
      BY <1>5, <1>6, <1>8 DEF Owed, PerDeath
    <2>3. l <= Cap + a2 + b2 + c2 + z
      <3> HIDE DEF l, a, a2, b, b2, c, c2, x, y, z
      <3> QED BY <2>1, <2>2
    <2> QED BY <1>1, <2>3 DEF Owed
  <1>10. Spent(g)'
    <2> DEFINE d == TryDebt
               e == TryDebt'
               c == Attempts * g
               w == world.faults
    <2>1. d \in Nat /\ e \in Nat /\ c \in Nat /\ w \in Nat /\ e <= d /\ c + d <= w - faults
      BY <1>2, <1>7, WritingType, Numbers DEF DebtTyped, Spent
    <2>2. c + e <= w - faults
      <3> HIDE DEF d, e, c, w
      <3> QED BY <1>1, <2>1
    <2> QED BY <1>1, <2>2 DEF Spent
  <1>11. Users'
    <2>1. \A t \in Thread : txn'[t].at # "idle" => txn[t].at # "idle"
      BY <1>4, IdleType
    <2> QED BY <1>1, <2>1 DEF Counted, Users
  <1>12. crashes' <= world'.crashes /\ faults' <= world'.faults
    <2>1. world.crashes \in Nat
      BY <1>2, WritingType
    <2> QED BY <1>1, <2>1 DEF Counted
  <1>13. \E h \in Nat : Owed(h)' /\ Spent(h)'
    BY <1>9, <1>10
  <1> QED BY <1>11, <1>12, <1>13 DEF Counted

\* Nobody owes anything of weights that are all zero.
LEMMA TokensNone ==
  ASSUME NEW X, NEW m \in Nat, NEW w, \A z \in X : w[z] = 0
  PROVE  Cardinality(Tokens(X, m, w)) = 0
  <1>1. Tokens(X, m, w) = {}
    BY DEF Tokens
  <1> QED BY <1>1, FS_EmptySet

LEMMA CountedInit == Init => Counted
  <1> SUFFICES ASSUME Init PROVE Counted
    OBVIOUS
  <1>1. Types /\ DebtTyped
    BY InitInv, DebtTypes DEF IInv
  <1>2. /\ file.log = <<>> /\ faults = world.faults /\ crashes = world.crashes
        /\ conn = [t \in Thread |-> "none"] /\ txn = [t \in Thread |-> Idle]
    <2>1. world \in World /\ file \in world.files
      BY DEF Init, SchemaInit
    <2>2. Found(file)
      BY <2>1, StoreAssumption, FoundFiles
    <2> QED BY <2>2 DEF Init, Found
  <1>3. \A t \in Thread : Tries[t] = 0
    BY <1>2, IdleType DEF Tries, Tried
  <1>4. TryDebt = 0
    BY <1>3, SchemaAssumption, TokensNone DEF TryDebt
  <1>5. world.faults \in Nat /\ world.crashes \in Nat
    BY <1>1, WritingType
  <1>6. Spent(0)
    <2>1. Attempts * 0 = 0
      BY SchemaAssumption
    <2> QED BY <1>2, <1>4, <1>5, <2>1 DEF Spent
  <1>7. Owed(0)
    <2> DEFINE a == ClockDebt
               b == ThreadDebt
    <2>1. a \in Nat /\ b \in Nat /\ Cap \in Nat /\ Len(file.log) = 0
      BY <1>1, <1>2, StoreAssumption, EmptySeq DEF DebtTyped
    <2>2. Died * PerDeath = 0 /\ Interval * 0 = 0
      BY <1>2, <1>5, Sizes, IntervalType DEF Died
    <2>3. Len(file.log) <= Cap + a + b + Died * PerDeath + Interval * 0
      <3> HIDE DEF a, b
      <3> QED BY <2>1, <2>2
    <2> QED BY <2>3 DEF Owed
  <1>8. Users
    BY <1>2, IdleType DEF Users
  <1>9. \E g \in Nat : Owed(g) /\ Spent(g)
    BY <1>6, <1>7
  <1> QED BY <1>2, <1>5, <1>8, <1>9 DEF Counted

LEMMA CountedNext == IInv /\ IInv' /\ Counted /\ [Next]_vars => Counted'
  <1> SUFFICES ASSUME IInv, IInv', Counted, [Next]_vars PROVE Counted'
    OBVIOUS
  <1>1. ASSUME NEW p \in Proc, SchemaStep(p) /\ UNCHANGED store PROVE Counted'
    BY <1>1, SchemaCounts
  <1>2. ASSUME NEW p \in Proc, CloseMark(p) \/ CloseReturns(p) PROVE Counted'
    BY <1>2, CloseCounts
  <1>3. ASSUME NEW p \in Proc, Crash(p) PROVE Counted'
    BY <1>3, CrashCounts
  <1>4. ASSUME NEW t \in Thread, ThreadStep(t) PROVE Counted'
    BY <1>4, ThreadCounts
  <1>5. CASE UNCHANGED vars
    <2>1. /\ file' = file /\ txn' = txn /\ clock' = clock /\ world' = world /\ conn' = conn
          /\ crashes' = crashes /\ faults' = faults /\ faults \in Nat
      BY <1>5 DEF vars, IInv, Types, SchemaTypes
    <2>2. Died' = Died /\ \A t \in Thread : Due(t)' = Due(t)
      BY <2>1 DEF Died, Due
    <2>3. faults' <= faults
      BY <2>1
    <2> QED BY <2>1, <2>2, <2>3, StillKeeps DEF IInv
  <1> QED BY <1>1, <1>2, <1>3, <1>4, <1>5 DEF Next

\* The clocks of the processes that write hold less than an interval each; the threads
\* that have a row to note hold one, those that may not get to their prune an interval.
LEMMA DebtsBounded ==
  ASSUME Types
  PROVE  /\ ClockDebt <= (Interval - 1) * Cardinality(Writing)
         /\ ThreadDebt <= Cardinality({t \in Thread : txn[t].at = "note"})
                          + Interval * Cardinality({t \in Thread : txn[t].at = "prune" \/ conn[t] = "closed"})
  <1> DEFINE i == Interval
             m == Interval - 1
  <1>1. i \in Nat \ {0} /\ m \in Nat /\ IsFiniteSet(Writing) /\ Cardinality(Writing) \in Nat /\ IsFiniteSet(Thread)
    BY IntervalType, WritingType, Sizes
  <1>2. ClockDebt <= m * Cardinality(Writing)
    <2> DEFINE w == Sinces
               y == [p \in Writing |-> 0]
    <2>1. w \in [Writing -> 0..m]
      BY DebtTypes DEF DebtTyped
    <2>2. y \in [Writing -> 0..m] /\ \A p \in Writing : y[p] = 0
      BY <1>1
    <2>3. Writing \in SUBSET Writing /\ \A p \in Writing \ Writing : y[p] = w[p]
      OBVIOUS
    <2>4. ClockDebt = Cardinality(Tokens(Writing, m, w))
      BY DEF ClockDebt
    <2> HIDE DEF m, w, y
    <2>5. Cardinality(Tokens(Writing, m, w)) <= Cardinality(Tokens(Writing, m, y)) + m * Cardinality(Writing)
      BY <1>1, <2>1, <2>2, <2>3, TokensGone
    <2>6. Cardinality(Tokens(Writing, m, y)) = 0
      BY <1>1, <2>2, TokensNone
    <2>7. m * Cardinality(Writing) \in Nat
      BY <1>1
    <2> DEFINE k == m * Cardinality(Writing)
               c == Cardinality(Tokens(Writing, m, w))
    <2>8. c <= k
      <3>1. c <= 0 + k /\ k \in Nat /\ c \in Nat
        BY <1>1, <2>5, <2>6, <2>7, TokensFinite
      <3> HIDE DEF c, k
      <3> QED BY <3>1
    <2> QED BY <2>4, <2>8
  <1>3. ThreadDebt <= Cardinality({t \in Thread : txn[t].at = "note"})
                      + i * Cardinality({t \in Thread : txn[t].at = "prune" \/ conn[t] = "closed"})
    <2> DEFINE N == {t \in Thread : txn[t].at = "note"}
               P == {t \in Thread : txn[t].at = "prune" \/ conn[t] = "closed"}
               A == N \X {1}
               B == P \X (1..i)
               T == Tokens(Thread, i, Dues)
    <2>1. T \subseteq A \union B
      <3>1. ASSUME NEW c \in T PROVE c \in A \union B
        <4>1. c \in Thread \X (1..i) /\ c[2] <= Dues[c[1]]
          BY DEF Tokens
        <4> DEFINE t == c[1]
                   n == c[2]
        <4>2. t \in Thread /\ n \in 1..i /\ c = <<t, n>> /\ n <= Due(t)
          BY <4>1 DEF Dues
        <4> HIDE DEF t, n
        <4>3. CASE txn[t].at = "note"
          <5>1. n = 1
            BY <1>1, <4>2, <4>3 DEF Due
          <5> QED BY <4>2, <4>3, <5>1
        <4>4. CASE txn[t].at # "note"
          <5>1. t \in P
            BY <1>1, <4>2, <4>4 DEF Due
          <5> QED BY <4>2, <5>1
        <4> QED BY <4>3, <4>4
      <3> QED BY <3>1
    <2>2. /\ IsFiniteSet(N) /\ IsFiniteSet(P) /\ Cardinality(N) \in Nat /\ Cardinality(P) \in Nat
      <3>1. N \subseteq Thread /\ P \subseteq Thread
        OBVIOUS
      <3> HIDE DEF N, P
      <3> QED BY <1>1, <3>1, FS_Subset, FS_CardinalityType
    <2>3. IsFiniteSet(A) /\ Cardinality(A) = Cardinality(N)
      <3>1. IsFiniteSet({1}) /\ Cardinality({1}) = 1
        BY FS_Singleton
      <3> HIDE DEF N
      <3>2. IsFiniteSet(A) /\ Cardinality(A) = Cardinality(N) * Cardinality({1})
        BY <2>2, <3>1, FS_Product
      <3> QED BY <2>2, <3>1, <3>2
    <2>4. IsFiniteSet(B) /\ Cardinality(B) = i * Cardinality(P)
      <3>1. IsFiniteSet(1..i) /\ Cardinality(1..i) = i
        BY <1>1, FS_Interval
      <3> HIDE DEF P
      <3>2. IsFiniteSet(B) /\ Cardinality(B) = Cardinality(P) * Cardinality(1..i)
        BY <2>2, <3>1, FS_Product
      <3> HIDE DEF i
      <3> QED BY <1>1, <2>2, <3>1, <3>2
    <2>5. ThreadDebt = Cardinality(T)
      BY DEF ThreadDebt
    <2> HIDE DEF A, B, T
    <2>6. Cardinality(A \union B) <= Cardinality(A) + Cardinality(B) /\ IsFiniteSet(A \union B)
      <3>1. Cardinality(A \cap B) \in Nat /\ Cardinality(A) \in Nat /\ Cardinality(B) \in Nat
        BY <2>3, <2>4, FS_Subset, FS_CardinalityType
      <3>2. IsFiniteSet(A \union B) /\ Cardinality(A \union B) = Cardinality(A) + Cardinality(B) - Cardinality(A \cap B)
        BY <2>3, <2>4, FS_Union
      <3> QED BY <3>1, <3>2
    <2>7. Cardinality(T) <= Cardinality(A \union B)
      BY <2>1, <2>6, FS_Subset
    <2>8. Cardinality(T) \in Nat /\ Cardinality(A \union B) \in Nat /\ Cardinality(A) \in Nat /\ Cardinality(B) \in Nat
      BY <2>1, <2>3, <2>4, <2>6, FS_Subset, FS_CardinalityType
    <2>9. Cardinality(T) <= Cardinality(A) + Cardinality(B)
      <3> DEFINE t == Cardinality(T)
                 u == Cardinality(A \union B)
                 a == Cardinality(A)
                 b == Cardinality(B)
      <3>1. t \in Nat /\ u \in Nat /\ a \in Nat /\ b \in Nat /\ t <= u /\ u <= a + b
        BY <2>6, <2>7, <2>8
      <3>2. t <= a + b
        <4> HIDE DEF t, u, a, b
        <4> QED BY <3>1
      <3> QED BY <3>2
    <2> QED BY <2>3, <2>4, <2>5, <2>9
  <1> QED BY <1>2, <1>3

\* A prune is given up only after `Attempts` faults.
LEMMA GivenUp ==
  ASSUME NEW a \in Nat \ {0}, NEW g \in Nat, NEW u \in Nat, a * g <= u
  PROVE  g <= u \div a /\ u \div a \in Nat
  <1> DEFINE q == u \div a
             r == u % a
  <1>1. u = a * q + r /\ q \in Nat /\ r \in 0..(a - 1)
    BY DivDef, ModRange
  <1> HIDE DEF q, r
  <1>2. CASE g > q
    <2> DEFINE d == g - (q + 1)
    <2>1. d \in Nat /\ g = q + 1 + d
      BY <1>1, <1>2
    <2> HIDE DEF d
    <2>2. a * g = a * q + a + a * d /\ a * d \in Nat /\ a * q \in Nat
      BY <1>1, <2>1
    <2> QED BY <1>1, <2>2
  <1>3. CASE g <= q
    BY <1>1, <1>3 DEF q
  <1> QED BY <1>1, <1>2, <1>3

LEMMA RetentionFollows == IInv /\ Counted => RetentionBounded
  <1> SUFFICES ASSUME IInv, Counted PROVE RetentionBounded
    OBVIOUS
  <1> PICK g \in Nat : Owed(g) /\ Spent(g)
    BY DEF Counted
  <1> DEFINE n == Cardinality({t \in Thread : txn[t].at = "note"})
             k == Cardinality({t \in Thread : txn[t].at = "prune" \/ conn[t] = "closed"})
             w == Cardinality(Writing)
             h == Cardinality(Thread)
             i == Interval
             u == world.faults - faults
             l == Len(file.log)
             a == ClockDebt
             b == ThreadDebt
             d == Died
  <1>1. Types /\ DebtTyped
    BY DebtTypes DEF IInv
  <1>2. /\ l \in Nat /\ a \in Nat /\ b \in Nat /\ d \in Nat /\ u \in Nat /\ i \in Nat \ {0}
        /\ w \in Nat /\ h \in Nat /\ Cap \in Nat
    BY <1>1, Numbers, WritingType, Sizes, IntervalType DEF DebtTyped
  <1>3. n \in Nat /\ k \in Nat
    BY StoreAssumption, FS_Subset, FS_CardinalityType
  <1>4. g <= u \div Attempts /\ u \div Attempts \in Nat
    <2>1. Attempts * g + TryDebt <= u /\ TryDebt \in Nat /\ Attempts * g \in Nat /\ Attempts \in Nat \ {0}
      BY <1>1, Numbers, SchemaAssumption DEF Spent, DebtTyped
    <2> DEFINE c == Attempts * g
               e == TryDebt
    <2>2. c <= u
      <3>1. c \in Nat /\ e \in Nat /\ c + e <= u
        BY <2>1
      <3> HIDE DEF c, e, u
      <3> QED BY <1>2, <3>1
    <2> HIDE DEF u
    <2> QED BY <1>2, <2>1, <2>2, GivenUp
  <1>5. a <= (i - 1) * w /\ b <= n + i * k
    BY <1>1, DebtsBounded
  <1>6. l <= Cap + a + b + d * ((i - 1) + i * h) + i * g
    BY DEF Owed, PerDeath
  <1> DEFINE q == u \div Attempts
  <1>7. q \in Nat /\ g <= q
    BY <1>4
  <1> HIDE DEF n, k, w, h, i, u, l, a, b, d, q
  <1>8. l <= Cap + (i - 1) * (w + d) + n + i * (k + d * h + q)
    <2>1. i * g <= i * q
      BY <1>2, <1>7, Z3
    <2>2. (i - 1) * (w + d) = (i - 1) * w + (i - 1) * d
      BY <1>2
    <2> DEFINE x == d * h
    <2>3. x \in Nat /\ d * (i * h) = i * x
      BY <1>2
    <2> DEFINE m == i - 1
    <2>4. m \in Nat /\ d * (m + i * h) = m * d + i * x
      BY <1>2, <2>3
    <2> HIDE DEF x
    <2>5. i * (k + x + q) = i * k + i * x + i * q
      BY <1>2, <1>3, <1>7, <2>3
    <2>6. /\ m * w \in Nat /\ m * d \in Nat /\ i * k \in Nat /\ i * x \in Nat /\ i * q \in Nat /\ i * g \in Nat
      BY <1>2, <1>3, <1>7, <2>3, <2>4
    <2> HIDE DEF m
    <2> DEFINE e1 == m * w
               e2 == m * d
               e3 == i * k
               e4 == i * x
               e5 == i * q
               e6 == i * g
    <2>7. /\ e1 \in Nat /\ e2 \in Nat /\ e3 \in Nat /\ e4 \in Nat /\ e5 \in Nat /\ e6 \in Nat
          /\ a <= e1 /\ b <= n + e3 /\ e6 <= e5 /\ l <= Cap + a + b + (e2 + e4) + e6
      BY <1>5, <1>6, <2>1, <2>4, <2>6 DEF m, x
    <2>8. l <= Cap + (e1 + e2) + n + (e3 + e4 + e5)
      <3> HIDE DEF e1, e2, e3, e4, e5, e6
      <3> QED BY <1>2, <1>3, <2>7
    <2> QED BY <2>2, <2>5, <2>8 DEF m, x
  <1> QED BY <1>8 DEF RetentionBounded, Writing, Died, n, k, w, h, i, u, l, d, q

\* The transition log of db.py stays within its cap and the interval of each process
\* that writes, whatever dies, fails or is closed, but for what those leave behind.
THEOREM RetentionCorrect == Spec => []RetentionBounded
  <1>1. Spec => []Counted
    <2>1. Init /\ IInv => Counted
      BY CountedInit
    <2>2. Counted /\ IInv /\ IInv' /\ [Next]_vars => Counted'
      BY CountedNext
    <2> QED BY <2>1, <2>2, Inductive, PTL DEF Spec
  <1> QED BY <1>1, Inductive, RetentionFollows, PTL
=============================================================================
