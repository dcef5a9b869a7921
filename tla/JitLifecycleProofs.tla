------------------------- MODULE JitLifecycleProofs -------------------------
(***************************************************************************)
(* Proofs of the safety properties of JitLifecycle for any number of         *)
(* processes, callers and workers, any threshold and any attempt cap.        *)
(***************************************************************************)
EXTENDS JitLifecycle, FiniteSetTheorems, TLAPS

-----------------------------------------------------------------------------
(* The writes of TraceDB. *)

\* Every write of TraceDB leaves a well-formed row.
LEMMA RowWrites ==
  ASSUME NEW r \in Row
  PROVE  /\ RecordTrace(r) \in Row
         /\ \A s \in Status : SetStatus(r, s) \in Row
         /\ BeginCompile(r) \in Row
         /\ Reclaim(r) \in Row
         /\ IncrementAttempts(r) \in Row
         /\ ShadowStarted(r) \in Row
         /\ ReadyFromCompile(r) \in Row
         /\ Promote(r) \in Row
         /\ Demote(r) \in Row
         /\ \A c \in Configs : SyncShadowConfig(r, c) \in Row
         /\ [r EXCEPT !.lease = "stale"] \in Row
  <1>1. {"tracing", "compiling", "shadow", "ready", "failed"} = Status
    BY DEF Status
  <1>2. RecordTrace(r) \in Row
    BY DBAssumption DEF RecordTrace, Row
  <1>3. ASSUME NEW s \in Status PROVE SetStatus(r, s) \in Row
    <2>1. /\ SetStatus(r, s).status \in Status
          /\ SetStatus(r, s).epoch \in Nat
          /\ SetStatus(r, s).lease \in {"none", "fresh", "stale"}
      BY <1>1 DEF SetStatus, Row
    <2> QED BY <2>1 DEF SetStatus, Row
  <1>4. BeginCompile(r) \in Row
    <2>1. /\ BeginCompile(r).status \in Status
          /\ BeginCompile(r).epoch \in Nat
          /\ BeginCompile(r).lease \in {"none", "fresh", "stale"}
      BY <1>1 DEF BeginCompile, Row
    <2> QED BY <2>1 DEF BeginCompile, Row
  <1>5. Reclaim(r) \in Row
    <2>1. /\ Reclaim(r).status \in Status
          /\ Reclaim(r).epoch \in Nat
          /\ Reclaim(r).attempts \in Nat
          /\ Reclaim(r).lease \in {"none", "fresh", "stale"}
      BY <1>1 DEF Reclaim, Row
    <2> QED BY <2>1 DEF Reclaim, Row
  <1>6. IncrementAttempts(r) \in Row
    BY DEF IncrementAttempts, Row
  <1>7. ShadowStarted(r) \in Row
    <2>1. /\ ShadowStarted(r).status \in Status
          /\ ShadowStarted(r).epoch \in Nat
          /\ ShadowStarted(r).adapter \in BOOLEAN
      BY <1>1 DEF ShadowStarted, Row
    <2> QED BY <2>1 DEF ShadowStarted, Row
  <1>8. ReadyFromCompile(r) \in Row
    <2>1. /\ ReadyFromCompile(r).status \in Status
          /\ ReadyFromCompile(r).epoch \in Nat
          /\ ReadyFromCompile(r).adapter \in BOOLEAN
      BY <1>1 DEF ReadyFromCompile, Row
    <2> QED BY <2>1 DEF ReadyFromCompile, Row
  <1>9. Promote(r) \in Row
    <2>1. /\ Promote(r).status \in Status
          /\ Promote(r).epoch \in Nat
      BY <1>1 DEF Promote, Row
    <2> QED BY <2>1 DEF Promote, Row
  <1>10. Demote(r) \in Row
    <2>1. /\ Demote(r).status \in Status
          /\ Demote(r).epoch \in Nat
      BY <1>1 DEF Demote, Row
    <2> QED BY <2>1 DEF Demote, Row
  <1>11. ASSUME NEW c \in Configs PROVE SyncShadowConfig(r, c) \in Row
    <2>1. /\ SyncShadowConfig(r, c).epoch \in Nat
          /\ SyncShadowConfig(r, c).config \in Configs \union {NoConfig}
      BY <1>1 DEF SyncShadowConfig, Row
    <2> QED BY <2>1 DEF SyncShadowConfig, Row
  <1>12. [r EXCEPT !.lease = "stale"] \in Row
    BY DEF Row
  <1> QED BY <1>2, <1>3, <1>4, <1>5, <1>6, <1>7, <1>8, <1>9, <1>10, <1>11, <1>12

\* What a call reads is a routing.
LEMMA RoutingType ==
  ASSUME NEW r \in Row
  PROVE  Routing(r) \in RoutingSet /\ NoRouting \in RoutingSet
  BY DEF Row, Routing, NoRouting, RoutingSet, Status

\* The missing row is a well-formed row.
LEMMA NewRowType == NewRow \in Row
  BY DBAssumption DEF NewRow, Row, Status

-----------------------------------------------------------------------------
(* Types. *)

CallerRec == [pc : CallerPC, route : RoutingSet]
WorkerRec == [pc : WorkerPC, waiter : Caller \union {NoCaller},
              before : Nat, attempts : Nat]

\* The steps on a caller's and a worker's locals leave well-formed locals.
LEMMA LocalWrites ==
  ASSUME TypeOK
  PROVE  /\ IdleCaller \in CallerRec /\ IdleWorker \in WorkerRec
         /\ \A c \in Caller : Return(c) => caller' \in [Caller -> CallerRec]
         /\ \A c \in Caller, pc \in CallerPC : Goto(c, pc) => caller' \in [Caller -> CallerRec]
         /\ \A c \in Caller, r \in RoutingSet : RouteOn(c, r) => caller' \in [Caller -> CallerRec]
         /\ \A w \in Worker, pc \in WorkerPC : WorkerGoto(w, pc) => worker' \in [Worker -> WorkerRec]
         /\ \A w \in Worker, pc \in CallerPC :
              WorkerEnds(w, pc) => /\ worker' \in [Worker -> WorkerRec]
                                   /\ caller' \in [Caller -> CallerRec]
  <1>1. caller \in [Caller -> CallerRec] /\ worker \in [Worker -> WorkerRec]
    BY DEF TypeOK, CallerRec, WorkerRec
  <1>2. "idle" \in CallerPC /\ "serve" \in CallerPC /\ "teach" \in CallerPC
    BY DEF CallerPC
  <1>3. IdleCaller \in CallerRec
    BY <1>2, NewRowType, RoutingType DEF IdleCaller, CallerRec
  <1>4. IdleWorker \in WorkerRec
    BY DEF IdleWorker, WorkerRec, WorkerPC
  <1>5. \A c \in Caller : Return(c) => caller' \in [Caller -> CallerRec]
    BY <1>1, <1>3 DEF Return
  <1>6. \A c \in Caller, pc \in CallerPC : Goto(c, pc) => caller' \in [Caller -> CallerRec]
    BY <1>1 DEF Goto, CallerRec
  <1>7. \A c \in Caller, r \in RoutingSet : RouteOn(c, r) => caller' \in [Caller -> CallerRec]
    BY <1>1, <1>2 DEF RouteOn, CallerRec
  <1>8. \A w \in Worker, pc \in WorkerPC : WorkerGoto(w, pc) => worker' \in [Worker -> WorkerRec]
    BY <1>1 DEF WorkerGoto, WorkerRec
  <1>9. ASSUME NEW w \in Worker, NEW pc \in CallerPC, WorkerEnds(w, pc)
        PROVE  worker' \in [Worker -> WorkerRec] /\ caller' \in [Caller -> CallerRec]
    <2>1. worker' \in [Worker -> WorkerRec]
      BY <1>1, <1>4, <1>9 DEF WorkerEnds
    <2>2. [IdleCaller EXCEPT !.pc = pc] \in CallerRec
      BY <1>3 DEF CallerRec
    <2>3. worker[w].waiter \in Caller \union {NoCaller}
      BY <1>1 DEF WorkerRec
    <2> QED BY <1>1, <1>9, <2>1, <2>2, <2>3 DEF WorkerEnds
  <1> QED BY <1>3, <1>4, <1>5, <1>6, <1>7, <1>8, <1>9

\* TypeOK, preserved by every step.
LEMMA TypeStep == TypeOK /\ [Next]_vars => TypeOK'
  <1> SUFFICES ASSUME TypeOK, [Next]_vars PROVE TypeOK'
    OBVIOUS
  <1> DEFINE CallersOK == caller' \in [Caller -> CallerRec]
             WorkersOK == worker' \in [Worker -> WorkerRec]
  <1>0. /\ caller \in [Caller -> CallerRec] /\ worker \in [Worker -> WorkerRec]
        /\ row \in Row /\ up \in [Proc -> BOOLEAN] /\ paid \in Nat /\ crashes \in Nat
    BY DEF TypeOK, CallerRec, WorkerRec
  <1>t. ASSUME row' \in Row, CallersOK, WorkersOK, up' \in [Proc -> BOOLEAN],
               paid' \in Nat, crashes' \in Nat
        PROVE  TypeOK'
    BY <1>t DEF TypeOK, CallerRec, WorkerRec
  <1>r. /\ RecordTrace(row) \in Row /\ BeginCompile(row) \in Row
        /\ Reclaim(row) \in Row /\ IncrementAttempts(row) \in Row
        /\ ShadowStarted(row) \in Row /\ ReadyFromCompile(row) \in Row
        /\ Promote(row) \in Row /\ Demote(row) \in Row
        /\ [row EXCEPT !.lease = "stale"] \in Row
        /\ \A s \in Status : SetStatus(row, s) \in Row
        /\ \A p \in Proc : SyncShadowConfig(row, ConfigOf[p]) \in Row
    BY <1>0, RowWrites, LifecycleAssumption DEF Status
  <1>1. ASSUME NEW p \in Proc, Start(p) PROVE TypeOK'
    BY <1>0, <1>1, <1>r, <1>t DEF Start
  <1>2. ASSUME NEW p \in Proc, Crash(p) PROVE TypeOK'
    <2>1. CallersOK /\ WorkersOK
      BY <1>0, <1>2, LocalWrites DEF Crash
    <2> QED BY <1>0, <1>2, <1>t, <2>1 DEF Crash
  <1>3. ASSUME NEW p \in Proc, ShadowVerdict(p) PROVE TypeOK'
    BY <1>0, <1>3, <1>r, <1>t DEF ShadowVerdict
  <1>4. ASSUME NEW c \in Caller, CallerStep(c) \/ TeacherRaises(c) PROVE TypeOK'
    <2> USE <1>0, LocalWrites, RoutingType
    <2>0. {"rescue", "reroute", "record", "check", "reclaim", "recheck", "trigger",
           "wait", "escaped", "idle"} \subseteq CallerPC
      BY DEF CallerPC
    <2>1. CASE Call(c)
      <3>1. [pc |-> "rescue", route |-> Routing(row)] \in CallerRec
        BY <2>0 DEF CallerRec
      <3>2. CallersOK
        BY <2>1, <3>1 DEF Call
      <3> QED BY <2>1, <3>2, <1>t DEF Call
    <2>2. CASE Rescue(c)
      BY <2>0, <2>2, <1>r, <1>t DEF Rescue
    <2>3. CASE Reroute(c)
      BY <2>3, <1>t DEF Reroute
    <2>4. CASE Serve(c) \/ TeacherRaises(c) \/ Escape(c)
      BY <2>4, <1>t DEF Serve, TeacherRaises, Escape
    <2>5. CASE TeacherAnswers(c)
      BY <2>0, <2>5, <1>t DEF TeacherAnswers
    <2>6. CASE CallRecordTrace(c)
      BY <2>0, <2>6, <1>r, <1>t DEF CallRecordTrace
    <2>7. CASE Check(c)
      BY <2>0, <2>7, <1>t DEF Check
    <2>8. CASE CallReclaim(c)
      BY <2>0, <2>8, <1>r, <1>t DEF CallReclaim
    <2>9. CASE Recheck(c)
      BY <2>0, <2>9, <1>t DEF Recheck
    <2>10. CASE Trigger(c)
      <3>1. CallersOK
        BY <2>0, <2>10 DEF Trigger
      <3>2. row' \in Row
        BY <2>10, <1>r DEF Trigger
      <3>3. WorkersOK
        <4>1. CASE ~CanBeginCompile(row)
          BY <2>10, <4>1 DEF Trigger
        <4>2. CASE CanBeginCompile(row)
          <5>1. PICK w \in Worker, v \in Caller \union {NoCaller} :
                  worker' = [worker EXCEPT ![w].pc = "traces", ![w].waiter = v]
            BY <2>10, <4>2 DEF Trigger
          <5>2. [worker[w] EXCEPT !.pc = "traces", !.waiter = v] \in WorkerRec
            BY DEF WorkerRec, WorkerPC
          <5> QED BY <5>1, <5>2
        <4> QED BY <4>1, <4>2
      <3> QED BY <2>10, <3>1, <3>2, <3>3, <1>t DEF Trigger
    <2> QED
      BY <1>4, <2>1, <2>2, <2>3, <2>4, <2>5, <2>6, <2>7, <2>8, <2>9, <2>10 DEF CallerStep
  <1>5. ASSUME NEW c \in Caller, CallFault(c) PROVE TypeOK'
    <2>1. "reroute" \in CallerPC /\ "escaped" \in CallerPC
      BY DEF CallerPC
    <2>2. CallersOK
      BY <1>0, <1>5, <2>1, LocalWrites, RoutingType DEF CallFault
    <2> QED BY <1>0, <1>5, <2>2, <1>t DEF CallFault
  <1>6. ASSUME NEW w \in Worker, WorkerStep(w) PROVE TypeOK'
    <2> USE <1>0, LocalWrites
    <2>0. {"traces", "compile", "commit", "failRead", "failBump", "failSettle"} \subseteq WorkerPC
          /\ "idle" \in CallerPC
      BY DEF WorkerPC, CallerPC
    <2>1. CASE GetTraces(w)
      BY <2>0, <2>1, <1>t DEF GetTraces
    <2>2. CASE Compiled(w)
      BY <2>0, <2>2, <1>t DEF Compiled
    <2>3. CASE Commit(w)
      BY <2>0, <2>3, <1>r, <1>t DEF Commit, CommitRow
    <2>4. CASE FailRead(w)
      <3>1. WorkersOK
        BY <2>0, <2>4 DEF FailRead, WorkerRec, Row
      <3> QED BY <2>4, <3>1, <1>t DEF FailRead
    <2>5. CASE FailBump(w)
      <3>1. row.attempts + 1 \in Nat
        BY DEF Row
      <3>2. [worker[w] EXCEPT !.pc = "failSettle", !.attempts = row.attempts + 1] \in WorkerRec
        BY <2>0, <3>1 DEF WorkerRec
      <3>3. WorkersOK
        BY <2>5, <3>2 DEF FailBump
      <3> QED BY <2>5, <3>3, <1>r, <1>t DEF FailBump
    <2>6. CASE FailSettle(w)
      <3>1. SettleStatus(w) \in Status
        BY DEF SettleStatus, Status
      <3> QED BY <2>0, <2>6, <3>1, <1>r, <1>t DEF FailSettle
    <2> QED BY <1>6, <2>1, <2>2, <2>3, <2>4, <2>5, <2>6 DEF WorkerStep
  <1>7. ASSUME NEW w \in Worker, WorkerFault(w) PROVE TypeOK'
    <2>1. "failRead" \in WorkerPC /\ "escaped" \in CallerPC
      BY DEF WorkerPC, CallerPC
    <2>2. CallersOK /\ WorkersOK
      BY <1>0, <1>7, <2>1, LocalWrites DEF WorkerFault
    <2> QED BY <1>0, <1>7, <2>2, <1>t DEF WorkerFault
  <1>8. CASE LeaseExpires
    BY <1>0, <1>8, <1>r, <1>t DEF LeaseExpires
  <1>9. CASE UNCHANGED vars
    BY <1>0, <1>9, <1>t DEF vars
  <1> QED
    BY <1>1, <1>2, <1>3, <1>4, <1>5, <1>6, <1>7, <1>8, <1>9 DEF Next

\* The type invariant of the lifecycle.
THEOREM TypeCorrect == Spec => []TypeOK
  <1>1. Init => TypeOK
    <2>1. IdleCaller \in CallerRec
      BY NewRowType, RoutingType DEF IdleCaller, CallerRec, CallerPC
    <2>2. IdleWorker \in WorkerRec
      BY DEF IdleWorker, WorkerRec, WorkerPC
    <2> QED BY NewRowType, <2>1, <2>2 DEF Init, TypeOK, CallerRec, WorkerRec
  <1> QED BY <1>1, TypeStep, PTL DEF Spec

-----------------------------------------------------------------------------
(* The bound on compiles. *)

\* Owing is a finite set, so its cardinality is a number.
LEMMA OwingFinite ==
  /\ IsFiniteSet(Owing)
  /\ Cardinality(Owing) \in Nat
  /\ Cardinality(Owing)' \in Nat
  <1>1. Owing \subseteq Worker /\ Owing' \subseteq Worker
    BY DEF Owing
  <1> QED BY <1>1, LifecycleAssumption, FS_Subset, FS_CardinalityType

\* A step that changes what at most one worker owes moves the cardinality of
\* Owing by what that worker's debt changed.
LEMMA OwingStep ==
  ASSUME NEW w \in Worker, \A v \in Worker \ {w} : Owes(v)' <=> Owes(v)
  PROVE  /\ Owes(w) /\ ~Owes(w)' => Cardinality(Owing)' = Cardinality(Owing) - 1
         /\ ~Owes(w) /\ Owes(w)' => Cardinality(Owing)' = Cardinality(Owing) + 1
         /\ (Owes(w) <=> Owes(w)') => Cardinality(Owing)' = Cardinality(Owing)
  <1>1. ASSUME Owes(w), ~Owes(w)' PROVE Cardinality(Owing)' = Cardinality(Owing) - 1
    <2>1. Owing' = Owing \ {w} /\ w \in Owing
      BY <1>1 DEF Owing
    <2> QED BY <2>1, OwingFinite, FS_RemoveElement
  <1>2. ASSUME ~Owes(w), Owes(w)' PROVE Cardinality(Owing)' = Cardinality(Owing) + 1
    <2>1. Owing' = Owing \union {w} /\ w \notin Owing
      BY <1>2 DEF Owing
    <2> QED BY <2>1, OwingFinite, FS_AddElement
  <1>3. ASSUME Owes(w) <=> Owes(w)' PROVE Cardinality(Owing)' = Cardinality(Owing)
    <2>1. Owing' = Owing
      BY <1>3 DEF Owing
    <2> QED BY <2>1
  <1> QED BY <1>1, <1>2, <1>3

\* CompileCredit, preserved by every step.
LEMMA CreditStep == TypeOK /\ CompileCredit /\ [Next]_vars => CompileCredit'
  <1> SUFFICES ASSUME TypeOK, CompileCredit, [Next]_vars PROVE CompileCredit'
    OBVIOUS
  <1> DEFINE n == Cardinality(Owing)
             offer == IF row.status = "tracing" THEN 1 ELSE 0
  <1>0. /\ paid \in Nat /\ row \in Row /\ row.attempts \in Nat /\ MaxAttempts \in Nat \ {0}
        /\ n \in Nat /\ paid + n + offer <= Earned
        /\ worker \in [Worker -> WorkerRec]
    BY OwingFinite, DBAssumption DEF TypeOK, CompileCredit, Row, WorkerRec
  \* A step that touches no worker's debt and brings nothing back to tracing.
  <1>q. ASSUME paid' = paid, n' \in Nat, n' <= n, offer' <= offer,
               row'.attempts \in Nat, row'.attempts >= row.attempts
        PROVE  CompileCredit'
    BY <1>0, <1>q DEF CompileCredit, Earned
  <1>s. ASSUME worker' = worker PROVE n' = n
    BY <1>s DEF Owing, Owes, SettleStatus
  <1>1. ASSUME NEW p \in Proc, Start(p) \/ ShadowVerdict(p) PROVE CompileCredit'
    <2>1. row'.attempts = row.attempts
      BY <1>0, <1>1 DEF Start, ShadowVerdict, SyncShadowConfig, Promote, Demote, Row
    <2>2. paid' = paid /\ worker' = worker
      BY <1>1 DEF Start, ShadowVerdict
    <2>3. CASE Start(p)
      <3>1. row'.status = row.status
        <4>1. SyncShadowConfig(row, ConfigOf[p]).status = row.status
          BY <1>0 DEF SyncShadowConfig, Row
        <4> QED BY <2>3, <4>1 DEF Start
      <3> QED BY <1>0, <1>q, <1>s, <2>1, <2>2, <3>1
    <2>4. CASE ShadowVerdict(p)
      <3>1. row'.status # "tracing"
        <4>1. Promote(row).status = "ready" /\ Demote(row).status = "shadow"
          BY <1>0 DEF Promote, Demote, Row
        <4> QED BY <2>4, <4>1 DEF ShadowVerdict
      <3> QED BY <1>0, <1>q, <1>s, <2>1, <2>2, <3>1
    <2> QED BY <1>1, <2>3, <2>4
  <1>2. ASSUME NEW p \in Proc, Crash(p) PROVE CompileCredit'
    <2>1. Owing' \subseteq Owing
      BY <1>2 DEF Crash, Owing, Owes, SettleStatus, IdleWorker
    <2>2. n' \in Nat /\ n' <= n
      BY <2>1, OwingFinite, FS_Subset, FS_CardinalityType
    <2> QED BY <1>0, <1>2, <1>q, <2>2 DEF Crash
  <1>3. ASSUME NEW c \in Caller, CallerStep(c) \/ TeacherRaises(c) \/ CallFault(c)
        PROVE  CompileCredit'
    <2>1. CASE Trigger(c)
      <3>1. CASE ~CanBeginCompile(row)
        BY <1>0, <1>q, <1>s, <2>1, <3>1 DEF Trigger
      <3>2. CASE CanBeginCompile(row)
        <4>1. PICK w \in Worker, v \in Caller \union {NoCaller} :
                /\ worker[w].pc = "off"
                /\ worker' = [worker EXCEPT ![w].pc = "traces", ![w].waiter = v]
          BY <2>1, <3>2 DEF Trigger
        <4>2. ~Owes(w) /\ Owes(w)' /\ \A u \in Worker \ {w} : Owes(u)' <=> Owes(u)
          BY <1>0, <4>1 DEF Owes, SettleStatus, WorkerRec
        <4>3. n' = n + 1
          BY <4>2, OwingStep
        <4>4. /\ row.status = "tracing" /\ row'.status # "tracing"
              /\ row'.attempts = row.attempts /\ paid' = paid
          BY <1>0, <2>1, <3>2 DEF Trigger, CanBeginCompile, BeginCompile, Row
        <4> QED BY <1>0, <4>3, <4>4 DEF CompileCredit, Earned
      <3> QED BY <3>1, <3>2
    <2>2. CASE CallReclaim(c)
      <3>1. CASE ~CanReclaim(row)
        BY <1>0, <1>q, <1>s, <2>2, <3>1 DEF CallReclaim
      <3>2. CASE CanReclaim(row)
        <4>0. row' = Reclaim(row) /\ row.status # "tracing" /\ paid' = paid /\ worker' = worker
          BY <2>2, <3>2 DEF CallReclaim, CanReclaim
        <4>3. row'.attempts = row.attempts + 1
          BY <1>0, <4>0 DEF Reclaim, Row
        <4>4. row'.status = IF row.attempts + 1 >= MaxAttempts THEN "failed" ELSE "tracing"
          BY <1>0, <4>0 DEF Reclaim, Row
        <4>1. /\ row.status # "tracing" /\ row'.attempts = row.attempts + 1
              /\ row'.status = "tracing" => row.attempts + 1 < MaxAttempts
              /\ paid' = paid /\ worker' = worker
          BY <1>0, <4>0, <4>3, <4>4
        <4>2. n' = n
          BY <4>1, <1>s
        <4> QED BY <1>0, <4>1, <4>2 DEF CompileCredit, Earned
      <3> QED BY <3>1, <3>2
    <2>3. CASE ~Trigger(c) /\ ~CallReclaim(c)
      <3>1. /\ row'.status = "tracing" => row.status = "tracing"
            /\ row'.attempts = row.attempts /\ paid' = paid /\ worker' = worker
        BY <1>0, <1>3, <2>3
        DEF CallerStep, Call, Rescue, Reroute, Serve, TeacherAnswers, TeacherRaises,
            CallRecordTrace, Check, Recheck, Escape, CallFault, Promote, RecordTrace, Row
      <3> QED BY <1>0, <1>q, <1>s, <3>1
    <2> QED BY <2>1, <2>2, <2>3
  <1>4. ASSUME NEW w \in Worker, WorkerStep(w) \/ WorkerFault(w) PROVE CompileCredit'
    <2>1. \A u \in Worker \ {w} : Owes(u)' <=> Owes(u)
      BY <1>0, <1>4
      DEF WorkerStep, WorkerFault, GetTraces, Compiled, Commit, FailRead, FailBump,
          FailSettle, WorkerGoto, WorkerEnds, Owes, SettleStatus
    <2>2. CASE GetTraces(w)
      <3>1. Owes(w) /\ ~Owes(w)'
        BY <1>0, <2>2 DEF GetTraces, WorkerGoto, Owes
      <3>2. n' = n - 1 /\ paid' = paid + 1 /\ row' = row
        BY <2>1, <2>2, <3>1, OwingStep DEF GetTraces
      <3> QED BY <1>0, <3>2 DEF CompileCredit, Earned
    <2>3. CASE FailBump(w)
      <3>1. /\ ~Owes(w) /\ paid' = paid
            /\ row'.attempts = row.attempts + 1 /\ row'.status = row.status
            /\ Owes(w)' => row.attempts + 1 < MaxAttempts
        BY <1>0, <2>3 DEF FailBump, IncrementAttempts, Owes, SettleStatus, Row, WorkerRec
      <3>2. CASE Owes(w)'
        <4>1. n' = n + 1
          BY <2>1, <3>1, <3>2, OwingStep
        <4> QED BY <1>0, <3>1, <3>2, <4>1 DEF CompileCredit, Earned
      <3>3. CASE ~Owes(w)'
        <4>1. n' = n
          BY <2>1, <3>1, <3>3, OwingStep
        <4> QED BY <1>0, <1>q, <3>1, <4>1
      <3> QED BY <3>2, <3>3
    <2>4. CASE FailSettle(w)
      <3>1. ~Owes(w)'
        BY <1>0, <2>4 DEF FailSettle, WorkerEnds, IdleWorker, Owes
      <3>2. /\ paid' = paid /\ row'.attempts = row.attempts
            /\ row'.status = SettleStatus(w)
        BY <1>0, <2>4 DEF FailSettle, SetStatus, Row
      <3>3. CASE SettleStatus(w) = "tracing"
        <4>1. n' = n - 1
          BY <2>1, <2>4, <3>1, <3>3, OwingStep DEF FailSettle, Owes
        <4> QED BY <1>0, <3>2, <4>1 DEF CompileCredit, Earned
      <3>4. CASE SettleStatus(w) # "tracing"
        <4>1. n' = n
          BY <2>1, <2>4, <3>1, <3>4, OwingStep DEF FailSettle, Owes
        <4> QED BY <1>0, <1>q, <3>2, <3>4, <4>1
      <3> QED BY <3>3, <3>4
    <2>5. CASE Compiled(w) \/ Commit(w) \/ FailRead(w) \/ WorkerFault(w)
      <3>1. ~Owes(w)'
        <4>1. worker'[w].pc \in {"commit", "failRead", "failBump", "off"}
          BY <1>0, <2>5
          DEF Compiled, Commit, FailRead, WorkerFault, WorkerGoto, WorkerEnds, IdleWorker, WorkerRec
        <4> QED BY <4>1 DEF Owes
      <3>2. n' \in Nat /\ n' <= n
        <4>1. n' = n - 1 \/ n' = n
          BY <2>1, <3>1, OwingStep
        <4>2. n' \in Nat
          BY OwingFinite
        <4> QED BY <1>0, <4>1, <4>2
      <3>3. /\ paid' = paid /\ row'.attempts = row.attempts
            /\ row'.status = "tracing" => row.status = "tracing"
        BY <1>0, <2>5
        DEF Compiled, Commit, CommitRow, ShadowStarted, ReadyFromCompile, FailRead, WorkerFault, Row
      <3> QED BY <1>0, <1>q, <3>2, <3>3
    <2> QED BY <1>4, <2>2, <2>3, <2>4, <2>5 DEF WorkerStep
  <1>5. CASE LeaseExpires \/ UNCHANGED vars
    <2>1. row'.status = row.status /\ row'.attempts = row.attempts /\ paid' = paid /\ worker' = worker
      BY <1>0, <1>5 DEF LeaseExpires, vars, Row
    <2> QED BY <1>0, <1>q, <1>s, <2>1
  <1> QED BY <1>1, <1>2, <1>3, <1>4, <1>5 DEF Next

\* CompileCredit is an invariant: every compile but the first is earned by an
\* increment of compile_attempts that stays below the cap.
THEOREM CreditCorrect == Spec => []CompileCredit
  <1>1. Init => CompileCredit
    <2> SUFFICES ASSUME Init PROVE CompileCredit
      OBVIOUS
    <2>1. Owing = {}
      BY DEF Init, Owing, Owes, IdleWorker
    <2>2. Cardinality(Owing) = 0
      BY <2>1, FS_EmptySet
    <2> QED BY <2>2, DBAssumption DEF Init, NewRow, CompileCredit, Earned
  <1> QED BY <1>1, CreditStep, TypeCorrect, PTL DEF Spec

\* A task never buys more than MaxAttempts compiles, under any interleaving of
\* callers, workers, crashes, lease expiries and database faults.
THEOREM CompileBoundCorrect == Spec => []CompileBound
  <1>1. TypeOK /\ CompileCredit => CompileBound
    BY OwingFinite, DBAssumption DEF TypeOK, Row, CompileCredit, CompileBound, Earned
  <1> QED BY <1>1, CreditCorrect, TypeCorrect, PTL

-----------------------------------------------------------------------------
(* What a step may do to the row. *)

WorkerWrites == {IncrementAttempts(row), ShadowStarted(row), ReadyFromCompile(row),
                 SetStatus(row, "tracing"), SetStatus(row, "failed")}

\* Every step writes the row by one method of TraceDB, under that method's
\* guard; the unconditional writes are those of a running worker.
LEMMA RowMoves ==
  ASSUME [Next]_vars
  PROVE  \/ row' = row
         \/ row' = RecordTrace(row)
         \/ CanBeginCompile(row) /\ row' = BeginCompile(row)
         \/ CanReclaim(row) /\ row' = Reclaim(row)
         \/ row.status = "shadow" /\ row' = Promote(row)
         \/ row.status = "ready" /\ row' = Demote(row)
         \/ \E p \in Proc : row' = SyncShadowConfig(row, ConfigOf[p])
         \/ (LeaseCoversCompile => NoWorkerRuns) /\ row' = [row EXCEPT !.lease = "stale"]
         \/ \E w \in Worker : worker[w].pc # "off" /\ row' \in WorkerWrites
  <1>1. ASSUME NEW p \in Proc, Start(p) \/ Crash(p)
        PROVE  row' = row \/ row' = SyncShadowConfig(row, ConfigOf[p])
    BY <1>1 DEF Start, Crash
  <1>2. ASSUME NEW p \in Proc, ShadowVerdict(p)
        PROVE  \/ row.status = "shadow" /\ row' = Promote(row)
               \/ row.status = "ready" /\ row' = Demote(row)
    BY <1>2 DEF ShadowVerdict, CanPromote, CanDemote
  <1>3. ASSUME NEW c \in Caller, CallerStep(c) \/ TeacherRaises(c) \/ CallFault(c)
        PROVE  \/ row' = row
               \/ row' = RecordTrace(row)
               \/ CanBeginCompile(row) /\ row' = BeginCompile(row)
               \/ CanReclaim(row) /\ row' = Reclaim(row)
               \/ row.status = "shadow" /\ row' = Promote(row)
    BY <1>3
    DEF CallerStep, Call, Rescue, Reroute, Serve, TeacherAnswers, TeacherRaises,
        CallRecordTrace, Check, CallReclaim, Recheck, Trigger, Escape, CallFault, CanPromote
  <1>4. ASSUME NEW w \in Worker, WorkerStep(w) \/ WorkerFault(w)
        PROVE  row' = row \/ (worker[w].pc # "off" /\ row' \in WorkerWrites)
    <2>1. SettleStatus(w) \in {"tracing", "failed"}
      BY DEF SettleStatus
    <2> QED
      BY <1>4, <2>1
      DEF WorkerStep, WorkerFault, GetTraces, Compiled, Commit, CommitRow, FailRead,
          FailBump, FailSettle, WorkerWrites
  <1>5. ASSUME LeaseExpires
        PROVE  (LeaseCoversCompile => NoWorkerRuns) /\ row' = [row EXCEPT !.lease = "stale"]
    BY <1>5 DEF LeaseExpires
  <1>6. ASSUME UNCHANGED vars PROVE row' = row
    BY <1>6 DEF vars
  <1> QED BY <1>1, <1>2, <1>3, <1>4, <1>5, <1>6 DEF Next

-----------------------------------------------------------------------------
(* Epochs. *)

\* Two routings of the row under one epoch are the same routing.
LEMMA EpochMoves ==
  ASSUME TypeOK, [Next]_vars
  PROVE  /\ row'.epoch \in Nat /\ row'.epoch >= row.epoch
         /\ row'.epoch = row.epoch => Routing(row') = Routing(row)
  <1>0. row \in Row /\ row.epoch \in Nat
    BY DEF TypeOK, Row
  <1> DEFINE Same == row'.epoch = row.epoch /\ Routing(row') = Routing(row)
             Moved == row'.epoch = row.epoch + 1
  <1>1. CASE row' = row
    BY <1>0, <1>1
  <1>2. CASE row' = RecordTrace(row) \/ row' = [row EXCEPT !.lease = "stale"]
             \/ row' = IncrementAttempts(row)
    <2>1. Same
      BY <1>0, <1>2 DEF RecordTrace, IncrementAttempts, Routing, Row
    <2> QED BY <1>0, <2>1
  <1>3. CASE row' = BeginCompile(row) \/ row' = Reclaim(row) \/ row' = Promote(row)
             \/ row' = Demote(row) \/ row' = ShadowStarted(row) \/ row' = ReadyFromCompile(row)
    <2>1. /\ BeginCompile(row).epoch = row.epoch + 1
          /\ Reclaim(row).epoch = row.epoch + 1
          /\ Promote(row).epoch = row.epoch + 1
          /\ Demote(row).epoch = row.epoch + 1
          /\ ShadowStarted(row).epoch = row.epoch + 1
          /\ ReadyFromCompile(row).epoch = row.epoch + 1
      BY <1>0 DEF BeginCompile, Reclaim, Promote, Demote, ShadowStarted, ReadyFromCompile, Row
    <2> QED BY <1>0, <1>3, <2>1
  <1>4. ASSUME NEW p \in Proc, row' = SyncShadowConfig(row, ConfigOf[p])
        PROVE  Same \/ Moved
    <2>1. /\ SyncShadowConfig(row, ConfigOf[p]).status = row.status
          /\ SyncShadowConfig(row, ConfigOf[p]).adapter = row.adapter
          /\ SyncShadowConfig(row, ConfigOf[p]).epoch \in {row.epoch, row.epoch + 1}
      BY <1>0 DEF SyncShadowConfig, Row
    <2> QED BY <1>4, <2>1 DEF Routing
  <1>5. ASSUME NEW s \in Status, row' = SetStatus(row, s)
        PROVE  Same \/ Moved
    <2>1. /\ SetStatus(row, s).status = s
          /\ SetStatus(row, s).adapter = row.adapter
          /\ SetStatus(row, s).epoch = IF s # row.status THEN row.epoch + 1 ELSE row.epoch
      BY <1>0 DEF SetStatus, Row
    <2> QED BY <1>5, <2>1 DEF Routing
  <1>6. "tracing" \in Status /\ "failed" \in Status
    BY DEF Status
  <1> QED BY <1>0, <1>1, <1>2, <1>3, <1>4, <1>5, <1>6, RowMoves DEF WorkerWrites

\* Before the first transition the task is untouched, so the routing a call
\* assumes when its read fails is true at the epoch it names.
EpochZero == row.epoch = 0 => Routing(row) = NoRouting

\* EpochNamesRouting, preserved by every step.
LEMMA EpochStep ==
  TypeOK /\ EpochZero /\ EpochNamesRouting /\ [Next]_vars => EpochZero' /\ EpochNamesRouting'
  <1> SUFFICES ASSUME TypeOK, EpochZero, EpochNamesRouting, [Next]_vars
               PROVE  EpochZero' /\ EpochNamesRouting'
    OBVIOUS
  <1>0. /\ row.epoch \in Nat /\ row'.epoch \in Nat /\ row'.epoch >= row.epoch
        /\ row'.epoch = row.epoch => Routing(row') = Routing(row)
        /\ caller \in [Caller -> CallerRec]
    BY EpochMoves DEF TypeOK, CallerRec, Row
  <1>1. EpochZero'
    BY <1>0 DEF EpochZero
  \* A route that was honest, is read now, or is the one assumed, is honest.
  <1> DEFINE Honest(route, r) ==
        /\ route.epoch \in Nat
        /\ route.epoch <= r.epoch
        /\ route.epoch = r.epoch => route = Routing(r)
  <1>2. /\ Honest(Routing(row), row) /\ Honest(NoRouting, row)
        /\ \A c \in Caller : Honest(caller[c].route, row)
    BY <1>0 DEF EpochZero, EpochNamesRouting, Routing, NoRouting, CallerRec, RoutingSet
  <1>3. \A route : Honest(route, row) => Honest(route, row')
    BY <1>0
  <1>4. \A c \in Caller : caller'[c].route \in {caller[c].route, Routing(row), NoRouting}
    <2>1. ASSUME NEW p \in Proc, Start(p) \/ Crash(p) \/ ShadowVerdict(p), NEW c \in Caller
          PROVE  caller'[c].route \in {caller[c].route, NoRouting}
      BY <1>0, <2>1 DEF Start, Crash, ShadowVerdict, IdleCaller
    <2>2. ASSUME NEW d \in Caller, CallerStep(d) \/ TeacherRaises(d) \/ CallFault(d), NEW c \in Caller
          PROVE  caller'[c].route \in {caller[c].route, Routing(row), NoRouting}
      BY <1>0, <2>2
      DEF CallerStep, Call, Rescue, Reroute, Serve, TeacherAnswers, TeacherRaises,
          CallRecordTrace, Check, CallReclaim, Recheck, Trigger, Escape, CallFault,
          RouteOn, Goto, Return, IdleCaller, CallerRec
    <2>3. ASSUME NEW w \in Worker, WorkerStep(w) \/ WorkerFault(w), NEW c \in Caller
          PROVE  caller'[c].route \in {caller[c].route, NoRouting}
      <3>1. \/ caller' = caller
            \/ \E pc \in CallerPC : WorkerEnds(w, pc)
        BY <2>3
        DEF WorkerStep, WorkerFault, GetTraces, Compiled, Commit, FailRead, FailBump,
            FailSettle, CallerPC
      <3> QED BY <1>0, <3>1 DEF WorkerEnds, IdleCaller
    <2>4. CASE LeaseExpires \/ UNCHANGED vars
      BY <2>4 DEF LeaseExpires, vars
    <2> QED BY <2>1, <2>2, <2>3, <2>4 DEF Next
  <1>5. \A c \in Caller : Honest(caller'[c].route, row')
    BY <1>2, <1>3, <1>4
  <1> QED BY <1>1, <1>5 DEF EpochNamesRouting

\* The compare-and-set discipline is sound: an epoch a call still holds when it
\* writes names the status and adapter the call was routed on.
THEOREM EpochCorrect == Spec => []EpochNamesRouting
  <1>1. Init => EpochZero /\ EpochNamesRouting
    <2> SUFFICES ASSUME Init PROVE EpochZero /\ EpochNamesRouting
      OBVIOUS
    <2>1. Routing(row) = NoRouting
      BY DEF Init, NewRow, Routing, NoRouting
    <2>2. row.epoch = 0 /\ NoRouting.epoch = 0
      BY DEF Init, NewRow, NoRouting
    <2>3. \A c \in Caller : caller[c].route = NoRouting
      BY DEF Init, IdleCaller
    <2> QED BY <2>1, <2>2, <2>3 DEF EpochZero, EpochNamesRouting
  <1> QED BY <1>1, EpochStep, TypeCorrect, PTL DEF Spec

-----------------------------------------------------------------------------
(* The lease. *)

\* OneCompile, preserved by every step: a compile starts only from `tracing`,
\* a lease is reclaimed only when it is stale, and it goes stale only when no
\* worker runs.
LEMMA OneCompileStep == TypeOK /\ OneCompile /\ [Next]_vars => OneCompile'
  <1> SUFFICES ASSUME TypeOK, OneCompile, [Next]_vars, LeaseCoversCompile PROVE OneCompile'
    BY DEF OneCompile
  <1> DEFINE On(w) == worker[w].pc # "off"
             Held == row.status = "compiling" /\ row.lease = "fresh"
  <1>0. /\ row \in Row /\ worker \in [Worker -> WorkerRec]
        /\ \A v, w \in Worker : On(v) /\ On(w) => v = w
        /\ \A w \in Worker : On(w) => Held
    BY DEF TypeOK, WorkerRec, OneCompile
  <1>q. ASSUME \A w \in Worker : On(w)' => On(w),  (\E w \in Worker : On(w)') => (Held => Held')
        PROVE  OneCompile'
    BY <1>0, <1>q DEF OneCompile
  <1>1. ASSUME NEW p \in Proc, Start(p) \/ Crash(p) \/ ShadowVerdict(p) PROVE OneCompile'
    <2>1. \A w \in Worker : On(w)' => On(w)
      BY <1>0, <1>1 DEF Start, Crash, ShadowVerdict, IdleWorker
    <2>2. /\ SyncShadowConfig(row, ConfigOf[p]).status = row.status
          /\ SyncShadowConfig(row, ConfigOf[p]).lease = row.lease
      BY <1>0 DEF SyncShadowConfig, Row
    <2>3. Held => Held'
      BY <1>1, <2>2 DEF Start, Crash, ShadowVerdict, CanPromote, CanDemote
    <2> QED BY <1>q, <2>1, <2>3
  <1>2. ASSUME NEW c \in Caller, CallerStep(c) \/ TeacherRaises(c) \/ CallFault(c)
        PROVE  OneCompile'
    <2>1. CASE Trigger(c) /\ CanBeginCompile(row)
      <3>1. \A w \in Worker : ~On(w)
        BY <1>0, <2>1 DEF CanBeginCompile
      <3>2. PICK w \in Worker, v \in Caller \union {NoCaller} :
              worker' = [worker EXCEPT ![w].pc = "traces", ![w].waiter = v]
        BY <2>1 DEF Trigger
      <3>3. \A u \in Worker : On(u)' => u = w
        BY <1>0, <3>1, <3>2
      <3>4. BeginCompile(row).status = "compiling" /\ BeginCompile(row).lease = "fresh"
        BY <1>0 DEF BeginCompile, Row
      <3>5. Held'
        BY <2>1, <3>4 DEF Trigger
      <3> QED BY <3>3, <3>5 DEF OneCompile
    <2>2. CASE ~(Trigger(c) /\ CanBeginCompile(row))
      <3>1. worker' = worker
        BY <1>2, <2>2
        DEF CallerStep, Call, Rescue, Reroute, Serve, TeacherAnswers, TeacherRaises,
            CallRecordTrace, Check, CallReclaim, Recheck, Trigger, Escape, CallFault
      <3>2. row' = row \/ row' = RecordTrace(row) \/ row.status = "shadow" \/ row.lease = "stale"
        BY <1>2, <2>2
        DEF CallerStep, Call, Rescue, Reroute, Serve, TeacherAnswers, TeacherRaises,
            CallRecordTrace, Check, CallReclaim, Recheck, Trigger, Escape, CallFault,
            CanPromote, CanReclaim
      <3>3. RecordTrace(row).status = row.status /\ RecordTrace(row).lease = row.lease
        BY <1>0 DEF RecordTrace, Row
      <3>4. Held => Held'
        BY <3>2, <3>3
      <3> QED BY <1>q, <3>1, <3>4
    <2> QED BY <2>1, <2>2
  <1>3. ASSUME NEW w \in Worker, WorkerStep(w) \/ WorkerFault(w) PROVE OneCompile'
    <2>1. \A v \in Worker : On(v)' => On(v)
      BY <1>0, <1>3
      DEF WorkerStep, WorkerFault, GetTraces, Compiled, Commit, FailRead, FailBump,
          FailSettle, WorkerGoto, WorkerEnds, IdleWorker, WorkerRec
    <2>2. CASE FailBump(w)
      <3>1. IncrementAttempts(row).status = row.status /\ IncrementAttempts(row).lease = row.lease
        BY <1>0 DEF IncrementAttempts, Row
      <3> QED BY <1>q, <2>1, <2>2, <3>1 DEF FailBump
    <2>3. CASE Commit(w) \/ FailSettle(w)
      <3>1. On(w) /\ ~On(w)'
        BY <1>0, <2>3 DEF Commit, FailSettle, WorkerEnds, IdleWorker
      <3>2. \A v \in Worker : ~On(v)'
        BY <1>0, <2>1, <3>1
      <3> QED BY <1>q, <3>2
    <2>4. CASE ~(FailBump(w) \/ Commit(w) \/ FailSettle(w))
      <3>1. row' = row
        BY <1>3, <2>4 DEF WorkerStep, WorkerFault, GetTraces, Compiled, FailRead
      <3> QED BY <1>q, <2>1, <3>1
    <2> QED BY <2>2, <2>3, <2>4
  <1>4. CASE LeaseExpires
    <2>1. \A w \in Worker : ~On(w)'
      BY <1>4 DEF LeaseExpires, NoWorkerRuns
    <2> QED BY <1>q, <2>1
  <1>5. CASE UNCHANGED vars
    BY <1>0, <1>5 DEF vars, OneCompile
  <1> QED BY <1>1, <1>2, <1>3, <1>4, <1>5 DEF Next

\* When no compile outlives its lease, at most one compile runs in all the
\* processes, and the row stays `compiling` under its lease until it ends.
THEOREM OneCompileCorrect == Spec => []OneCompile
  <1>1. Init => OneCompile
    BY DEF Init, OneCompile, IdleWorker
  <1> QED BY <1>1, OneCompileStep, TypeCorrect, PTL DEF Spec

\* A task in shadow or ready has an adapter.
HasAdapter == row.status \in {"shadow", "ready"} => row.adapter

\* A row write under OneCompile keeps a task that has an adapter between
\* shadow and ready, with its adapter, and leaves a failed task failed.
LEMMA SettledStep ==
  ASSUME TypeOK, OneCompile, HasAdapter, [Next]_vars
  PROVE  /\ HasAdapter'
         /\ LeaseCoversCompile /\ row.status \in {"shadow", "ready"}
              => row'.status \in {"shadow", "ready"} /\ row'.adapter
         /\ LeaseCoversCompile /\ row.status = "failed" => row'.status = "failed"
  <1>0. row \in Row
    BY DEF TypeOK
  <1> DEFINE Goal(r) ==
        /\ r.status \in {"shadow", "ready"} => r.adapter
        /\ LeaseCoversCompile /\ row.status \in {"shadow", "ready"}
             => r.status \in {"shadow", "ready"} /\ r.adapter
        /\ LeaseCoversCompile /\ row.status = "failed" => r.status = "failed"
  <1>1. Goal(row) /\ Goal(RecordTrace(row)) /\ Goal([row EXCEPT !.lease = "stale"])
    <2>1. /\ RecordTrace(row).status = row.status /\ RecordTrace(row).adapter = row.adapter
          /\ [row EXCEPT !.lease = "stale"].status = row.status
          /\ [row EXCEPT !.lease = "stale"].adapter = row.adapter
      BY <1>0 DEF RecordTrace, Row
    <2> QED BY <2>1 DEF HasAdapter
  <1>2. CanBeginCompile(row) => Goal(BeginCompile(row))
    BY <1>0 DEF CanBeginCompile, BeginCompile, Row
  <1>3. CanReclaim(row) => Goal(Reclaim(row))
    <2>1. Reclaim(row).status \in {"tracing", "failed"}
      BY <1>0 DEF Reclaim, Row
    <2> QED BY <2>1 DEF CanReclaim
  <1>4. row.status = "shadow" => Goal(Promote(row))
    <2>1. Promote(row).status = "ready" /\ Promote(row).adapter = row.adapter
      BY <1>0 DEF Promote, Row
    <2> QED BY <2>1 DEF HasAdapter
  <1>5. row.status = "ready" => Goal(Demote(row))
    <2>1. Demote(row).status = "shadow" /\ Demote(row).adapter = row.adapter
      BY <1>0 DEF Demote, Row
    <2> QED BY <2>1 DEF HasAdapter
  <1>6. \A p \in Proc : Goal(SyncShadowConfig(row, ConfigOf[p]))
    <2>1. ASSUME NEW p \in Proc
          PROVE  /\ SyncShadowConfig(row, ConfigOf[p]).status = row.status
                 /\ SyncShadowConfig(row, ConfigOf[p]).adapter = row.adapter
      BY <1>0 DEF SyncShadowConfig, Row
    <2> QED BY <2>1 DEF HasAdapter
  <1>7. ASSUME NEW w \in Worker, worker[w].pc # "off", NEW r \in WorkerWrites
        PROVE  Goal(r)
    <2>1. LeaseCoversCompile => row.status = "compiling"
      BY <1>7 DEF OneCompile
    <2>2. /\ IncrementAttempts(row).status = row.status
          /\ IncrementAttempts(row).adapter = row.adapter
          /\ ShadowStarted(row).adapter /\ ReadyFromCompile(row).adapter
          /\ SetStatus(row, "tracing").status = "tracing"
          /\ SetStatus(row, "failed").status = "failed"
      BY <1>0 DEF IncrementAttempts, ShadowStarted, ReadyFromCompile, SetStatus, Row
    <2> QED BY <2>1, <2>2 DEF WorkerWrites, HasAdapter
  <1>8. Goal(row')
    BY <1>1, <1>2, <1>3, <1>4, <1>5, <1>6, <1>7, RowMoves
  <1> QED BY <1>8 DEF HasAdapter

\* When no compile outlives its lease, an adapter is never lost and a failed task stays
\* failed.
THEOREM SettledStaysCorrect == Spec => SettledStays
  <1>1. Init => HasAdapter
    BY DEF Init, NewRow, HasAdapter
  <1>2. TypeOK /\ OneCompile /\ HasAdapter /\ [Next]_vars => HasAdapter'
    BY SettledStep
  <1>3. TypeOK /\ OneCompile /\ HasAdapter /\ [Next]_vars
          => [LeaseCoversCompile =>
                /\ row.status \in {"shadow", "ready"} => row'.status \in {"shadow", "ready"} /\ row'.adapter
                /\ row.status = "failed" => row'.status = "failed"]_row
    BY SettledStep
  <1> QED BY <1>1, <1>2, <1>3, OneCompileCorrect, TypeCorrect, PTL DEF Spec, SettledStays
=============================================================================
