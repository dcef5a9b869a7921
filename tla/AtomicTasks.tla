---------------------------- MODULE AtomicTasks ----------------------------
(***************************************************************************)
(* What the comments of jit/db.py on D-1 and D-4 promise of the trace file,    *)
(* seen from one task: a change of its status takes the next epoch and logs it, *)
(* with the new shadow configuration if that is the cause, at one moment; and a *)
(* report is of one moment.                                                  *)
(***************************************************************************)
EXTENDS Naturals, Sequences

CONSTANT Reader          \* whoever asks for reports
VARIABLES epoch, log,    \* the task's epoch, and its transitions not yet pruned
          config,        \* its shadow configuration: the epoch that set it
          got            \* got[t]: the report t has been given, <<>> for none

avars == <<epoch, log, config, got>>

AtomicInit ==
  /\ epoch = 0 /\ log = <<>> /\ config = 0
  /\ got = [t \in Reader |-> <<>>]

Transition ==
  /\ epoch' = epoch + 1
  /\ log' = Append(log, epoch + 1)
  /\ config' \in {config, epoch + 1}
  /\ UNCHANGED got

Prune ==
  /\ \E n \in 1..Len(log) : log' = SubSeq(log, n, Len(log))
  /\ UNCHANGED <<epoch, config, got>>

Report(t) ==
  /\ got' = [got EXCEPT ![t] = <<epoch, config>>]
  /\ UNCHANGED <<epoch, log, config>>

\* A report is delivered, or the process it was for has died.
Done(ts) ==
  /\ got' = [t \in Reader |-> IF t \in ts THEN <<>> ELSE got[t]]
  /\ UNCHANGED <<epoch, log, config>>

AtomicNext ==
  \/ Transition \/ Prune
  \/ \E t \in Reader : Report(t)
  \/ \E ts \in SUBSET Reader : Done(ts)

AtomicSpec == AtomicInit /\ [][AtomicNext]_avars
=============================================================================
