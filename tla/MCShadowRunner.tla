--------------------------- MODULE MCShadowRunner ---------------------------
(***************************************************************************)
(* Small instances of ShadowRunner: windows of two comparisons of which both *)
(* must agree, and an audit window demoted by fewer than one agreement.      *)
(***************************************************************************)
EXTENDS ShadowRunner

CONSTANTS p1, p2, c1, c2, cfgA, cfgB

\* One caller in each process, and a configuration of its own to each.
EachProc    == [c \in Caller |-> IF c = c1 THEN p1 ELSE p2]
OtherConfig == [p \in Proc |-> IF p = p1 THEN cfgA ELSE cfgB]

Two  == [c \in Configs |-> 2]
One  == [c \in Configs |-> 1]

\* What a comparison may come to: two outcomes, all three, or the one that
\* moves the task.
AnyVerdict == [phase \in {"shadow", "audit"} |-> Verdict]
Counted    == [phase \in {"shadow", "audit"} |-> {"agree", "disagree"}]
Clear      == [phase \in {"shadow", "audit"} |-> IF phase = "shadow" THEN {"agree"} ELSE {"disagree"}]

\* Two processes and a restart; and one process long enough for rows to be deleted,
\* with excluded verdicts and a fault.
GateWorld == {[callers |-> {c1, c2}, outcomes |-> Counted, recorded |-> 3, restarts |-> 1, faults |-> 0],
              [callers |-> {c1}, outcomes |-> AnyVerdict, recorded |-> 7, restarts |-> 0, faults |-> 1]}

\* One process, of an adapter that is clearly good and then clearly bad.
MovesWorld == {[callers |-> {c1}, outcomes |-> Clear, recorded |-> 8, restarts |-> 1, faults |-> 1]}
=============================================================================
