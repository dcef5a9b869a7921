--------------------------- MODULE MCJitLifecycle ---------------------------
(* JitLifecycle on two processes that share one traces.db. *)
EXTENDS JitLifecycle

CONSTANTS p1, p2, c1, c2, w1, w2, cfgA, cfgB

MCProcOf == [t \in Thread |-> IF t \in {c1, w1} THEN p1 ELSE p2]
MCConfigOf == [p \in Proc |-> IF p = p1 THEN cfgA ELSE cfgB]
=============================================================================
