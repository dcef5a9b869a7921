---------------------------- MODULE MCTraceStore ----------------------------
(* TraceStore with two processes, the first of two threads. *)
EXTENDS TraceStore, TLC

CONSTANTS p1, p2, t1, t2, t3

MCProcOf == [t \in Thread |-> IF t = t3 THEN p2 ELSE p1]

\* Two processes migrate a file of any release, and both write to it; one of them fails or
\* dies on the way; three threads work on a file their processes have open; one
\* process, and then two, write long enough for the table to be pruned.
MCWorld ==
  LET W(found, opened, user, closer, n, f, c) ==
        [files |-> found, open |-> opened, users |-> user, closers |-> closer, quota |-> n,
         faults |-> f, crashes |-> c] IN
  {W(Earlier \union {Fresh}, FALSE, {t1, t3}, {}, 1, 0, 0),
   W(Earlier \union {Fresh}, FALSE, {}, {}, 0, 1, 1),
   W({Current}, TRUE, {t1, t2, t3}, {p1}, 2, 0, 0),
   W({Current}, TRUE, {t1, t3}, {p1}, 2, 1, 1),
   W({Current}, TRUE, {t1}, {p1}, 6, 3, 0),
   W({Current}, TRUE, {t1, t3}, {}, 6, 0, 0)}
=============================================================================
