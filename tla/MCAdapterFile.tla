--------------------------- MODULE MCAdapterFile ---------------------------
(* AdapterFile in two processes, each compiling and reading one path. *)
EXTENDS AdapterFile, TLC

CONSTANTS b1, b2, c1, c2, r1, r2, pA, pB

MCInstanceOf == [t \in Compiler \union Reader |-> IF t \in {c1, r1, r2} THEN b1 ELSE b2]

\* Two compiles, in two processes; one beside two readers in the other process, whose
\* grammar may be refused in a world of its own; and one alone, where nothing the code
\* swallows can be relied on.  A compile in the readers' own process would only drop
\* their cache entry, which Forget does.
MCWorld == [users : {{c1, c2}}, reliable : {TRUE}, refuses : {FALSE}]
     \union [users : {{c2, r1, r2}}, reliable : {TRUE}, refuses : BOOLEAN]
     \union [users : {{c2}}, reliable : {FALSE}, refuses : {FALSE}]
MCMaxManifests == [may \in BOOLEAN |-> IF may THEN 1 ELSE 3]
Symmetry == Permutations({pA, pB}) \union Permutations({r1, r2})
=============================================================================
