------------------------------ MODULE Matching ------------------------------
(***************************************************************************)
(* When two outputs of an adapter are the same answer (test/matching.py).       *)
(*                                                                         *)
(* A text is what the comparisons tell apart: its bytes, its bytes after         *)
(* normalize_whitespace, and the JSON value it parses to, if any.                *)
(***************************************************************************)
EXTENDS Integers, Sequences

NotJson == [kind |-> "not JSON"]

Null       == [kind |-> "null"]
Bool(b)    == [kind |-> "bool", truth |-> b]
\* A number has a value only if it is finite: NaN and Infinity parse, too.
Number(n)  == [kind |-> "number", finite |-> TRUE, number |-> n]
NotFinite  == [kind |-> "number", finite |-> FALSE, number |-> 0]
\* The value of a string is a text of its own, of which only the bytes and the
\* normalised bytes are ever compared.
String(s)  == [kind |-> "string", text |-> s]
Array(s)   == [kind |-> "array", items |-> s]
Object(f)  == [kind |-> "object", fields |-> f]

Parsed(t) == t.json # NotJson

\* json_values_equal
RECURSIVE JsonEqual(_, _)
JsonEqual(a, b) ==
  /\ a.kind = b.kind
  /\ CASE a.kind = "null"   -> TRUE
       [] a.kind = "bool"   -> a.truth = b.truth
       [] a.kind = "number" -> a.finite /\ b.finite /\ a.number = b.number
       [] a.kind = "string" -> a.text = b.text
       [] a.kind = "array"  -> /\ Len(a.items) = Len(b.items)
                               /\ \A i \in DOMAIN a.items : JsonEqual(a.items[i], b.items[i])
       [] a.kind = "object" -> /\ DOMAIN a.fields = DOMAIN b.fields
                               /\ \A k \in DOMAIN a.fields : JsonEqual(a.fields[k], b.fields[k])

SamePlain(a, b) == a.bytes = b.bytes \/ a.plain = b.plain

ValuesEquivalent(a, b) ==
  \/ a.bytes = b.bytes
  \/ IF Parsed(a) /\ Parsed(b) THEN JsonEqual(a.json, b.json) ELSE a.plain = b.plain

\* One side is a JSON string and the other is not JSON at all: the unwrapped
\* string is compared as text, since one of the two does not parse.
Unwraps(a, b) == Parsed(a) /\ a.json.kind = "string" /\ ~Parsed(b) /\ SamePlain(a.json.text, b)

ValuesEquivalentUnquoted(a, b) ==
  ValuesEquivalent(a, b) \/ Unwraps(a, b) \/ Unwraps(b, a)
=============================================================================
