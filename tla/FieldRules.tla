----------------------------- MODULE FieldRules -----------------------------
(***************************************************************************)
(* The fields of a Pydantic model (schema/grammar.py): which keys, lengths and       *)
(* ranges are refused, what a field is rendered as and which of its constraints are   *)
(* given up, and what the fingerprint says of it: given what the types inside       *)
(* its type are rendered as and fingerprinted as, which FieldGrammar says.            *)
(*                                                                         *)
(* A type is a term: [kind, of] of a list, a set, a dict or Tuple[T, ...],         *)
(* [kind, args] of a union or a tuple, [kind, model] of a nested model, [kind,       *)
(* values] of a Literal or an Enum, and [kind] of every other one.  A regex is the    *)
(* term it was put together from, and has a language.                           *)
(***************************************************************************)
EXTENDS Integers, Sequences, FiniteSets, SequencesExt

CONSTANTS
  Models,           \* by name: [fields, byAlias, byName]
  MaxString, MaxItems, MaxRange,  \* budgets: _MAX_UNROLLED_*, _MAX_ENUMERATED_INT_RANGE
  TooLong(_)        \* element regexes beyond _MAX_UNROLLED_COLLECTION_CHARS

Unlimited == -1
NoLength  == -1
NoPattern == "none"

\* A bound of a number as it was written: ge=1, ge=1.0 and ge=True are equal in Python.
NoBound == [type |-> "none", value |-> 0]
Whole(n) == [type |-> "int", value |-> n]
Float(n) == [type |-> "float", value |-> n]

WithItems == {"list", "set", "variadic", "dict"}
BareItems == {"bare list", "bare set", "bare tuple", "typing tuple"}

-----------------------------------------------------------------------------
(* Patterns, and keys (_field_validation_keys). *)

\* _extract_pattern_from_field: a pattern and its flags, if there is one.
HasPattern(f) == f.pattern # NoPattern

\* An alias is a sequence of names, "path" the one that is none.
Keys(f, model) ==
  LET names == SelectSeq(f.alias, LAMBDA a : a # "path")
      byAlias == IF model.byAlias THEN names ELSE <<>>
      byName  == IF model.byName THEN <<f.name>> ELSE <<>>
  IN IF f.alias = <<>> THEN <<f.name>>
     ELSE byAlias \o SelectSeq(byName, LAMBDA k : ~Contains(byAlias, k))

KeysRefused(f, model) ==
  f.alias # <<>> /\ ((\A i \in DOMAIN f.alias : f.alias[i] = "path") \/ Keys(f, model) = <<>>)

\* Two fields claim one key.
Clash(model) ==
  \E i, j \in DOMAIN model.fields : i # j /\
    ToSet(Keys(model.fields[i], model)) \intersect ToSet(Keys(model.fields[j], model)) # {}

-----------------------------------------------------------------------------
(* Lengths and ranges. *)

HasLength(f) == f.min # NoLength \/ f.max # NoLength

\* _length_constraint_kind
LengthKind(t) ==
  CASE t.kind = "str" -> "string"
    [] t.kind \in WithItems \union {"bare list", "bare set"} -> "collection"
    [] OTHER -> "none"

Unbounded == [low |-> 0, high |-> Unlimited]
Bounds(f) == [low |-> IF f.min = NoLength THEN 0 ELSE f.min,
              high |-> IF f.max = NoLength THEN Unlimited ELSE f.max]

LengthRefused(f) ==
  LET b == Bounds(f) IN HasLength(f) /\ LengthKind(f.type) # "none" /\ b.high # Unlimited /\ b.low > b.high

\* _resolve_length_bounds: what is within the budgets.
Unrolls(f) ==
  LET b == Bounds(f)
      repetitions == IF b.high = Unlimited THEN b.low ELSE b.high IN
  CASE LengthKind(f.type) = "string"     -> repetitions <= MaxString
    [] LengthKind(f.type) = "collection" -> repetitions <= MaxItems /\ ~TooLong(f.type)
    [] OTHER -> FALSE

\* Faulty: the entries after the first are as many as all of them may be.
TailOfAll(b) ==
  [low |-> IF b.low <= 0 THEN 0 ELSE b.low - 1, high |-> b.high]
\* The quantifier of the entries after the first.
Tail1(b) ==
  [low  |-> IF b.low <= 0 THEN 0 ELSE b.low - 1,
   high |-> IF b.high = Unlimited THEN Unlimited ELSE b.high - 1]

\* _json_collection_regex: how many entries its language has, the first one being
\* optional when none is enough.
Entries(b) ==
  IF b.high = 0 THEN [low |-> 0, high |-> 0]
  ELSE [low  |-> IF b.low <= 0 THEN 0 ELSE 1 + Tail1(b).low,
        high |-> IF b.high = Unlimited THEN Unlimited ELSE 1 + Tail1(b).high]

\* _integer_range: a closed interval of integers, if each of its ends is one.
Ends(f) == {f.ge, f.gt, f.le, f.lt} \ {NoBound}
HasRange(f) == Ends(f) # {}
Lows(f)  == {b.value : b \in {f.ge} \ {NoBound}} \union {b.value + 1 : b \in {f.gt} \ {NoBound}}
Highs(f) == {b.value : b \in {f.le} \ {NoBound}} \union {b.value - 1 : b \in {f.lt} \ {NoBound}}
Low(f)  == CHOOSE n \in Lows(f) : \A m \in Lows(f) : m <= n
High(f) == CHOOSE n \in Highs(f) : \A m \in Highs(f) : n <= m
RangeRenders(f) ==
  /\ \A b \in Ends(f) : b.type = "int"
  /\ Lows(f) # {} /\ Highs(f) # {}
  /\ Low(f) <= High(f) /\ High(f) - Low(f) + 1 <= MaxRange

\* A bound as it was written, if there is one; the value of a whole number is one.
IsBound(b) == b = NoBound \/ b.type = "float" \/ (b.type = "int" /\ b.value \in Int)

\* What Pydantic sees to: no length is less than 0, and no pattern is on an int.
ASSUME FieldAssumption ==
  /\ MaxString \in Nat /\ MaxItems \in Nat /\ MaxRange \in Nat
  /\ \A m \in DOMAIN Models : \A i \in DOMAIN Models[m].fields :
       LET f == Models[m].fields[i] IN
       /\ f.min \in Nat \union {NoLength} /\ f.max \in Nat \union {NoLength}
       /\ HasPattern(f) => f.type.kind # "int"
       /\ IsBound(f.ge) /\ IsBound(f.gt) /\ IsBound(f.le) /\ IsBound(f.lt)
       /\ f.other \intersect {"length", "range"} = {}

\* A model that is refused for one of its fields, or for two of them.
FieldsRefused(model) ==
  \/ Clash(model)
  \/ \E i \in DOMAIN model.fields :
       LET f == model.fields[i] IN
       KeysRefused(f, model) \/ (~HasPattern(f) /\ LengthRefused(f))

-----------------------------------------------------------------------------
(* What is rendered (_type_to_regex, _pydantic_to_regex_impl). *)

\* _json_string_regex: a repetition is a decoded character, as Pydantic counts them.
StringRegex(bounds) == [re |-> "string", count |-> [bounds EXCEPT !.low = IF @ < 0 THEN 0 ELSE @]]

\* A type, by what the types inside it are rendered as, if there are any.
TypeRegex(t, bounds, items) ==
  CASE t.kind \in {"list", "set", "variadic", "bare list", "bare set"} ->
         [re |-> "array", item |-> items[1], count |-> Entries(bounds)]
    [] t.kind \in {"bare tuple", "typing tuple"} ->
         [re |-> "array", item |-> items[1], count |-> Entries(Unbounded)]
    [] t.kind = "dict" -> [re |-> "map", item |-> items[1], count |-> Entries(bounds)]
    [] t.kind = "fixed tuple" -> [re |-> "row", items |-> items]
    [] t.kind = "union" -> [re |-> "one of", items |-> items]
    [] t.kind \in {"literal", "enum"} -> [re |-> "values", values |-> t.values]
    [] t.kind = "model" -> items[1]
    [] t.kind = "str" -> StringRegex(bounds)
    [] t.kind = "other" -> StringRegex(Unbounded)
    [] OTHER -> [re |-> t.kind]

FieldRegex(f, items) ==
  CASE HasPattern(f) -> [re |-> "pattern", pattern |-> f.pattern]
    [] ~HasPattern(f) /\ f.type.kind = "int" /\ HasRange(f) /\ RangeRenders(f) ->
         [re |-> "integers", low |-> Low(f), high |-> High(f)]
    [] OTHER -> TypeRegex(f.type, IF HasLength(f) /\ Unrolls(f) THEN Bounds(f) ELSE Unbounded, items)

ObjectRegex(model, items) ==
  [re |-> "object",
   fields |-> [i \in DOMAIN model.fields |->
                 [keys |-> Keys(model.fields[i], model), value |-> FieldRegex(model.fields[i], items[i])]]]

\* _describe_dropped_constraints
Dropped(f) ==
  (IF HasLength(f) /\ (HasPattern(f) \/ ~Unrolls(f)) THEN {"length"} ELSE {})
  \union (IF HasRange(f) /\ (f.type.kind # "int" \/ ~RangeRenders(f)) THEN {"range"} ELSE {})
  \union f.other

\* The warnings of the fields of a model.
FieldWarnings(m) ==
  UNION {{<<m, Models[m].fields[i].name, d>> : d \in Dropped(Models[m].fields[i])} :
           i \in DOMAIN Models[m].fields}

-----------------------------------------------------------------------------
(* The fingerprint (_fingerprint_annotation, _fingerprint_model_fields). *)

\* Values of a Literal or an Enum keep their types; bounds of numbers do not.
NumberKey(b) == IF b = NoBound THEN <<>> ELSE <<b.value>>
ConstraintKey(f) ==
  <<f.min, f.max, NumberKey(f.ge), NumberKey(f.gt), NumberKey(f.le), NumberKey(f.lt), f.other>>

\* Without the names of models, so that models of the same fields share a grammar.
FieldsKey(model, types) ==
  [i \in DOMAIN model.fields |->
     LET f == model.fields[i] IN
     [name |-> f.name, type |-> types[i], pattern |-> f.pattern,
      keys |-> Keys(f, model), constraints |-> ConstraintKey(f)]]
=============================================================================
