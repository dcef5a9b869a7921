---------------------------- MODULE FieldGrammar ----------------------------
(***************************************************************************)
(* Types within types, and models within models (schema/grammar.py): how deep they     *)
(* may be nested, what they render to, which warnings they give, and what the       *)
(* fingerprint of a grammar says of them.                                    *)
(***************************************************************************)
EXTENDS FieldRules

CONSTANTS
  MaxDepth,         \* _MAX_RECURSION_DEPTH
  MaxCollections    \* _MAX_COLLECTION_DEPTH

AnyType == [kind |-> "any"]
Collections == WithItems \union BareItems \union {"fixed tuple"}

Inside(t) ==
  CASE t.kind \in WithItems -> <<t.of>>
    [] t.kind \in BareItems -> <<AnyType>>
    [] t.kind \in {"union", "fixed tuple"} -> t.args
    [] OTHER -> <<>>

-----------------------------------------------------------------------------
(* What is refused: a model within itself, nesting that is too deep. *)

RECURSIVE TypeRefused(_, _, _, _), ModelRefused(_, _, _), TypesRefused(_, _, _)
TypeRefused(t, seen, depth, nested) ==
  \/ t.kind \in Collections /\ nested >= MaxCollections
  \/ \E i \in DOMAIN Inside(t) :
       TypeRefused(Inside(t)[i], seen, depth, IF t.kind \in Collections THEN nested + 1 ELSE nested)
  \/ /\ t.kind = "model"
     /\ t.model \in seen \/ depth > MaxDepth \/ ModelRefused(t.model, seen \union {t.model}, depth + 1)

\* Collections are counted from each model on.
TypesRefused(m, seen, depth) ==
  \E i \in DOMAIN Models[m].fields : TypeRefused(Models[m].fields[i].type, seen, depth, 0)
ModelRefused(m, seen, depth) == FieldsRefused(Models[m]) \/ TypesRefused(m, seen, depth)

\* The model that is asked for is not among the ones it is nested in.
Unrenderable(m) == TypesRefused(m, {}, 0)

-----------------------------------------------------------------------------
(* What is rendered. *)

\* What the types inside a type render to, which no constraint of the field bounds.
RECURSIVE Items(_), ModelItems(_)
Items(t) ==
  IF t.kind = "model" THEN <<ObjectRegex(Models[t.model], ModelItems(t.model))>>
  ELSE [i \in DOMAIN Inside(t) |-> TypeRegex(Inside(t)[i], Unbounded, Items(Inside(t)[i]))]
ModelItems(m) == [i \in DOMAIN Models[m].fields |-> Items(Models[m].fields[i].type)]

\* The warnings of the models in a type, and of those in the fields of a model.
RECURSIVE TypeWarns(_), TypesWarn(_)
TypeWarns(t) ==
  UNION {TypeWarns(Inside(t)[i]) : i \in DOMAIN Inside(t)}
    \union IF t.kind = "model" THEN FieldWarnings(t.model) \union TypesWarn(t.model) ELSE {}
TypesWarn(m) ==
  UNION {TypeWarns(f.type) : f \in {f \in ToSet(Models[m].fields) : ~HasPattern(f)}}

-----------------------------------------------------------------------------
(* The fingerprint of types. *)

RECURSIVE TypeKey(_), TypeKeys(_)
TypeKey(t) ==
  LET inside == [i \in DOMAIN Inside(t) |-> TypeKey(Inside(t)[i])] IN
  CASE t.kind \in WithItems -> [kind |-> t.kind, of |-> inside[1]]
    [] t.kind \in {"union", "fixed tuple"} -> [kind |-> t.kind, args |-> inside]
    [] t.kind = "model" -> [kind |-> "model", fields |-> FieldsKey(Models[t.model], TypeKeys(t.model))]
    [] OTHER -> t
TypeKeys(m) == [i \in DOMAIN Models[m].fields |-> TypeKey(Models[m].fields[i].type)]
=============================================================================
