----------------------------- MODULE SchemaLoader -----------------------------
(***************************************************************************)
(* Threads that load an adapter with a response model (schema/loader.py) through  *)
(* the process-wide cache of compiled grammars (schema/grammar.py), and then call    *)
(* the function that load returned.                                          *)
(*                                                                         *)
(* The lock of the cache is held for the lookup and for the insert, and not while   *)
(* a grammar is compiled.  The counter and the flag of a bound function have none.   *)
(***************************************************************************)
EXTENDS FieldRules

CONSTANTS
  Thread,
  RefusedIn(_), RegexesIn(_), KeysIn(_), WarningsIn(_),  \* of the types in a model: FieldGrammar
  MaxCached,   \* _REGEX_CACHE_MAXSIZE
  MaxLoads,    \* bound: loads
  MaxCalls     \* bound: calls of the bound function by a thread

ASSUME LoaderAssumption == MaxCached \in Nat \ {0} /\ MaxLoads \in Nat /\ MaxCalls \in Nat

VARIABLES
  cache,     \* entries, the one used last at the end
  job,       \* job[t]: [step, model] and, from the compile on, the grammar
  loads,     \* how many so far
  got,       \* got[t]: the model and the grammar of the thread's last load, if any
  emitted,   \* warnings of constraints that were given up
  provider,  \* the function has a fallback_provider
  state,     \* _local_fallback_state of the function
  call,      \* call[t]: where the call of t is, and what it has read
  calls,     \* of each thread, how many so far
  fellBack   \* a caller has been answered by the fallback, or by its failure

cacheVars == <<cache, job, loads, got, emitted>>
callVars  == <<provider, state, call, calls, fellBack>>
schema    == <<cacheVars, callVars>>

NoJob   == [step |-> "none"]
Nothing == [model |-> "none"]
NoCall  == [step |-> "none", read |-> 0]

LoaderInit ==
  /\ cache = <<>>
  /\ job = [t \in Thread |-> NoJob]
  /\ loads = 0
  /\ got = [t \in Thread |-> Nothing]
  /\ emitted = {}
  /\ provider \in BOOLEAN
  /\ state = [warned |-> FALSE, count |-> 0]
  /\ call = [t \in Thread |-> NoCall]
  /\ calls = [t \in Thread |-> 0]
  /\ fellBack = FALSE

-----------------------------------------------------------------------------
(* pydantic_to_regex *)

Cached(key) == {i \in DOMAIN cache : cache[i].key = key}
\* move_to_end
Used(key) == LET i == CHOOSE i \in Cached(key) : TRUE IN Append(RemoveAt(cache, i), cache[i])
Newest(s) == IF Len(s) > MaxCached THEN SubSeq(s, Len(s) - MaxCached + 1, Len(s)) ELSE s

\* The models that have a grammar, their fingerprints, grammars and warnings.
Legal   == {m \in DOMAIN Models : ~FieldsRefused(Models[m]) /\ ~RefusedIn(m)}
\* Faulty: a field's constraints are no part of it.
KeyOfTypes ==
  [m \in Legal |-> [i \in DOMAIN Models[m].fields |-> <<Models[m].fields[i].name, KeysIn(m)[i]>>]]
KeyFor  == [m \in Legal |-> FieldsKey(Models[m], KeysIn(m))]
Grammar == [m \in Legal |-> ObjectRegex(Models[m], RegexesIn(m))]
Warned  == [m \in Legal |-> FieldWarnings(m) \union WarningsIn(m)]

Begins(t) == job[t] = NoJob /\ loads < MaxLoads /\ loads' = loads + 1

\* A refused model raises: with a fallback_provider the load goes on without a grammar.
LoadRefused(t) ==
  /\ Begins(t)
  /\ DOMAIN Models \ Legal # {}
  /\ UNCHANGED <<cache, job, got, emitted, callVars>>

Hit(t) ==
  /\ Begins(t)
  /\ \E m \in Legal :
       /\ Cached(KeyFor[m]) # {}
       /\ cache' = Used(KeyFor[m])
       /\ got' = [got EXCEPT ![t] =
                    [model |-> m, grammar |-> cache[CHOOSE i \in Cached(KeyFor[m]) : TRUE].grammar]]
  /\ UNCHANGED <<job, emitted, callVars>>

Miss(t) ==
  /\ Begins(t)
  /\ \E m \in Legal :
       /\ Cached(KeyFor[m]) = {}
       /\ job' = [job EXCEPT ![t] = [step |-> "compile", model |-> m]]
  /\ UNCHANGED <<cache, got, emitted, callVars>>

\* Warnings come with a compile, and so not with a hit.
Compile(t) ==
  /\ job[t].step = "compile"
  /\ job' = [job EXCEPT ![t] = [step |-> "insert", model |-> @.model,
                                grammar |-> Grammar[@.model]]]
  /\ emitted' = emitted \union Warned[job[t].model]
  /\ UNCHANGED <<cache, loads, got, callVars>>

\* The first to insert wins, and the other one returns what it has compiled.
Insert(t) ==
  /\ job[t].step = "insert"
  /\ LET key == KeyFor[job[t].model] IN
     cache' = IF Cached(key) # {} THEN Used(key)
              ELSE Newest(Append(cache, [key |-> key, grammar |-> job[t].grammar]))
  /\ got' = [got EXCEPT ![t] = [model |-> job[t].model, grammar |-> job[t].grammar]]
  /\ job' = [job EXCEPT ![t] = NoJob]
  /\ UNCHANGED <<loads, emitted, callVars>>

-----------------------------------------------------------------------------
(* The bound function, _execute. *)

\* What the adapter answers is valid for the model, or is not, or there is no answer.
Local(t) ==
  /\ call[t] = NoCall /\ calls[t] < MaxCalls
  /\ calls' = [calls EXCEPT ![t] = @ + 1]
  /\ \E valid \in BOOLEAN :
       call' = [call EXCEPT ![t].step = IF ~valid /\ provider THEN "read" ELSE "none"]
  /\ UNCHANGED <<cacheVars, provider, state, fellBack>>

\* fallback_count += 1 is a read and a write, each of the shared dict.
ReadCount(t) ==
  /\ call[t].step = "read"
  /\ call' = [call EXCEPT ![t] = [step |-> "write", read |-> state.count]]
  /\ UNCHANGED <<cacheVars, provider, state, calls, fellBack>>

WriteCount(t) ==
  /\ call[t].step = "write"
  /\ state' = [state EXCEPT !.count = call[t].read + 1]
  /\ call' = [call EXCEPT ![t].step = "warn"]
  /\ UNCHANGED <<cacheVars, provider, calls, fellBack>>

\* Faulty: the failure is counted after the fallback has been tried.
FallBackFirst(t) == call[t].step \in {"read", "fall back"}
MayFallBack(t)   == call[t].step = "fall back"

Warn(t) ==
  /\ call[t].step = "warn"
  /\ state' = [state EXCEPT !.warned = TRUE]
  /\ call' = [call EXCEPT ![t].step = "fall back"]
  /\ UNCHANGED <<cacheVars, provider, calls, fellBack>>

FallBack(t) ==
  /\ MayFallBack(t)
  /\ fellBack' = TRUE
  /\ call' = [call EXCEPT ![t] = NoCall]
  /\ UNCHANGED <<cacheVars, provider, state, calls>>

GrammarNext ==
  \E t \in Thread : LoadRefused(t) \/ Hit(t) \/ Miss(t) \/ Compile(t) \/ Insert(t)
FunctionNext ==
  \E t \in Thread : Local(t) \/ ReadCount(t) \/ WriteCount(t) \/ Warn(t) \/ FallBack(t)

LoaderSpec == LoaderInit /\ [][GrammarNext \/ FunctionNext]_schema

-----------------------------------------------------------------------------
(* Properties *)

\* What a fingerprint cannot tell apart although it may render otherwise: fields that are the
\* same but for the types their bounds of numbers are written in.
SameNumbers(a, b) == NumberKey(a) = NumberKey(b)
SameField(f, g) ==
  /\ f.name = g.name /\ f.pattern = g.pattern
  /\ f.min = g.min /\ f.max = g.max /\ f.other = g.other
  /\ SameNumbers(f.ge, g.ge) /\ SameNumbers(f.gt, g.gt)
  /\ SameNumbers(f.le, g.le) /\ SameNumbers(f.lt, g.lt)
Numbers(f) == <<f.ge, f.gt, f.le, f.lt>>
Confused(m, n) ==
  LET f == Models[m].fields
      g == Models[n].fields IN
  /\ DOMAIN f = DOMAIN g
  /\ \A i \in DOMAIN f : SameField(f[i], g[i]) /\ KeysIn(m)[i] = KeysIn(n)[i]
  /\ \E i \in DOMAIN f : Numbers(f[i]) # Numbers(g[i])

\* Types of one fingerprint are of one kind and render to the same: what the proofs take from
\* FieldGrammar, of which the numbers in a nested model would be the exception.
SameType(t, u) ==
  /\ t.kind = u.kind /\ (TooLong(t) <=> TooLong(u))
  /\ t.kind \in {"literal", "enum"} => t.values = u.values
TypesTell ==
  \A m, n \in Legal :
    \A i \in DOMAIN Models[m].fields \intersect DOMAIN Models[n].fields :
      KeysIn(m)[i] = KeysIn(n)[i] =>
        /\ SameType(Models[m].fields[i].type, Models[n].fields[i].type)
        /\ RegexesIn(m)[i] = RegexesIn(n)[i]

\* A load returns the grammar that a compile of its own model would give, whatever other
\* threads have compiled, inserted and evicted meanwhile (or that of a model which is the
\* same but for the type of a number: see the README); the cache holds no more than
\* its size, and nothing twice.
CachedIsFresh ==
  /\ \A t \in Thread : got[t] # Nothing =>
       \/ got[t].grammar = Grammar[got[t].model]
       \/ \E m \in Legal : Confused(m, got[t].model) /\ got[t].grammar = Grammar[m]
  /\ Len(cache) <= MaxCached
  /\ \A i, j \in DOMAIN cache : cache[i].key = cache[j].key => i = j

\* How many entries are left of those that are written, when the value is read back:
\* equal ones of a set and of one key of a dict become one.
Collapsing == {"set", "bare set", "dict"}
Left(t, count) == IF t.kind \in Collapsing /\ count.low > 1 THEN [count EXCEPT !.low = 1] ELSE count

AtMost(count, f)  == f.max # NoLength => count.high # Unlimited /\ count.high <= f.max
AtLeast(count, f) == f.min # NoLength => count.low >= f.min
Limits(value, f) ==
  value.re \in {"string", "array", "map"} /\ AtMost(Left(f.type, value.count), f)

\* No value that is read back from the language breaks what the field declares.
Enforces(value, f, what) ==
  CASE what = "length" -> Limits(value, f) /\ AtLeast(Left(f.type, value.count), f)
    [] what = "range"  ->
         /\ value.re = "integers"
         /\ \A n \in value.low .. value.high :
              /\ f.ge # NoBound => n >= f.ge.value
              /\ f.gt # NoBound => n > f.gt.value
              /\ f.le # NoBound => n <= f.le.value
              /\ f.lt # NoBound => n < f.lt.value
    [] OTHER -> FALSE
Declared(f) ==
  (IF HasLength(f) THEN {"length"} ELSE {}) \union (IF HasRange(f) THEN {"range"} ELSE {}) \union f.other

\* What the grammar neither enforces nor warns of: that there are two distinct entries or
\* more (grammar.py:1943-1949, S-21).
Unkept(f, what) == what = "length" /\ f.type.kind \in Collapsing /\ f.min > 1

\* Of every constraint that a loaded model declares, either the grammar admits no value that
\* breaks it, or a warning has said so, of this model or of one with its fingerprint; but of a
\* set, a frozenset or a dict of two entries or more only the upper end of the
\* length.  A value the constraint allows is not lost at either end of its range (S-9).
EnforcedOrWarned ==
  \A t \in Thread : got[t] # Nothing =>
    LET fields == Models[got[t].model].fields IN
    \A i \in DOMAIN fields : \A what \in Declared(fields[i]) :
      LET f == fields[i]
          value == got[t].grammar.fields[i].value IN
      \/ \E m \in Legal :
           KeyFor[m] = KeyFor[got[t].model] /\ <<m, f.name, what>> \in emitted
      \/ /\ Enforces(value, f, what) \/ (Unkept(f, what) /\ Limits(value, f))
         /\ what = "length" => value.count = Bounds(f)
         /\ what = "range" => value.low = Low(f) /\ value.high = High(f)

\* Nobody is answered by the fallback, nor told that it failed as well, before the count
\* of local failures is positive and the warning is out, however the unlocked
\* counter is raced for (S-14).
CountShowsFailure == fellBack => state.count > 0 /\ state.warned
=============================================================================
