----------------------------- MODULE AdapterFile -----------------------------
(***************************************************************************)
(* One adapter path: the manifest that compile() replaces there, the history   *)
(* sidecar beside it (backend/manifest_lineage.py, atomicio.py), and the        *)
(* functions that backend instances of several processes load and cache from    *)
(* it (_get_function_and_vocabulary).                                          *)
(*                                                                         *)
(* A step is one operation on a file or one critical section under an          *)
(* instance's lock, with the local code after it.  What the compile service     *)
(* does is in CompileService; here it names a program or compile() raises.       *)
(***************************************************************************)
EXTENDS Naturals, Sequences, FiniteSets

CONSTANTS
  Compiler,      \* threads that call compile() on the path
  Reader,        \* threads that call infer() on the path
  Instance,      \* backend instances, one to a process
  InstanceOf,    \* the instance of each thread
  World,         \* [users, reliable, refuses]: the threads that use the path, whether every
                 \* operation whose failure the code swallows succeeds, and whether
                 \* the grammar its readers ask for may be refused
  Program,       \* the programs the service may name
  HistoryMax,    \* lines in _HISTORY_MAX_BYTES
  MaxManifests,  \* bound on the manifests written, by `refuses`
  MaxCrashes     \* bound on the deaths of processes and of the machine

ASSUME FileAssumption ==
  /\ IsFiniteSet(Compiler)
  /\ Compiler # {}
  /\ InstanceOf \in [Compiler \union Reader -> Instance]
  /\ World \subseteq [users : SUBSET (Compiler \union Reader), reliable : BOOLEAN,
                      refuses : BOOLEAN]
  /\ HistoryMax \in Nat \ {0}
  /\ MaxManifests \in [BOOLEAN -> Nat]
  /\ MaxCrashes \in Nat

VARIABLES
  manifests,   \* every manifest ever at the path, the last one there now; the
               \* index of one is its (mtime, size, inode)
  durable,     \* how many of them a power loss cannot take back
  inodes,      \* the sidecar files ever created, each the set of its lines
  live,        \* which of them is at <path>.history.jsonl, 0 for none
  rotated,     \* which of them is at <path>.history.jsonl.1, 0 for none
  reliable,    \* of the world, for good
  refuses,     \* of the world, for good
  compile,     \* compile[c]: where compile() is, and its locals
  infer,       \* infer[r]: where infer() is, and its locals
  cache,       \* cache[b]: the entry of the path in `_functions`
  constrains,  \* constrains[b]: applies_grammar_constraint
  warned,      \* warned[b]: whether the path's grammar is in `_constraint_unavailable_warned`,
               \* and whether the process has ever warned of it (a history)
  crashes

disk == <<manifests, durable, inodes, live, rotated, reliable, refuses>>
vars == <<manifests, durable, inodes, live, rotated, reliable, refuses, compile, infer, cache,
          constrains, warned, crashes>>

NoProgram == "no program"
Torn      == "torn"

ASSUME ProgramAssumption == {NoProgram, Torn} \cap Program = {}

\* `synced`: its data was on disk before the rename.
Manifest == [program : Program \union {Torn}, synced : BOOLEAN]

\* `mine` is the manifest the call has published, `fd` the sidecar it has opened.
IdleCompile == [pc |-> "idle", program |-> NoProgram, synced |-> FALSE, mine |-> 0, fd |-> 0]
\* `vocabulary`: the function has one to mask with; once it decodes, its output is masked.
IdleInfer   == [pc |-> "idle", stat |-> 0, program |-> NoProgram, vocabulary |-> FALSE]
Unwarned    == [marked |-> FALSE, given |-> FALSE]

\* stat = 0: no entry.
NoEntry == [stat |-> 0, program |-> NoProgram, vocabulary |-> FALSE]

CompilePC == {"off", "idle", "rename", "syncdir", "rotate", "replace",
              "open", "append", "drop"}
InferPC == {"off", "idle", "lookup", "read", "check", "load", "insert", "call", "warn", "decode"}

TypeOK ==
  /\ manifests \in Seq(Manifest)
  /\ durable \in 0..Len(manifests)
  /\ inodes \in Seq(SUBSET (Nat \ {0}))
  /\ live \in 0..Len(inodes) /\ rotated \in 0..Len(inodes)
  /\ reliable \in BOOLEAN /\ refuses \in BOOLEAN
  /\ compile \in [Compiler -> [pc : CompilePC, program : Program \union {NoProgram},
                               synced : BOOLEAN, mine : 0..Len(manifests), fd : 0..Len(inodes)]]
  /\ infer \in [Reader -> [pc : InferPC, stat : 0..Len(manifests),
                           program : Program \union {NoProgram}, vocabulary : BOOLEAN]]
  /\ cache \in [Instance -> [stat : 0..Len(manifests), program : Program \union {NoProgram},
                             vocabulary : BOOLEAN]]
  /\ constrains \in [Instance -> BOOLEAN]
  /\ warned \in [Instance -> [marked : BOOLEAN, given : BOOLEAN]]
  /\ crashes \in Nat

Init ==
  /\ manifests = <<>> /\ durable = 0
  /\ inodes = <<>> /\ live = 0 /\ rotated = 0
  /\ \E w \in World :
       /\ compile = [c \in Compiler |-> [IdleCompile EXCEPT !.pc = IF c \in w.users THEN "idle" ELSE "off"]]
       /\ infer = [r \in Reader |-> [IdleInfer EXCEPT !.pc = IF r \in w.users THEN "idle" ELSE "off"]]
       /\ reliable = w.reliable /\ refuses = w.refuses
  /\ cache = [b \in Instance |-> NoEntry]
  /\ constrains = [b \in Instance |-> TRUE]
  /\ warned = [b \in Instance |-> Unwarned]
  /\ crashes = 0

Now == Len(manifests)

-----------------------------------------------------------------------------
(* compile(). *)

At(c, pc)   == compile[c].pc = pc
Goto(c, pc) == compile' = [compile EXCEPT ![c].pc = pc]

\* compile() returns the path or raises.
EndCompile(c) == compile' = [compile EXCEPT ![c] = IdleCompile]

\* Faulty: the temporary file is not fsynced.
WriteTempUnsynced(c) ==
  /\ At(c, "idle")
  /\ \E p \in Program : compile' = [compile EXCEPT ![c].pc = "rename", ![c].program = p]
  /\ UNCHANGED <<disk, infer, cache, constrains, warned, crashes>>

\* The service has named a program, one it has named before if its cache has
\* the spec; its manifest is in the temporary file of atomic_write_text, fsynced.
\* What the service answers of its visibility cannot end the call.
WriteTemp(c) ==
  /\ At(c, "idle")
  /\ \E p \in Program :
       compile' = [compile EXCEPT ![c].pc = "rename", ![c].program = p, ![c].synced = TRUE]
  /\ UNCHANGED <<disk, infer, cache, constrains, warned, crashes>>

Rename(c) ==
  /\ At(c, "rename")
  /\ Now < MaxManifests[refuses]
  /\ manifests' = Append(manifests, [program |-> compile[c].program, synced |-> compile[c].synced])
  /\ compile' = [compile EXCEPT ![c].pc = "syncdir", ![c].mine = Now + 1]
  /\ UNCHANGED <<durable, inodes, live, rotated, reliable, refuses, infer, cache, constrains, warned, crashes>>

\* The temporary file is removed.
WriteFails(c) ==
  /\ At(c, "rename")
  /\ EndCompile(c)
  /\ UNCHANGED <<disk, infer, cache, constrains, warned, crashes>>

\* Faulty: no fsync of the directory.
SkipSyncDir(c) ==
  /\ At(c, "syncdir")
  /\ Goto(c, "rotate")
  /\ UNCHANGED <<disk, infer, cache, constrains, warned, crashes>>

\* _fsync_dir, which swallows every failure.
SyncDir(c) ==
  /\ At(c, "syncdir")
  /\ \/ durable' = Now
     \/ ~reliable /\ UNCHANGED durable
  /\ Goto(c, "rotate")
  /\ UNCHANGED <<manifests, inodes, live, rotated, reliable, refuses, infer, cache, constrains, warned, crashes>>

\* Faulty: one line over the cap.
FullPast(lines) == Cardinality(lines) > HistoryMax

Full(lines) == Cardinality(lines) >= HistoryMax

\* _rotate_history_if_full, the stat: the next line would pass the cap.
Rotate(c) ==
  /\ At(c, "rotate")
  /\ Goto(c, IF live # 0 /\ Full(inodes[live]) THEN "replace" ELSE "open")
  /\ UNCHANGED <<disk, infer, cache, constrains, warned, crashes>>

\* os.replace, of whatever is there by now; nothing there and any other failure
\* are swallowed.
Replace(c) ==
  /\ At(c, "replace")
  /\ \/ live # 0 /\ rotated' = live /\ live' = 0
     \/ (live = 0 \/ ~reliable) /\ UNCHANGED <<live, rotated>>
  /\ Goto(c, "open")
  /\ UNCHANGED <<manifests, durable, inodes, reliable, refuses, infer, cache, constrains, warned, crashes>>

\* os.open with O_CREAT and O_APPEND.
Open(c) ==
  /\ At(c, "open")
  /\ IF live = 0
     THEN /\ inodes' = Append(inodes, {})
          /\ live' = Len(inodes) + 1
     ELSE UNCHANGED <<inodes, live>>
  /\ compile' = [compile EXCEPT ![c].pc = "append", ![c].fd = live']
  /\ UNCHANGED <<manifests, durable, rotated, reliable, refuses, infer, cache, constrains, warned, crashes>>

\* One write() to the file that was opened, wherever its name has gone.
AppendLine(c) ==
  /\ At(c, "append")
  /\ inodes' = [inodes EXCEPT ![compile[c].fd] = @ \union {compile[c].mine}]
  /\ Goto(c, "drop") \/ EndCompile(c)
  /\ UNCHANGED <<manifests, durable, live, rotated, reliable, refuses, infer, cache, constrains, warned, crashes>>

AppendFails(c) ==
  /\ At(c, "open") \/ At(c, "append")
  /\ EndCompile(c)
  /\ UNCHANGED <<disk, infer, cache, constrains, warned, crashes>>

\* The loaded function of the path is dropped, in this instance.
Drop(c) ==
  /\ At(c, "drop")
  /\ cache' = [cache EXCEPT ![InstanceOf[c]] = NoEntry]
  /\ EndCompile(c)
  /\ UNCHANGED <<disk, infer, constrains, warned, crashes>>

-----------------------------------------------------------------------------
(* infer(). *)

Reads(r, pc) == infer[r].pc = pc
Entry(r)     == cache[InstanceOf[r]]
EndInfer(r)  == infer' = [infer EXCEPT ![r] = IdleInfer]

\* The function that is called: the entry's, or the one just loaded.
Use(r, entry) ==
  infer' = [infer EXCEPT ![r].pc = "call", ![r].program = entry.program,
                         ![r].vocabulary = entry.vocabulary]

\* os.stat; FileNotFoundError ends the call.
Stat(r) ==
  /\ Reads(r, "idle")
  /\ Now > 0
  /\ infer' = [infer EXCEPT ![r].pc = "lookup", ![r].stat = Now]
  /\ UNCHANGED <<disk, compile, cache, constrains, warned, crashes>>

\* Faulty: whatever is cached will do.
HitAny(r) == Entry(r).stat # 0

Hit(r) == Entry(r).stat = infer[r].stat

Lookup(r) ==
  /\ Reads(r, "lookup")
  /\ IF Hit(r) THEN Use(r, Entry(r)) ELSE infer' = [infer EXCEPT ![r].pc = "read"]
  /\ UNCHANGED <<disk, compile, cache, constrains, warned, crashes>>

\* read_manifest: what is at the path by now.  A torn manifest raises.
ReadManifest(r) ==
  /\ Reads(r, "read")
  /\ IF manifests[Now].program = Torn THEN EndInfer(r)
     ELSE infer' = [infer EXCEPT ![r].pc = "check", ![r].program = manifests[Now].program]
  /\ UNCHANGED <<disk, compile, cache, constrains, warned, crashes>>

\* Under the lock: another thread may have cached this manifest, or an entry of
\* the same program is given the new identity; an entry of another is dropped.
Check(r) ==
  /\ Reads(r, "check")
  /\ LET same == Entry(r).stat # 0 /\ Entry(r).program = infer[r].program
     IN CASE Hit(r) -> Use(r, Entry(r)) /\ UNCHANGED cache
          [] ~Hit(r) /\ same ->
               /\ cache' = [cache EXCEPT ![InstanceOf[r]].stat = infer[r].stat]
               /\ Use(r, Entry(r))
          [] OTHER ->
               /\ cache' = [cache EXCEPT ![InstanceOf[r]] = NoEntry]
               /\ infer' = [infer EXCEPT ![r].pc = "load"]
  /\ UNCHANGED <<disk, compile, constrains, warned, crashes>>

\* Faulty: a failed vocabulary leaves the instance as it is.
LoadUndegraded(r) ==
  /\ Reads(r, "load")
  /\ \E ok \in BOOLEAN :
       infer' = [infer EXCEPT ![r].pc = "insert", ![r].vocabulary = ok /\ constrains[InstanceOf[r]]]
  /\ UNCHANGED <<disk, compile, cache, constrains, warned, crashes>>

\* The model is loaded, and its vocabulary built while the instance constrains;
\* one that cannot be built degrades the instance for good.
Load(r) ==
  /\ Reads(r, "load")
  /\ \E ok \in BOOLEAN :
       /\ infer' = [infer EXCEPT ![r].pc = "insert",
                                 ![r].vocabulary = ok /\ constrains[InstanceOf[r]]]
       /\ constrains' = [constrains EXCEPT ![InstanceOf[r]] = @ /\ ok]
  /\ UNCHANGED <<disk, compile, cache, warned, crashes>>

Insert(r) ==
  /\ Reads(r, "insert")
  /\ cache' = [cache EXCEPT ![InstanceOf[r]] =
       [stat |-> infer[r].stat, program |-> infer[r].program, vocabulary |-> infer[r].vocabulary]]
  /\ infer' = [infer EXCEPT ![r].pc = "call"]
  /\ UNCHANGED <<disk, compile, constrains, warned, crashes>>

\* The manifest cannot be read or the function not loaded: infer() raises.
InferFails(r) ==
  /\ Reads(r, "read") \/ Reads(r, "load")
  /\ EndInfer(r)
  /\ UNCHANGED <<disk, compile, cache, constrains, warned, crashes>>

Decode(r, masked) == infer' = [infer EXCEPT ![r].pc = "decode", ![r].vocabulary = masked]

\* Faulty: the grammar is looked up after it is noted.
RefuseUnwarned(r) ==
  /\ warned' = [warned EXCEPT ![InstanceOf[r]].marked = TRUE]
  /\ Decode(r, FALSE)

\* The grammar is refused at its construction: the call decodes without it, and the first
\* to note the refusal, under the lock, warns of it once it has left the lock.
Refuse(r) ==
  LET b == InstanceOf[r] IN
  /\ warned' = [warned EXCEPT ![b].marked = TRUE]
  /\ IF warned[b].marked THEN Decode(r, FALSE)
     ELSE infer' = [infer EXCEPT ![r].pc = "warn", ![r].vocabulary = FALSE]

\* build_constraint, if the instance still constrains; every call asks for the path's grammar.
Constrain(r) ==
  /\ Reads(r, "call")
  /\ IF infer[r].vocabulary /\ constrains[InstanceOf[r]]
     THEN \/ refuses /\ Refuse(r)
          \/ Decode(r, TRUE) /\ UNCHANGED warned
     ELSE Decode(r, FALSE) /\ UNCHANGED warned
  /\ UNCHANGED <<disk, compile, cache, constrains, crashes>>

\* warnings.warn: other threads may have found the grammar noted by now.
Warn(r) ==
  /\ Reads(r, "warn")
  /\ warned' = [warned EXCEPT ![InstanceOf[r]].given = TRUE]
  /\ infer' = [infer EXCEPT ![r].pc = "decode"]
  /\ UNCHANGED <<disk, compile, cache, constrains, crashes>>

\* The function answers, outside the lock, or fails; or the constraint could not be built
\* for another reason than a refusal.
Answer(r) ==
  /\ Reads(r, "decode") \/ (Reads(r, "call") /\ infer[r].vocabulary /\ constrains[InstanceOf[r]])
  /\ EndInfer(r)
  /\ UNCHANGED <<disk, compile, cache, constrains, warned, crashes>>

-----------------------------------------------------------------------------
(* What happens around the calls. *)

\* Functions of other paths push this one out of the LRU, or reset().
Forget(b) ==
  /\ cache[b] # NoEntry
  /\ cache' = [cache EXCEPT ![b] = NoEntry]
  /\ UNCHANGED <<disk, compile, infer, constrains, warned, crashes>>

\* 64 other grammars refused push the path's out of `_constraint_unavailable_warned`.
ForgetRefusal(b) ==
  /\ warned[b].marked
  /\ warned' = [warned EXCEPT ![b].marked = FALSE]
  /\ UNCHANGED <<disk, compile, infer, cache, constrains, crashes>>

Restarted(pc) == IF pc = "off" THEN "off" ELSE "idle"

\* Every process of B dies, and is started again.
Dies(B) ==
  /\ crashes < MaxCrashes
  /\ crashes' = crashes + 1
  /\ compile' = [c \in Compiler |-> IF InstanceOf[c] \in B
                   THEN [IdleCompile EXCEPT !.pc = Restarted(compile[c].pc)] ELSE compile[c]]
  /\ infer' = [r \in Reader |-> IF InstanceOf[r] \in B
                 THEN [IdleInfer EXCEPT !.pc = Restarted(infer[r].pc)] ELSE infer[r]]
  /\ cache' = [b \in Instance |-> IF b \in B THEN NoEntry ELSE cache[b]]
  /\ constrains' = [b \in Instance |-> b \in B \/ constrains[b]]
  /\ warned' = [b \in Instance |-> IF b \in B THEN Unwarned ELSE warned[b]]

Crash(b) ==
  /\ Dies({b})
  /\ UNCHANGED disk

\* The machine loses power: the renames after the last fsync of the directory
\* may be lost, and so is data that was never fsynced.  The sidecar's lines are
\* fsynced as they are written.
PowerLoss ==
  /\ Dies(Instance)
  /\ \E k \in durable..Now :
       /\ manifests' = [i \in 1..k |-> IF manifests[i].synced THEN manifests[i]
                                       ELSE [manifests[i] EXCEPT !.program = Torn]]
       /\ durable' = k
  /\ UNCHANGED <<inodes, live, rotated, reliable, refuses>>

CompileStep(c) ==
  \/ WriteTemp(c) \/ Rename(c) \/ WriteFails(c) \/ SyncDir(c) \/ Rotate(c)
  \/ Replace(c) \/ Open(c) \/ AppendLine(c) \/ AppendFails(c) \/ Drop(c)

InferStep(r) ==
  \/ Stat(r) \/ Lookup(r) \/ ReadManifest(r) \/ Check(r) \/ Load(r) \/ Insert(r)
  \/ InferFails(r) \/ Constrain(r) \/ Warn(r) \/ Answer(r)

Next ==
  \/ \E c \in Compiler : CompileStep(c)
  \/ \E r \in Reader : InferStep(r)
  \/ \E b \in Instance : Forget(b) \/ ForgetRefusal(b) \/ Crash(b)
  \/ PowerLoss

Spec == Init /\ [][Next]_vars

-----------------------------------------------------------------------------
(* Properties. *)

\* Program p was named by a manifest that was at the path at some time from
\* identity `stat` on.
NamedSince(p, stat) == \E k \in stat..Now : k > 0 /\ manifests[k].program = p

\* A call of infer() gets a program that was at the path at some time during the
\* call, never an older one, whoever recompiles it meanwhile and whatever this
\* process has cached (_get_function_and_vocabulary, D-2).
FreshFunction ==
  \A r \in Reader : infer[r].pc \in {"call", "warn", "decode"} => NamedSince(infer[r].program, infer[r].stat)

\* Why: a cached function is of no older a manifest than its identity says.
CacheFresh ==
  \A b \in Instance : cache[b].stat # 0 => NamedSince(cache[b].program, cache[b].stat)

\* A call decodes without its grammar only when that can be known: its instance has given up
\* on grammars, which a caller reads of applies_grammar_constraint (money route iii); or
\* this one was refused, and its process has warned of it, or another thread is at its
\* warning (degradation (b), whose flag stays True).
UnconstrainedIsKnown ==
  \A r \in Reader : Reads(r, "decode") /\ ~infer[r].vocabulary =>
    LET b == InstanceOf[r] IN
    \/ ~constrains[b]
    \/ warned[b].given
    \/ \E s \in Reader \ {r} : InstanceOf[s] = b /\ Reads(s, "warn")

\* No manifest is ever torn, power loss included (atomicio.py, D-3).
NeverTorn == \A k \in 1..Now : manifests[k].program # Torn

\* The sidecar never tells of a manifest that is not there, power loss included:
\* the line is written after the manifest is durable.  _fsync_dir is best-effort:
\* where it cannot sync the directory a line may outlive its manifest.
LinesAreOfManifests ==
  reliable => \A i \in DOMAIN inodes : inodes[i] \subseteq 1..durable

\* What was written survives: no manifest is ever torn by a crash or a power loss, and no
\* line of the sidecar tells of one that is lost (atomicio.py, D-3; append_history_entry).
FilesSurvive == NeverTorn /\ LinesAreOfManifests

\* A sidecar file stays within its cap but for one line of each other compile()
\* that was past the check (_rotate_history_if_full, "bounded, not never over"), as
\* long as it can be moved aside.
SidecarBounded ==
  reliable => \A i \in DOMAIN inodes : Cardinality(inodes[i]) < HistoryMax + Cardinality(Compiler)
=============================================================================
