-------------------------- MODULE AdapterFileProofs --------------------------
(***************************************************************************)
(* Proofs of the safety properties of AdapterFile for any number of           *)
(* compiling and reading threads, instances, manifests and crashes.            *)
(***************************************************************************)
EXTENDS AdapterFile, FiniteSetTheorems, SequenceTheorems, TLAPS

CompileRec == [pc : CompilePC, program : Program \union {NoProgram}, synced : BOOLEAN,
               mine : 0..Now, fd : 0..Len(inodes)]
InferRec   == [pc : InferPC, stat : 0..Now, program : Program \union {NoProgram},
               vocabulary : BOOLEAN]
EntryRec   == [stat : 0..Now, program : Program \union {NoProgram}, vocabulary : BOOLEAN]
WarnedRec  == [marked : BOOLEAN, given : BOOLEAN]

\* What each place in compile() and infer() says of the locals.
CompilePhase(c) ==
  /\ At(c, "rename") => compile[c].program \in Program /\ compile[c].synced
  /\ compile[c].pc \in {"syncdir", "rotate", "replace", "open", "append"} =>
       compile[c].mine \in 1..Now
  /\ At(c, "append") => compile[c].fd \in 1..Len(inodes)
InferPhase(r) == infer[r].pc \notin {"off", "idle"} => infer[r].stat \in 1..Now

Phases ==
  /\ \A c \in Compiler : CompilePhase(c)
  /\ \A r \in Reader : InferPhase(r)

TypeInv == TypeOK /\ Phases

-----------------------------------------------------------------------------
(* Types. *)

\* The type invariant, taken apart.
LEMMA Parts ==
  TypeOK <=> /\ manifests \in Seq(Manifest) /\ durable \in 0..Now
             /\ inodes \in Seq(SUBSET (Nat \ {0}))
             /\ live \in 0..Len(inodes) /\ rotated \in 0..Len(inodes)
             /\ reliable \in BOOLEAN /\ refuses \in BOOLEAN
             /\ compile \in [Compiler -> CompileRec] /\ infer \in [Reader -> InferRec]
             /\ cache \in [Instance -> EntryRec] /\ constrains \in [Instance -> BOOLEAN]
             /\ warned \in [Instance -> WarnedRec] /\ crashes \in Nat
  BY DEF TypeOK, CompileRec, InferRec, EntryRec, WarnedRec, Now

\* And put together after a step.
LEMMA Together ==
  ASSUME manifests' \in Seq(Manifest), durable' \in 0..Now', inodes' \in Seq(SUBSET (Nat \ {0})),
         live' \in 0..Len(inodes'), rotated' \in 0..Len(inodes'), reliable' \in BOOLEAN, refuses' \in BOOLEAN,
         compile' \in [Compiler -> CompileRec'], infer' \in [Reader -> InferRec'],
         cache' \in [Instance -> EntryRec'], constrains' \in [Instance -> BOOLEAN],
         warned' \in [Instance -> WarnedRec], crashes' \in Nat
  PROVE  TypeOK'
  BY DEF TypeOK, CompileRec, InferRec, EntryRec, WarnedRec, Now

\* Lengths are natural numbers.
LEMMA Lengths == TypeOK => Now \in Nat /\ Len(inodes) \in Nat
  BY LenProperties DEF TypeOK, Now

\* Idle locals have their types.
LEMMA Idle ==
  ASSUME Now \in Nat, Len(inodes) \in Nat, NEW pc \in {"off", "idle"}
  PROVE  [IdleCompile EXCEPT !.pc = pc] \in CompileRec /\ [IdleInfer EXCEPT !.pc = pc] \in InferRec
  <1>1. IdleCompile \in CompileRec /\ IdleInfer \in InferRec
    BY DEF IdleCompile, IdleInfer, CompileRec, InferRec, CompilePC, InferPC
  <1>2. pc \in CompilePC /\ pc \in InferPC
    BY DEF CompilePC, InferPC
  <1> QED BY <1>1, <1>2 DEF CompileRec, InferRec

LEMMA InitTypes == Init => TypeInv
  <1> SUFFICES ASSUME Init PROVE TypeInv
    OBVIOUS
  <1>1. manifests \in Seq(Manifest) /\ Now = 0 /\ inodes \in Seq(SUBSET (Nat \ {0})) /\ Len(inodes) = 0
    BY EmptySeq DEF Init, Now
  <1>2. PICK w \in World :
          /\ compile = [c \in Compiler |-> [IdleCompile EXCEPT !.pc = IF c \in w.users THEN "idle" ELSE "off"]]
          /\ infer = [r \in Reader |-> [IdleInfer EXCEPT !.pc = IF r \in w.users THEN "idle" ELSE "off"]]
          /\ reliable = w.reliable /\ refuses = w.refuses
    BY DEF Init
  <1> DEFINE U == w.users
  <1>6. reliable \in BOOLEAN /\ refuses \in BOOLEAN
    BY <1>2, FileAssumption
  <1>3. compile \in [Compiler -> CompileRec] /\ infer \in [Reader -> InferRec]
    <2>1. ASSUME NEW c \in Compiler
          PROVE  [IdleCompile EXCEPT !.pc = IF c \in U THEN "idle" ELSE "off"] \in CompileRec
      <3>1. CASE c \in U
        BY <1>1, <3>1, Idle
      <3>2. CASE c \notin U
        BY <1>1, <3>2, Idle
      <3> QED BY <3>1, <3>2
    <2>2. ASSUME NEW r \in Reader
          PROVE  [IdleInfer EXCEPT !.pc = IF r \in U THEN "idle" ELSE "off"] \in InferRec
      <3>1. CASE r \in U
        BY <1>1, <3>1, Idle
      <3>2. CASE r \notin U
        BY <1>1, <3>2, Idle
      <3> QED BY <3>1, <3>2
    <2> QED BY <1>2, <2>1, <2>2
  <1>4. cache \in [Instance -> EntryRec]
    BY <1>1 DEF Init, EntryRec, NoEntry
  <1>5. Phases
    BY <1>2 DEF Phases, CompilePhase, InferPhase, At, IdleCompile, IdleInfer
  <1>7. warned \in [Instance -> WarnedRec]
    BY DEF Init, Unwarned, WarnedRec
  <1> QED BY <1>1, <1>3, <1>4, <1>5, <1>6, <1>7, Parts DEF Init, TypeInv

\* A step of compile() on the files it leaves alone.
LEMMA CompileTypes ==
  ASSUME TypeInv, NEW c \in Compiler, UNCHANGED <<disk, infer, constrains, warned, crashes>>,
         compile' \in [Compiler -> CompileRec], \A d \in Compiler \ {c} : compile'[d] = compile[d],
         CompilePhase(c)', cache' \in [Instance -> EntryRec]
  PROVE  TypeInv'
  <1>1. Now' = Now /\ Len(inodes)' = Len(inodes) /\ TypeOK /\ Phases
    BY DEF TypeInv, disk, Now
  <1>2. TypeOK'
    BY <1>1, Parts, Together DEF disk, CompileRec, InferRec, EntryRec
  <1>3. Phases'
    BY <1>1 DEF Phases, CompilePhase, InferPhase, At
  <1> QED BY <1>2, <1>3 DEF TypeInv

LEMMA WriteTempTypes ==
  ASSUME TypeInv, NEW c \in Compiler, WriteTemp(c)
  PROVE  TypeInv'
  <1>1. compile \in [Compiler -> CompileRec] /\ cache \in [Instance -> EntryRec] /\ CompilePhase(c)
    BY Parts DEF TypeInv, Phases
  <1>2. PICK p \in Program :
          compile' = [compile EXCEPT ![c].pc = "rename", ![c].program = p, ![c].synced = TRUE]
    BY DEF WriteTemp
  <1>3. compile' \in [Compiler -> CompileRec]
    <2>1. compile'[c] \in CompileRec
      BY <1>1, <1>2 DEF CompileRec, CompilePC
    <2>2. \A d \in Compiler \ {c} : compile'[d] = compile[d]
      BY <1>1, <1>2
    <2>3. compile' = [d \in Compiler |-> compile'[d]]
      BY <1>1, <1>2
    <2> QED BY <1>1, <2>1, <2>2, <2>3
  <1>4. CompilePhase(c)'
    <2>1. compile'[c].pc = "rename" /\ compile'[c].program = p /\ compile'[c].synced
      BY <1>1, <1>2 DEF CompileRec
    <2> QED BY <2>1 DEF CompilePhase, At
  <1> QED BY <1>1, <1>2, <1>3, <1>4, CompileTypes DEF WriteTemp

\* Only the place moves.
LEMMA GotoTypes ==
  ASSUME TypeInv, NEW c \in Compiler, NEW pc \in CompilePC, Goto(c, pc)
  PROVE  /\ compile' \in [Compiler -> CompileRec]
         /\ \A d \in Compiler \ {c} : compile'[d] = compile[d]
         /\ compile'[c].mine = compile[c].mine /\ compile'[c].fd = compile[c].fd
         /\ At(c, pc)'
  BY Parts DEF TypeInv, Goto, At, CompileRec

LEMMA EndCompileTypes ==
  ASSUME TypeInv, NEW c \in Compiler, EndCompile(c)
  PROVE  /\ compile' \in [Compiler -> CompileRec]
         /\ \A d \in Compiler \ {c} : compile'[d] = compile[d]
         /\ At(c, "idle")' /\ CompilePhase(c)'
  <1>1. IdleCompile \in CompileRec
    BY Lengths DEF TypeInv, IdleCompile, CompileRec, CompilePC
  <1> QED BY <1>1, Parts DEF TypeInv, EndCompile, At, CompilePhase, IdleCompile

\* A step of compile() that grows the manifests, the sidecar files or neither.
LEMMA GrowTypes ==
  ASSUME TypeInv, NEW c \in Compiler, UNCHANGED <<reliable, refuses, infer, cache, constrains, warned, crashes>>,
         manifests' \in Seq(Manifest), inodes' \in Seq(SUBSET (Nat \ {0})),
         Now' >= Now, Len(inodes') >= Len(inodes), durable' \in 0..Now',
         live' \in 0..Len(inodes'), rotated' \in 0..Len(inodes'),
         compile' \in [Compiler -> CompileRec'], \A d \in Compiler \ {c} : compile'[d] = compile[d],
         CompilePhase(c)'
  PROVE  TypeInv'
  <1>1. Now \in Nat /\ Len(inodes) \in Nat /\ TypeOK /\ Phases
    BY Lengths DEF TypeInv
  <1>2. Now' \in Nat /\ Len(inodes') \in Nat
    BY LenProperties DEF Now
  <1>3. infer' \in [Reader -> InferRec'] /\ cache' \in [Instance -> EntryRec']
    <2>1. (\A x \in InferRec : x \in InferRec') /\ (\A x \in EntryRec : x \in EntryRec')
      BY <1>1, <1>2 DEF InferRec, EntryRec
    <2> QED BY <1>1, <2>1, Parts
  <1>4. TypeOK'
    BY <1>1, <1>3, Parts, Together
  <1>5. Phases'
    BY <1>1, <1>2 DEF Phases, CompilePhase, InferPhase, At
  <1> QED BY <1>4, <1>5 DEF TypeInv

\* The locals of compile() keep their types when the files grow.
LEMMA CompileGrows ==
  ASSUME TypeOK, Now' \in Nat, Len(inodes') \in Nat, Now' >= Now, Len(inodes') >= Len(inodes)
  PROVE  \A x \in CompileRec : x \in CompileRec'
  BY Lengths DEF CompileRec

LEMMA RenameTypes ==
  ASSUME TypeInv, NEW c \in Compiler, Rename(c)
  PROVE  TypeInv'
  <1> DEFINE m == [program |-> compile[c].program, synced |-> compile[c].synced]
  <1>0. TypeOK /\ CompilePhase(c) /\ compile \in [Compiler -> CompileRec] /\ manifests \in Seq(Manifest)
        /\ Now \in Nat /\ Len(inodes) \in Nat
    BY Parts, Lengths DEF TypeInv, Phases
  <1>1. m \in Manifest /\ manifests' = Append(manifests, m)
    BY <1>0 DEF Rename, CompilePhase, Manifest, CompileRec
  <1>2. manifests' \in Seq(Manifest) /\ Now' = Now + 1
    BY <1>0, <1>1, AppendProperties DEF Now
  <1>3. UNCHANGED <<durable, inodes, live, rotated, reliable, refuses, infer, cache, constrains, warned, crashes>>
        /\ compile' = [compile EXCEPT ![c].pc = "syncdir", ![c].mine = Now + 1]
    BY DEF Rename
  <1>4. compile' \in [Compiler -> CompileRec'] /\ CompilePhase(c)'
    <2>1. compile[c] \in CompileRec' /\ \A d \in Compiler : compile[d] \in CompileRec'
      BY <1>0, <1>2, <1>3, CompileGrows
    <2>2. compile \in [Compiler -> CompileRec']
      BY <1>0, <2>1
    <2>3. compile' \in [Compiler -> CompileRec']
      BY <1>0, <1>2, <1>3, <2>2 DEF CompileRec, CompilePC
    <2>4. CompilePhase(c)'
      BY <1>0, <1>2, <1>3 DEF CompilePhase, At, CompileRec
    <2> QED BY <2>3, <2>4
  <1>5. durable' \in 0..Now' /\ live' \in 0..Len(inodes') /\ rotated' \in 0..Len(inodes')
        /\ inodes' \in Seq(SUBSET (Nat \ {0}))
    BY <1>0, <1>2, <1>3, Parts
  <1>6. \A d \in Compiler \ {c} : compile'[d] = compile[d]
    BY <1>0, <1>3
  <1>7. Now' >= Now /\ Len(inodes') >= Len(inodes)
    BY <1>0, <1>2, <1>3
  <1> QED BY <1>2, <1>3, <1>4, <1>5, <1>6, <1>7, GrowTypes

\* The sidecar's own steps.
LEMMA OpenTypes ==
  ASSUME TypeInv, NEW c \in Compiler, Open(c)
  PROVE  TypeInv'
  <1>0. TypeOK /\ CompilePhase(c) /\ compile \in [Compiler -> CompileRec]
        /\ inodes \in Seq(SUBSET (Nat \ {0})) /\ live \in 0..Len(inodes) /\ rotated \in 0..Len(inodes)
        /\ Now \in Nat /\ Len(inodes) \in Nat
    BY Parts, Lengths DEF TypeInv, Phases
  <1>1. UNCHANGED <<manifests, durable, rotated, reliable, refuses, infer, cache, constrains, warned, crashes>> /\ Now' = Now
        /\ compile' = [compile EXCEPT ![c].pc = "append", ![c].fd = live'] /\ At(c, "open")
    BY DEF Open, Now
  <1>2. /\ inodes' \in Seq(SUBSET (Nat \ {0})) /\ Len(inodes') >= Len(inodes)
        /\ live' \in 1..Len(inodes') /\ Len(inodes') \in Nat
    <2>1. CASE live = 0
      <3>1. {} \in SUBSET (Nat \ {0})
        OBVIOUS
      <3> QED BY <1>0, <2>1, <3>1, AppendProperties DEF Open
    <2>2. CASE live # 0
      BY <1>0, <2>2 DEF Open
    <2> QED BY <2>1, <2>2
  <1>4. compile' \in [Compiler -> CompileRec'] /\ CompilePhase(c)'
    <2>1. \A d \in Compiler : compile[d] \in CompileRec'
      BY <1>0, <1>1, <1>2, CompileGrows
    <2>2. compile \in [Compiler -> CompileRec']
      BY <1>0, <2>1
    <2>3. compile' \in [Compiler -> CompileRec']
      <3>1. live' \in 0..Len(inodes') /\ "append" \in CompilePC
        BY <1>2 DEF CompilePC
      <3>2. compile' = [compile EXCEPT ![c].pc = "append", ![c].fd = live']
        BY <1>1
      <3> QED BY <2>2, <3>1, <3>2 DEF CompileRec
    <2>4. CompilePhase(c)'
      BY <1>0, <1>1, <1>2 DEF CompilePhase, At, CompileRec
    <2> QED BY <2>3, <2>4
  <1>5. durable' \in 0..Now' /\ rotated' \in 0..Len(inodes') /\ manifests' \in Seq(Manifest)
        /\ live' \in 0..Len(inodes')
    BY <1>0, <1>1, <1>2, Parts
  <1>6. \A d \in Compiler \ {c} : compile'[d] = compile[d]
    BY <1>0, <1>1
  <1>7. Now' >= Now
    BY <1>0, <1>1
  <1> QED BY <1>1, <1>2, <1>4, <1>5, <1>6, <1>7, GrowTypes

LEMMA AppendLineTypes ==
  ASSUME TypeInv, NEW c \in Compiler, AppendLine(c)
  PROVE  TypeInv'
  <1>0. TypeOK /\ CompilePhase(c) /\ compile \in [Compiler -> CompileRec]
        /\ inodes \in Seq(SUBSET (Nat \ {0})) /\ live \in 0..Len(inodes) /\ rotated \in 0..Len(inodes)
        /\ Now \in Nat /\ Len(inodes) \in Nat
    BY Parts, Lengths DEF TypeInv, Phases
  <1>1. UNCHANGED <<manifests, durable, live, rotated, reliable, refuses, infer, cache, constrains, warned, crashes>>
        /\ Now' = Now /\ At(c, "append")
    BY DEF AppendLine, Now
  <1>2. compile[c].mine \in 1..Now /\ compile[c].fd \in 1..Len(inodes)
    BY <1>0, <1>1 DEF CompilePhase, At
  <1>3. inodes' \in Seq(SUBSET (Nat \ {0})) /\ Len(inodes') = Len(inodes)
    <2>1. inodes[compile[c].fd] \union {compile[c].mine} \in SUBSET (Nat \ {0})
      BY <1>0, <1>2, ElementOfSeq
    <2>2. inodes' = [inodes EXCEPT ![compile[c].fd] = inodes[compile[c].fd] \union {compile[c].mine}]
      BY DEF AppendLine
    <2> QED BY <1>0, <1>2, <2>1, <2>2, ExceptSeq
  <1>4. /\ compile' \in [Compiler -> CompileRec] /\ CompilePhase(c)'
        /\ \A d \in Compiler \ {c} : compile'[d] = compile[d]
    <2>1. CASE Goto(c, "drop")
      BY <2>1, GotoTypes DEF CompilePC, CompilePhase, At
    <2>2. CASE EndCompile(c)
      BY <2>2, EndCompileTypes
    <2> QED BY <2>1, <2>2 DEF AppendLine
  <1>5. CompileRec' = CompileRec
    BY <1>1, <1>3 DEF CompileRec
  <1>6. durable' \in 0..Now' /\ manifests' \in Seq(Manifest)
    BY <1>0, <1>1, Parts
  <1> QED BY <1>0, <1>1, <1>3, <1>4, <1>5, <1>6, GrowTypes

\* Every step of compile().
LEMMA CompileStepTypes ==
  ASSUME TypeInv, NEW c \in Compiler, CompileStep(c)
  PROVE  TypeInv'
  <1>0. /\ TypeOK /\ CompilePhase(c) /\ compile \in [Compiler -> CompileRec]
        /\ cache \in [Instance -> EntryRec] /\ Now \in Nat /\ Len(inodes) \in Nat
    BY Parts, Lengths DEF TypeInv, Phases
  <1>1. CASE WriteTemp(c)
    BY <1>1, WriteTempTypes
  <1>2. CASE Rename(c)
    BY <1>2, RenameTypes
  <1>3. CASE WriteFails(c) \/ AppendFails(c)
    BY <1>0, <1>3, EndCompileTypes, CompileTypes DEF WriteFails, AppendFails
  <1>4. CASE SyncDir(c)
    <2>1. /\ UNCHANGED <<manifests, inodes, live, rotated, reliable, refuses, infer, cache, constrains, warned, crashes>>
          /\ durable' \in {durable, Now} /\ Now' = Now /\ Goto(c, "rotate") /\ At(c, "syncdir")
      BY <1>4 DEF SyncDir, Now
    <2>2. /\ compile' \in [Compiler -> CompileRec] /\ CompilePhase(c)'
          /\ \A d \in Compiler \ {c} : compile'[d] = compile[d]
      BY <1>0, <2>1, GotoTypes DEF CompilePC, CompilePhase, At
    <2>3. CompileRec' = CompileRec
      BY <2>1 DEF CompileRec
    <2>4. /\ manifests' \in Seq(Manifest) /\ inodes' \in Seq(SUBSET (Nat \ {0}))
          /\ durable' \in 0..Now' /\ live' \in 0..Len(inodes') /\ rotated' \in 0..Len(inodes')
      BY <1>0, <2>1, Parts
    <2>5. Now' >= Now /\ Len(inodes') >= Len(inodes)
      BY <1>0, <2>1
    <2> QED BY <2>1, <2>2, <2>3, <2>4, <2>5, GrowTypes
  <1>5. CASE Rotate(c)
    <2>1. PICK pc \in {"replace", "open"} : Goto(c, pc)
      BY <1>5 DEF Rotate
    <2>2. /\ compile' \in [Compiler -> CompileRec] /\ CompilePhase(c)'
          /\ \A d \in Compiler \ {c} : compile'[d] = compile[d]
      <3>1. pc \in CompilePC
        BY DEF CompilePC
      <3>2. /\ compile' \in [Compiler -> CompileRec] /\ At(c, pc)'
            /\ compile'[c].mine = compile[c].mine
            /\ \A d \in Compiler \ {c} : compile'[d] = compile[d]
        BY <2>1, <3>1, GotoTypes
      <3>3. compile[c].mine \in 1..Now /\ Now' = Now
        BY <1>0, <1>5 DEF CompilePhase, At, Rotate, disk, Now
      <3> QED BY <3>2, <3>3 DEF CompilePhase, At
    <2> QED BY <1>0, <1>5, <2>2, CompileTypes DEF Rotate
  <1>6. CASE Replace(c)
    <2>1. /\ UNCHANGED <<manifests, durable, inodes, reliable, refuses, infer, cache, constrains, warned, crashes>>
          /\ Now' = Now /\ Goto(c, "open") /\ At(c, "replace")
      BY <1>6 DEF Replace, Now
    <2>2. /\ compile' \in [Compiler -> CompileRec] /\ CompilePhase(c)'
          /\ \A d \in Compiler \ {c} : compile'[d] = compile[d]
      BY <1>0, <2>1, GotoTypes DEF CompilePC, CompilePhase, At
    <2>3. CompileRec' = CompileRec
      BY <2>1 DEF CompileRec
    <2>4. live' \in 0..Len(inodes') /\ rotated' \in 0..Len(inodes')
      <3>1. live \in 0..Len(inodes) /\ rotated \in 0..Len(inodes)
        BY <1>0, Parts
      <3> QED BY <1>0, <1>6, <2>1, <3>1 DEF Replace
    <2>5. /\ manifests' \in Seq(Manifest) /\ inodes' \in Seq(SUBSET (Nat \ {0}))
          /\ durable' \in 0..Now'
      BY <1>0, <2>1, Parts
    <2>6. Now' >= Now /\ Len(inodes') >= Len(inodes)
      BY <1>0, <2>1
    <2> QED BY <2>1, <2>2, <2>3, <2>4, <2>5, <2>6, GrowTypes
  <1>7. CASE Open(c)
    BY <1>7, OpenTypes
  <1>8. CASE AppendLine(c)
    BY <1>8, AppendLineTypes
  <1>9. CASE Drop(c)
    <2>1. NoEntry \in EntryRec
      BY <1>0 DEF NoEntry, EntryRec
    <2>2. cache' \in [Instance -> EntryRec]
      BY <1>0, <1>9, <2>1 DEF Drop
    <2> QED BY <1>9, <2>2, EndCompileTypes, CompileTypes DEF Drop
  <1> QED BY <1>1, <1>2, <1>3, <1>4, <1>5, <1>6, <1>7, <1>8, <1>9 DEF CompileStep

\* A step of infer(), or of an instance on its cache.
LEMMA InferTypes ==
  ASSUME TypeInv, UNCHANGED <<disk, compile, crashes>>,
         infer' \in [Reader -> InferRec], \A r \in Reader : infer'[r] # infer[r] => InferPhase(r)',
         cache' \in [Instance -> EntryRec], constrains' \in [Instance -> BOOLEAN],
         warned' = warned \/ warned' \in [Instance -> WarnedRec]
  PROVE  TypeInv'
  <1>1. Now' = Now /\ Len(inodes)' = Len(inodes) /\ TypeOK /\ Phases
    BY DEF TypeInv, disk, Now
  <1>2. TypeOK'
    BY <1>1, Parts, Together DEF disk, CompileRec, InferRec, EntryRec
  <1>3. Phases'
    BY <1>1 DEF Phases, CompilePhase, InferPhase, At
  <1> QED BY <1>2, <1>3 DEF TypeInv

\* The locals of infer() after the moves it is made of.
LEMMA InferMoves ==
  ASSUME TypeInv, NEW r \in Reader, infer[r].pc \notin {"off", "idle"},
         NEW pc \in InferPC, NEW p \in Program \union {NoProgram}, NEW v \in BOOLEAN,
         \/ infer' = [infer EXCEPT ![r].pc = pc]
         \/ infer' = [infer EXCEPT ![r].pc = pc, ![r].program = p]
         \/ infer' = [infer EXCEPT ![r].pc = pc, ![r].vocabulary = v]
         \/ infer' = [infer EXCEPT ![r].pc = pc, ![r].program = p, ![r].vocabulary = v],
         Now' = Now
  PROVE  /\ infer' \in [Reader -> InferRec]
         /\ \A s \in Reader : infer'[s] # infer[s] => InferPhase(s)'
  <1>1. infer \in [Reader -> InferRec] /\ InferPhase(r)
    BY Parts DEF TypeInv, Phases
  <1>2. /\ infer' \in [Reader -> InferRec] /\ infer'[r].stat = infer[r].stat
        /\ \A s \in Reader \ {r} : infer'[s] = infer[s]
    <2>1. CASE infer' = [infer EXCEPT ![r].pc = pc]
      BY <1>1, <2>1 DEF InferRec
    <2>2. CASE infer' = [infer EXCEPT ![r].pc = pc, ![r].program = p]
      <3>1. infer' \in [Reader -> InferRec]
        <4>1. infer'[r] \in InferRec
          BY <1>1, <2>2 DEF InferRec
        <4>2. \A s \in Reader \ {r} : infer'[s] = infer[s]
          BY <1>1, <2>2
        <4>3. infer' = [s \in Reader |-> infer'[s]]
          BY <1>1, <2>2
        <4> QED BY <1>1, <4>1, <4>2, <4>3
      <3>2. infer'[r].stat = infer[r].stat
        BY <1>1, <2>2 DEF InferRec
      <3>3. \A s \in Reader \ {r} : infer'[s] = infer[s]
        BY <1>1, <2>2
      <3> QED BY <3>1, <3>2, <3>3
    <2>3. CASE infer' = [infer EXCEPT ![r].pc = pc, ![r].vocabulary = v]
      <3>1. infer' \in [Reader -> InferRec]
        <4>1. infer'[r] \in InferRec
          BY <1>1, <2>3 DEF InferRec
        <4>2. \A s \in Reader \ {r} : infer'[s] = infer[s]
          BY <1>1, <2>3
        <4>3. infer' = [s \in Reader |-> infer'[s]]
          BY <1>1, <2>3
        <4> QED BY <1>1, <4>1, <4>2, <4>3
      <3>2. infer'[r].stat = infer[r].stat
        BY <1>1, <2>3 DEF InferRec
      <3>3. \A s \in Reader \ {r} : infer'[s] = infer[s]
        BY <1>1, <2>3
      <3> QED BY <3>1, <3>2, <3>3
    <2>4. CASE infer' = [infer EXCEPT ![r].pc = pc, ![r].program = p, ![r].vocabulary = v]
      <3>1. infer' \in [Reader -> InferRec]
        <4>1. infer'[r] \in InferRec
          BY <1>1, <2>4 DEF InferRec
        <4>2. \A s \in Reader \ {r} : infer'[s] = infer[s]
          BY <1>1, <2>4
        <4>3. infer' = [s \in Reader |-> infer'[s]]
          BY <1>1, <2>4
        <4> QED BY <1>1, <4>1, <4>2, <4>3
      <3>2. infer'[r].stat = infer[r].stat
        BY <1>1, <2>4 DEF InferRec
      <3>3. \A s \in Reader \ {r} : infer'[s] = infer[s]
        BY <1>1, <2>4
      <3> QED BY <3>1, <3>2, <3>3
    <2> QED BY <2>1, <2>2, <2>3, <2>4
  <1> QED BY <1>1, <1>2 DEF InferPhase

\* What an instance remembers of its warnings after either note of it.
LEMMA MarkMoves ==
  ASSUME warned \in [Instance -> WarnedRec], NEW b \in Instance, NEW v \in BOOLEAN,
         warned' = [warned EXCEPT ![b].marked = v]
  PROVE  /\ warned' \in [Instance -> WarnedRec]
         /\ \A d \in Instance : warned'[d].given = warned[d].given /\ (d # b => warned'[d] = warned[d])
         /\ warned'[b].marked = v
  <1> DEFINE w == [warned[b] EXCEPT !.marked = v]
  <1>1. w \in WarnedRec /\ w.given = warned[b].given /\ w.marked = v
    BY DEF WarnedRec
  <1>2. warned'[b] = w /\ \A d \in Instance \ {b} : warned'[d] = warned[d]
    OBVIOUS
  <1>3. warned' = [d \in Instance |-> warned'[d]]
    OBVIOUS
  <1> HIDE DEF w
  <1>4. warned' \in [Instance -> WarnedRec]
    BY <1>1, <1>2, <1>3
  <1>5. \A d \in Instance : warned'[d].given = warned[d].given /\ (d # b => warned'[d] = warned[d])
    BY <1>1, <1>2
  <1> QED BY <1>1, <1>2, <1>4, <1>5

LEMMA GivenMoves ==
  ASSUME warned \in [Instance -> WarnedRec], NEW b \in Instance,
         warned' = [warned EXCEPT ![b].given = TRUE]
  PROVE  /\ warned' \in [Instance -> WarnedRec] /\ warned'[b].given
         /\ \A d \in Instance \ {b} : warned'[d] = warned[d]
  <1> DEFINE w == [warned[b] EXCEPT !.given = TRUE]
  <1>1. w \in WarnedRec /\ w.given = TRUE
    BY DEF WarnedRec
  <1>2. warned'[b] = w /\ \A d \in Instance \ {b} : warned'[d] = warned[d]
    OBVIOUS
  <1>3. warned' = [d \in Instance |-> warned'[d]]
    OBVIOUS
  <1> HIDE DEF w
  <1> QED BY <1>1, <1>2, <1>3

LEMMA InferStepTypes ==
  ASSUME TypeInv, NEW r \in Reader, InferStep(r)
  PROVE  TypeInv'
  <1>0. /\ infer \in [Reader -> InferRec] /\ cache \in [Instance -> EntryRec]
        /\ constrains \in [Instance -> BOOLEAN] /\ warned \in [Instance -> WarnedRec]
        /\ Now \in Nat /\ Len(inodes) \in Nat
        /\ manifests \in Seq(Manifest) /\ InferPhase(r)
    BY Parts, Lengths DEF TypeInv, Phases
  <1>1. Now' = Now /\ UNCHANGED <<disk, compile, crashes>>
    BY DEF InferStep, Stat, Lookup, ReadManifest, Check, Load, Insert, InferFails, Constrain, Warn, Answer, disk, Now
  <1>2. InstanceOf[r] \in Instance /\ Entry(r) \in EntryRec
    BY <1>0, FileAssumption DEF Entry
  <1>3. ASSUME EndInfer(r)
        PROVE  infer' \in [Reader -> InferRec] /\ \A s \in Reader : infer'[s] # infer[s] => InferPhase(s)'
    <2>1. IdleInfer \in InferRec
      BY <1>0 DEF IdleInfer, InferRec, InferPC
    <2> QED BY <1>0, <1>3, <2>1 DEF EndInfer, InferPhase, IdleInfer
  <1>4. ASSUME infer[r].pc \notin {"off", "idle"}, Use(r, Entry(r))
        PROVE  infer' \in [Reader -> InferRec] /\ \A s \in Reader : infer'[s] # infer[s] => InferPhase(s)'
    <2>1. "call" \in InferPC /\ Entry(r).program \in Program \union {NoProgram} /\ Entry(r).vocabulary \in BOOLEAN
      BY <1>2 DEF InferPC, EntryRec
    <2> QED BY <1>1, <1>4, <2>1, InferMoves DEF Use
  <1>5. CASE Stat(r)
    <2>1. infer' = [infer EXCEPT ![r].pc = "lookup", ![r].stat = Now] /\ Now > 0
      BY <1>5 DEF Stat
    <2>2. infer' \in [Reader -> InferRec] /\ \A s \in Reader : infer'[s] # infer[s] => InferPhase(s)'
      <3>1. infer' \in [Reader -> InferRec]
        <4>1. infer'[r] \in InferRec
          <5>1. Now \in 0..Now /\ "lookup" \in InferPC
            BY <1>0 DEF InferPC
          <5> QED BY <1>0, <2>1, <5>1 DEF InferRec
        <4>2. \A s \in Reader \ {r} : infer'[s] = infer[s]
          BY <1>0, <2>1
        <4>3. infer' = [s \in Reader |-> infer'[s]]
          BY <1>0, <2>1
        <4> QED BY <1>0, <4>1, <4>2, <4>3
      <3>2. infer'[r].stat = Now /\ \A s \in Reader \ {r} : infer'[s] = infer[s]
        BY <1>0, <2>1 DEF InferRec
      <3> QED BY <1>0, <1>1, <2>1, <3>1, <3>2 DEF InferPhase
    <2> QED BY <1>0, <1>1, <1>5, <2>2, InferTypes DEF Stat
  <1>6. CASE Lookup(r)
    <2>1. infer[r].pc \notin {"off", "idle"}
      BY <1>6 DEF Lookup, Reads
    <2>2. infer' \in [Reader -> InferRec] /\ \A s \in Reader : infer'[s] # infer[s] => InferPhase(s)'
      <3>1. CASE Use(r, Entry(r))
        BY <1>4, <2>1, <3>1
      <3>2. CASE infer' = [infer EXCEPT ![r].pc = "read"]
        BY <1>1, <2>1, <3>2, InferMoves DEF InferPC
      <3> QED BY <1>6, <3>1, <3>2 DEF Lookup
    <2> QED BY <1>0, <1>1, <1>6, <2>2, InferTypes DEF Lookup
  <1>7. CASE ReadManifest(r)
    <2>1. infer[r].pc \notin {"off", "idle"}
      BY <1>7 DEF ReadManifest, Reads
    <2>2. infer' \in [Reader -> InferRec] /\ \A s \in Reader : infer'[s] # infer[s] => InferPhase(s)'
      <3>1. CASE manifests[Now].program = Torn
        BY <1>3, <1>7, <3>1 DEF ReadManifest
      <3>2. CASE manifests[Now].program # Torn
        <4>1. Now \in 1..Len(manifests)
          BY <1>0, <2>1 DEF InferPhase, Now
        <4>2. manifests[Now].program \in Program \union {NoProgram}
          <5>1. manifests[Now] \in Manifest
            BY <1>0, <4>1, ElementOfSeq
          <5> QED BY <3>2, <5>1 DEF Manifest
        <4> QED BY <1>1, <1>7, <2>1, <3>2, <4>2, InferMoves DEF ReadManifest, InferPC
      <3> QED BY <3>1, <3>2
    <2> QED BY <1>0, <1>1, <1>7, <2>2, InferTypes DEF ReadManifest
  <1>8. CASE Check(r)
    <2>1. infer[r].pc \notin {"off", "idle"} /\ constrains' = constrains /\ warned' = warned
      BY <1>8 DEF Check, Reads
    <2>2. \/ Use(r, Entry(r)) /\ cache' = cache
          \/ Use(r, Entry(r)) /\ cache' = [cache EXCEPT ![InstanceOf[r]].stat = infer[r].stat]
          \/ /\ cache' = [cache EXCEPT ![InstanceOf[r]] = NoEntry]
             /\ infer' = [infer EXCEPT ![r].pc = "load"]
      BY <1>8 DEF Check
    <2>3. cache' \in [Instance -> EntryRec]
      <3>1. NoEntry \in EntryRec
        BY <1>0 DEF NoEntry, EntryRec
      <3>2. infer[r].stat \in 0..Now
        BY <1>0 DEF InferRec
      <3>3. CASE cache' = cache
        BY <1>0, <3>3
      <3>4. CASE cache' = [cache EXCEPT ![InstanceOf[r]].stat = infer[r].stat]
        <4>1. [cache[InstanceOf[r]] EXCEPT !.stat = infer[r].stat] \in EntryRec
          BY <1>0, <1>2, <3>2 DEF EntryRec
        <4> QED BY <1>0, <1>2, <3>4, <4>1
      <3>5. CASE cache' = [cache EXCEPT ![InstanceOf[r]] = NoEntry]
        BY <1>0, <1>2, <3>1, <3>5
      <3> QED BY <2>2, <3>3, <3>4, <3>5
    <2>4. infer' \in [Reader -> InferRec] /\ \A s \in Reader : infer'[s] # infer[s] => InferPhase(s)'
      <3>1. CASE Use(r, Entry(r))
        BY <1>4, <2>1, <3>1
      <3>2. CASE infer' = [infer EXCEPT ![r].pc = "load"]
        BY <1>1, <2>1, <3>2, InferMoves DEF InferPC
      <3> QED BY <2>2, <3>1, <3>2
    <2> QED BY <1>0, <1>1, <2>1, <2>3, <2>4, InferTypes
  <1>9. CASE Load(r)
    <2>1. PICK ok \in BOOLEAN :
            /\ infer' = [infer EXCEPT ![r].pc = "insert", ![r].vocabulary = ok /\ constrains[InstanceOf[r]]]
            /\ constrains' = [constrains EXCEPT ![InstanceOf[r]] = @ /\ ok]
      BY <1>9 DEF Load
    <2>2. infer[r].pc \notin {"off", "idle"} /\ cache' = cache /\ warned' = warned
      BY <1>9 DEF Load, Reads
    <2>3. infer' \in [Reader -> InferRec] /\ \A s \in Reader : infer'[s] # infer[s] => InferPhase(s)'
      BY <1>1, <2>1, <2>2, InferMoves DEF InferPC
    <2>4. constrains' \in [Instance -> BOOLEAN]
      BY <1>0, <2>1
    <2> QED BY <1>0, <1>1, <2>2, <2>3, <2>4, InferTypes
  <1>10. CASE Insert(r)
    <2>1. infer[r].pc \notin {"off", "idle"} /\ infer' = [infer EXCEPT ![r].pc = "call"]
          /\ constrains' = constrains /\ warned' = warned
      BY <1>10 DEF Insert, Reads
    <2>2. infer' \in [Reader -> InferRec] /\ \A s \in Reader : infer'[s] # infer[s] => InferPhase(s)'
      BY <1>1, <2>1, InferMoves DEF InferPC
    <2>3. cache' \in [Instance -> EntryRec]
      BY <1>0, <1>2, <1>10 DEF Insert, EntryRec, InferRec
    <2> QED BY <1>0, <1>1, <2>1, <2>2, <2>3, InferTypes
  <1>11. CASE InferFails(r) \/ Answer(r)
    BY <1>0, <1>1, <1>3, <1>11, InferTypes DEF InferFails, Answer
  <1>12. CASE Constrain(r) \/ Warn(r)
    <2>1. PICK pc \in {"decode", "warn"}, v \in BOOLEAN :
            \/ infer' = [infer EXCEPT ![r].pc = pc]
            \/ infer' = [infer EXCEPT ![r].pc = pc, ![r].vocabulary = v]
      BY <1>12 DEF Constrain, Refuse, Decode, Warn
    <2>2. infer[r].pc \notin {"off", "idle"} /\ cache' = cache /\ constrains' = constrains
      BY <1>12 DEF Constrain, Warn, Reads
    <2>3. infer' \in [Reader -> InferRec] /\ \A s \in Reader : infer'[s] # infer[s] => InferPhase(s)'
      BY <1>1, <2>1, <2>2, InferMoves DEF InferPC
    <2>4. warned' = warned \/ warned' \in [Instance -> WarnedRec]
      <3>1. \/ warned' = warned
            \/ warned' = [warned EXCEPT ![InstanceOf[r]].marked = TRUE]
            \/ warned' = [warned EXCEPT ![InstanceOf[r]].given = TRUE]
        BY <1>12 DEF Constrain, Refuse, Warn
      <3> QED BY <1>0, <1>2, <3>1, MarkMoves, GivenMoves
    <2> QED BY <1>0, <1>1, <2>2, <2>3, <2>4, InferTypes
  <1> QED BY <1>5, <1>6, <1>7, <1>8, <1>9, <1>10, <1>11, <1>12 DEF InferStep

LEMMA ForgetTypes ==
  ASSUME TypeInv, NEW b \in Instance, Forget(b)
  PROVE  TypeInv'
  <1>1. /\ infer \in [Reader -> InferRec] /\ cache \in [Instance -> EntryRec]
        /\ constrains \in [Instance -> BOOLEAN] /\ NoEntry \in EntryRec
    BY Parts, Lengths DEF TypeInv, NoEntry, EntryRec
  <1>2. cache' \in [Instance -> EntryRec] /\ UNCHANGED <<disk, compile, infer, constrains, warned, crashes>>
    BY <1>1 DEF Forget
  <1> QED BY <1>1, <1>2, InferTypes

LEMMA ForgetRefusalTypes ==
  ASSUME TypeInv, NEW b \in Instance, ForgetRefusal(b)
  PROVE  TypeInv'
  <1>1. /\ infer \in [Reader -> InferRec] /\ cache \in [Instance -> EntryRec]
        /\ constrains \in [Instance -> BOOLEAN] /\ warned \in [Instance -> WarnedRec]
    BY Parts DEF TypeInv
  <1>2. warned' = [warned EXCEPT ![b].marked = FALSE] /\ UNCHANGED <<disk, compile, infer, cache, constrains, crashes>>
    BY DEF ForgetRefusal
  <1>3. warned' \in [Instance -> WarnedRec]
    BY <1>1, <1>2, MarkMoves
  <1> QED BY <1>1, <1>2, <1>3, InferTypes

\* Processes that die lose their locals, and the others keep theirs, which
\* stay within the files.
LEMMA DiesTypes ==
  ASSUME TypeInv, NEW B \in SUBSET Instance, Dies(B), UNCHANGED inodes, UNCHANGED live, UNCHANGED rotated,
         UNCHANGED <<reliable, refuses>>,
         manifests' \in Seq(Manifest), durable' \in 0..Now', Now' = Now \/ B = Instance
  PROVE  TypeInv'
  <1>0. /\ compile \in [Compiler -> CompileRec] /\ infer \in [Reader -> InferRec]
        /\ cache \in [Instance -> EntryRec] /\ constrains \in [Instance -> BOOLEAN]
        /\ warned \in [Instance -> WarnedRec]
        /\ Now \in Nat /\ Len(inodes) \in Nat /\ Now' \in Nat /\ crashes \in Nat
        /\ \A c \in Compiler : CompilePhase(c)
        /\ \A r \in Reader : InferPhase(r)
        /\ inodes \in Seq(SUBSET (Nat \ {0})) /\ live \in 0..Len(inodes) /\ rotated \in 0..Len(inodes)
    BY Parts, Lengths, LenProperties DEF TypeInv, Phases, Now
  <1>1. /\ \A c \in Compiler : Restarted(compile[c].pc) \in {"off", "idle"} /\ InstanceOf[c] \in Instance
        /\ \A r \in Reader : Restarted(infer[r].pc) \in {"off", "idle"} /\ InstanceOf[r] \in Instance
    BY FileAssumption DEF Restarted
  <1>2. \A pc \in {"off", "idle"} : /\ [IdleCompile EXCEPT !.pc = pc] \in CompileRec'
                                    /\ [IdleInfer EXCEPT !.pc = pc] \in InferRec'
    <2>1. IdleCompile \in CompileRec' /\ IdleInfer \in InferRec' /\ {"off", "idle"} \subseteq CompilePC \cap InferPC
      BY <1>0 DEF IdleCompile, IdleInfer, CompileRec, InferRec, CompilePC, InferPC
    <2> QED BY <2>1 DEF CompileRec, InferRec
  <1>3. Now' = Now => CompileRec' = CompileRec /\ InferRec' = InferRec /\ EntryRec' = EntryRec
    BY DEF CompileRec, InferRec, EntryRec
  <1>4. compile' \in [Compiler -> CompileRec']
    <2>1. compile' = [c \in Compiler |-> IF InstanceOf[c] \in B
                        THEN [IdleCompile EXCEPT !.pc = Restarted(compile[c].pc)] ELSE compile[c]]
      BY DEF Dies
    <2>2. ASSUME NEW c \in Compiler, InstanceOf[c] \notin B PROVE compile[c] \in CompileRec'
      BY <1>0, <1>1, <1>3, <2>2
    <2> QED BY <1>1, <1>2, <2>1, <2>2
  <1>5. infer' \in [Reader -> InferRec']
    <2>1. infer' = [r \in Reader |-> IF InstanceOf[r] \in B
                      THEN [IdleInfer EXCEPT !.pc = Restarted(infer[r].pc)] ELSE infer[r]]
      BY DEF Dies
    <2>2. ASSUME NEW r \in Reader, InstanceOf[r] \notin B PROVE infer[r] \in InferRec'
      BY <1>0, <1>1, <1>3, <2>2
    <2> QED BY <1>1, <1>2, <2>1, <2>2
  <1>6. cache' \in [Instance -> EntryRec']
    <2>1. NoEntry \in EntryRec'
      BY <1>0 DEF NoEntry, EntryRec
    <2>2. cache' = [b \in Instance |-> IF b \in B THEN NoEntry ELSE cache[b]]
      BY DEF Dies
    <2>3. ASSUME NEW b \in Instance, b \notin B PROVE cache[b] \in EntryRec'
      BY <1>0, <1>3, <2>3
    <2> QED BY <2>1, <2>2, <2>3
  <1>7. constrains' \in [Instance -> BOOLEAN] /\ crashes' \in Nat
    BY <1>0 DEF Dies
  <1>12. warned' \in [Instance -> WarnedRec]
    BY <1>0 DEF Dies, Unwarned, WarnedRec
  <1>8. /\ inodes' \in Seq(SUBSET (Nat \ {0})) /\ live' \in 0..Len(inodes') /\ rotated' \in 0..Len(inodes')
        /\ reliable' \in BOOLEAN /\ refuses' \in BOOLEAN
    BY <1>0, Parts DEF TypeInv
  <1>9. TypeOK'
    BY <1>4, <1>5, <1>6, <1>7, <1>8, <1>12, Together
  <1>10. ASSUME NEW c \in Compiler PROVE CompilePhase(c)'
    <2>1. CASE InstanceOf[c] \in B
      BY <1>1, <2>1 DEF Dies, CompilePhase, At, IdleCompile
    <2>2. CASE InstanceOf[c] \notin B
      BY <1>0, <1>1, <2>2 DEF Dies, CompilePhase, At
    <2> QED BY <2>1, <2>2
  <1>11. ASSUME NEW r \in Reader PROVE InferPhase(r)'
    <2>1. CASE InstanceOf[r] \in B
      BY <1>1, <2>1 DEF Dies, InferPhase, IdleInfer
    <2>2. CASE InstanceOf[r] \notin B
      BY <1>0, <1>1, <2>2 DEF Dies, InferPhase
    <2> QED BY <2>1, <2>2
  <1> QED BY <1>9, <1>10, <1>11 DEF TypeInv, Phases

\* What a power loss leaves of the manifests.
LEMMA PowerLossLeaves ==
  ASSUME TypeInv, PowerLoss
  PROVE  \E k \in durable..Now :
           /\ durable' = k /\ Now' = k /\ manifests' \in Seq(Manifest)
           /\ \A i \in 1..k : manifests'[i] = IF manifests[i].synced THEN manifests[i]
                                              ELSE [manifests[i] EXCEPT !.program = Torn]
  <1>1. PICK k \in durable..Now :
          /\ manifests' = [i \in 1..k |-> IF manifests[i].synced THEN manifests[i]
                                          ELSE [manifests[i] EXCEPT !.program = Torn]]
          /\ durable' = k
    BY DEF PowerLoss
  <1>2. manifests \in Seq(Manifest) /\ durable \in 0..Now /\ Now \in Nat /\ k \in Nat
    BY Parts, Lengths DEF TypeInv
  <1>3. \A i \in 1..k : manifests'[i] \in Manifest
    <2> SUFFICES ASSUME NEW i \in 1..k PROVE manifests'[i] \in Manifest
      OBVIOUS
    <2>1. manifests[i] \in Manifest
      BY <1>2, ElementOfSeq DEF Now
    <2> QED BY <1>1, <2>1 DEF Manifest
  <1>4. manifests' \in [1..k -> Manifest]
    BY <1>1, <1>3
  <1>5. manifests' \in Seq(Manifest) /\ Len(manifests') = k
    BY <1>2, <1>4, LenProperties
  <1> QED BY <1>1, <1>5 DEF Now

LEMMA NextTypes == TypeInv /\ [Next]_vars => TypeInv'
  <1> SUFFICES ASSUME TypeInv, [Next]_vars PROVE TypeInv'
    OBVIOUS
  <1>1. CASE UNCHANGED vars
    BY <1>1 DEF vars, TypeInv, TypeOK, Now, Phases, CompilePhase, InferPhase, At
  <1>2. CASE \E c \in Compiler : CompileStep(c)
    BY <1>2, CompileStepTypes
  <1>3. CASE \E r \in Reader : InferStep(r)
    BY <1>3, InferStepTypes
  <1>4. CASE \E b \in Instance : Forget(b)
    BY <1>4, ForgetTypes
  <1>7. CASE \E b \in Instance : ForgetRefusal(b)
    BY <1>7, ForgetRefusalTypes
  <1>5. CASE \E b \in Instance : Crash(b)
    <2>1. PICK b \in Instance : Dies({b}) /\ UNCHANGED disk
      BY <1>5 DEF Crash
    <2>2. manifests' \in Seq(Manifest) /\ durable' \in 0..Now' /\ Now' = Now
      BY <2>1, Parts DEF TypeInv, disk, Now
    <2>3. {b} \in SUBSET Instance /\ UNCHANGED inodes /\ UNCHANGED live /\ UNCHANGED rotated
          /\ UNCHANGED <<reliable, refuses>>
      BY <2>1 DEF disk
    <2> QED BY <2>1, <2>2, <2>3, DiesTypes
  <1>6. CASE PowerLoss
    <2>1. Dies(Instance) /\ UNCHANGED inodes /\ UNCHANGED live /\ UNCHANGED rotated
          /\ UNCHANGED <<reliable, refuses>>
      BY <1>6 DEF PowerLoss
    <2>2. manifests' \in Seq(Manifest) /\ durable' \in 0..Now'
      <3>1. durable \in 0..Now /\ Now \in Nat
        BY Parts, Lengths DEF TypeInv
      <3> QED BY <1>6, <3>1, PowerLossLeaves
    <2> QED BY <2>1, <2>2, DiesTypes
  <1> QED BY <1>1, <1>2, <1>3, <1>4, <1>5, <1>6, <1>7 DEF Next

\* The files, the calls and the caches keep their types through every interleaving,
\* failure, crash and power loss (compile(), _get_function_and_vocabulary).
THEOREM TypeCorrect == Spec => []TypeOK
  BY InitTypes, NextTypes, PTL DEF Spec, TypeInv

-----------------------------------------------------------------------------
(* What is at the path. *)

\* Rename and a power loss alone change the manifests, and a rename appends the
\* caller's.
LEMMA ManifestsMove ==
  ASSUME TypeInv, [Next]_vars
  PROVE  \/ manifests' = manifests /\ Now' = Now
         \/ \E c \in Compiler :
              /\ Rename(c) /\ Now' = Now + 1
              /\ manifests'[Now + 1] = [program |-> compile[c].program, synced |-> compile[c].synced]
              /\ \A k \in 1..Now : manifests'[k] = manifests[k]
         \/ PowerLoss
  <1>1. CASE UNCHANGED vars
    BY <1>1 DEF vars, Now
  <1>2. ASSUME NEW c \in Compiler, CompileStep(c), ~Rename(c)
        PROVE  manifests' = manifests
    BY <1>2 DEF CompileStep, WriteTemp, WriteFails, SyncDir, Rotate, Replace, Open, AppendLine,
                AppendFails, Drop, disk
  <1>3. ASSUME NEW c \in Compiler, Rename(c)
        PROVE  /\ Now' = Now + 1
               /\ manifests'[Now + 1] = [program |-> compile[c].program, synced |-> compile[c].synced]
               /\ \A k \in 1..Now : manifests'[k] = manifests[k]
    <2> DEFINE m == [program |-> compile[c].program, synced |-> compile[c].synced]
    <2>1. manifests \in Seq(Manifest) /\ compile[c] \in CompileRec /\ CompilePhase(c)
      BY Parts DEF TypeInv, Phases
    <2>2. m \in Manifest /\ manifests' = Append(manifests, m)
      BY <1>3, <2>1 DEF Rename, CompilePhase, Manifest, CompileRec
    <2> QED BY <2>1, <2>2, AppendProperties DEF Now
  <1>4. ASSUME NEW r \in Reader, InferStep(r)
        PROVE  manifests' = manifests
    BY <1>4 DEF InferStep, Stat, Lookup, ReadManifest, Check, Load, Insert, InferFails, Constrain, Warn, Answer, disk
  <1>5. ASSUME NEW b \in Instance, Forget(b) \/ ForgetRefusal(b) \/ Crash(b)
        PROVE  manifests' = manifests
    BY <1>5 DEF Forget, ForgetRefusal, Crash, disk
  <1> QED BY <1>1, <1>2, <1>3, <1>4, <1>5 DEF Next, Now

\* Every manifest was on disk before its rename, and is whole.
Whole == \A k \in 1..Now : manifests[k].synced /\ manifests[k].program # Torn

LEMMA WholeStep == TypeInv /\ Whole /\ [Next]_vars => Whole'
  <1> SUFFICES ASSUME TypeInv, Whole, [Next]_vars PROVE Whole'
    OBVIOUS
  <1>0. Now \in Nat /\ durable \in 0..Now
    BY Lengths, Parts DEF TypeInv
  <1>1. CASE manifests' = manifests /\ Now' = Now
    BY <1>1 DEF Whole
  <1>2. ASSUME NEW c \in Compiler, Rename(c), Now' = Now + 1,
               manifests'[Now + 1] = [program |-> compile[c].program, synced |-> compile[c].synced],
               \A k \in 1..Now : manifests'[k] = manifests[k]
        PROVE  Whole'
    <2>1. compile[c].program \in Program /\ compile[c].synced
      BY <1>2 DEF TypeInv, Phases, CompilePhase, Rename, At
    <2>2. compile[c].program # Torn
      BY <2>1, ProgramAssumption
    <2> QED BY <1>0, <1>2, <2>1, <2>2 DEF Whole
  <1>3. CASE PowerLoss
    <2>1. PICK k \in durable..Now :
            /\ Now' = k
            /\ \A i \in 1..k : manifests'[i] = IF manifests[i].synced THEN manifests[i]
                                               ELSE [manifests[i] EXCEPT !.program = Torn]
      BY <1>3, PowerLossLeaves
    <2>2. ASSUME NEW i \in 1..k
          PROVE  manifests'[i] = manifests[i] /\ i \in 1..Now
      <3>1. i \in 1..Now
        BY <1>0, <2>1
      <3>2. manifests[i].synced
        BY <3>1 DEF Whole
      <3> QED BY <2>1, <3>1, <3>2, Zenon
    <2> QED BY <2>1, <2>2 DEF Whole
  <1> QED BY <1>1, <1>2, <1>3, ManifestsMove

\* No manifest is ever torn, for any number of compiles and deaths of processes
\* and of the machine (atomic_write_text).
THEOREM NeverTornCorrect == Spec => []NeverTorn
  <1>1. Init => Whole
    BY EmptySeq DEF Init, Whole, Now
  <1>2. Whole => NeverTorn
    BY DEF Whole, NeverTorn
  <1> QED BY <1>1, <1>2, InitTypes, NextTypes, WholeStep, PTL DEF Spec

-----------------------------------------------------------------------------
(* What the sidecar tells. *)

\* A call about to write its line has made its manifest durable.
LinesInv ==
  /\ \A i \in DOMAIN inodes : inodes[i] \subseteq 1..durable
  /\ \A c \in Compiler : compile[c].pc \in {"rotate", "replace", "open", "append"} =>
                           compile[c].mine \in 1..durable

\* Nothing but a power loss, which ends every call, takes manifests back; what
\* is durable stays.
LEMMA DurableGrows ==
  ASSUME TypeInv, [Next]_vars
  PROVE  durable' >= durable
  <1>0. Now \in Nat /\ durable \in 0..Now
    BY Lengths, Parts DEF TypeInv
  <1>1. CASE UNCHANGED vars
    BY <1>0, <1>1 DEF vars
  <1>2. ASSUME NEW c \in Compiler, CompileStep(c)
        PROVE  durable' \in {durable, Now}
    BY <1>2 DEF CompileStep, WriteTemp, Rename, WriteFails, SyncDir, Rotate, Replace, Open, AppendLine,
                AppendFails, Drop, disk
  <1>3. ASSUME NEW r \in Reader, InferStep(r)
        PROVE  durable' = durable
    BY <1>3 DEF InferStep, Stat, Lookup, ReadManifest, Check, Load, Insert, InferFails, Constrain, Warn, Answer, disk
  <1>4. ASSUME NEW b \in Instance, Forget(b) \/ ForgetRefusal(b) \/ Crash(b)
        PROVE  durable' = durable
    BY <1>4 DEF Forget, ForgetRefusal, Crash, disk
  <1>5. CASE PowerLoss
    BY <1>0, <1>5, PowerLossLeaves
  <1> QED BY <1>0, <1>1, <1>2, <1>3, <1>4, <1>5 DEF Next

\* What a step of compile() does to its place and manifest.
LEMMA LinesSteps ==
  ASSUME TypeInv, NEW c \in Compiler, CompileStep(c)
  PROVE  /\ \A d \in Compiler \ {c} : compile'[d] = compile[d]
         /\ \/ compile'[c].pc \notin {"rotate", "replace", "open", "append"}
            \/ compile'[c].mine = compile[c].mine /\ SyncDir(c)
            \/ /\ compile'[c].mine = compile[c].mine
               /\ compile[c].pc \in {"rotate", "replace", "open", "append"}
  <1>0. compile \in [Compiler -> CompileRec]
    BY Parts DEF TypeInv
  <1>1. CASE WriteTemp(c)
    BY <1>0, <1>1 DEF WriteTemp, CompileRec
  <1>2. CASE Rename(c)
    BY <1>0, <1>2 DEF Rename, CompileRec
  <1>3. CASE WriteFails(c) \/ AppendFails(c) \/ Drop(c)
    BY <1>0, <1>3 DEF WriteFails, AppendFails, Drop, EndCompile, IdleCompile
  <1>4. CASE SyncDir(c)
    BY <1>0, <1>4 DEF SyncDir, Goto, CompileRec
  <1>5. CASE Rotate(c)
    BY <1>0, <1>5 DEF Rotate, Goto, At, CompileRec
  <1>6. CASE Replace(c)
    BY <1>0, <1>6 DEF Replace, Goto, At, CompileRec
  <1>7. CASE Open(c)
    BY <1>0, <1>7 DEF Open, At, CompileRec
  <1>8. CASE AppendLine(c)
    BY <1>0, <1>8 DEF AppendLine, Goto, EndCompile, IdleCompile, CompileRec
  <1> QED BY <1>1, <1>2, <1>3, <1>4, <1>5, <1>6, <1>7, <1>8 DEF CompileStep

\* A step writes at most one line, of the caller's manifest, or creates a file.
LEMMA LinesMove ==
  ASSUME TypeInv, [Next]_vars
  PROVE  \/ inodes' = inodes
         \/ inodes' = Append(inodes, {})
         \/ \E c \in Compiler :
              /\ At(c, "append")
              /\ inodes' = [inodes EXCEPT ![compile[c].fd] = @ \union {compile[c].mine}]
  <1>1. CASE UNCHANGED vars
    BY <1>1 DEF vars
  <1>2. ASSUME NEW c \in Compiler, CompileStep(c), ~Open(c), ~AppendLine(c)
        PROVE  inodes' = inodes
    BY <1>2 DEF CompileStep, WriteTemp, Rename, WriteFails, SyncDir, Rotate, Replace, AppendFails,
                Drop, disk
  <1>3. ASSUME NEW c \in Compiler, Open(c)
        PROVE  inodes' = inodes \/ inodes' = Append(inodes, {})
    BY <1>3 DEF Open
  <1>4. ASSUME NEW r \in Reader, InferStep(r)
        PROVE  inodes' = inodes
    BY <1>4 DEF InferStep, Stat, Lookup, ReadManifest, Check, Load, Insert, InferFails, Constrain, Warn, Answer, disk
  <1>5. ASSUME NEW b \in Instance, Forget(b) \/ ForgetRefusal(b) \/ Crash(b)
        PROVE  inodes' = inodes
    BY <1>5 DEF Forget, ForgetRefusal, Crash, disk
  <1>6. CASE PowerLoss
    BY <1>6 DEF PowerLoss
  <1>7. ASSUME NEW c \in Compiler, AppendLine(c)
        PROVE  At(c, "append") /\ inodes' = [inodes EXCEPT ![compile[c].fd] = @ \union {compile[c].mine}]
    BY <1>7 DEF AppendLine
  <1> QED BY <1>1, <1>2, <1>3, <1>4, <1>5, <1>6, <1>7 DEF Next

\* The world stays as it is.
LEMMA WorldStays == [Next]_vars => reliable' = reliable
  <1>1. ASSUME NEW c \in Compiler, CompileStep(c)
        PROVE  reliable' = reliable
    BY <1>1 DEF CompileStep, WriteTemp, Rename, WriteFails, SyncDir, Rotate, Replace, Open, AppendLine,
                AppendFails, Drop, disk
  <1>2. ASSUME NEW r \in Reader, InferStep(r)
        PROVE  reliable' = reliable
    BY <1>2 DEF InferStep, Stat, Lookup, ReadManifest, Check, Load, Insert, InferFails, Constrain, Warn, Answer, disk
  <1>3. ASSUME NEW b \in Instance, Forget(b) \/ ForgetRefusal(b) \/ Crash(b)
        PROVE  reliable' = reliable
    BY <1>3 DEF Forget, ForgetRefusal, Crash, disk
  <1>4. PowerLoss => reliable' = reliable
    BY DEF PowerLoss
  <1>5. UNCHANGED vars => reliable' = reliable
    BY DEF vars
  <1> QED BY <1>1, <1>2, <1>3, <1>4, <1>5 DEF Next

LEMMA LinesStep == TypeInv /\ (reliable => LinesInv) /\ [Next]_vars => (reliable => LinesInv)'
  <1> SUFFICES ASSUME TypeInv, reliable, LinesInv, [Next]_vars PROVE LinesInv'
    BY WorldStays
  <1>4. reliable = TRUE
    BY Parts DEF TypeInv
  <1>0. /\ durable \in Nat /\ durable' \in Nat /\ durable' >= durable /\ Now \in Nat /\ durable \in 0..Now
        /\ inodes \in Seq(SUBSET (Nat \ {0})) /\ Len(inodes) \in Nat
    <2>1. durable' \in 0..Now' /\ Now' \in Nat
      <3>1. TypeInv'
        BY NextTypes
      <3> QED BY <3>1, LenProperties DEF TypeInv, TypeOK, Now
    <2> QED BY <2>1, DurableGrows, Parts, Lengths DEF TypeInv
  <1>1. 1..durable \subseteq 1..durable'
    BY <1>0
  <1>2. \A i \in DOMAIN inodes' : inodes'[i] \subseteq 1..durable'
    <2>1. CASE inodes' = inodes
      BY <1>1, <2>1 DEF LinesInv
    <2>2. CASE inodes' = Append(inodes, {})
      <3>1. Len(inodes') = Len(inodes) + 1 /\ inodes'[Len(inodes) + 1] = {}
            /\ \A i \in 1..Len(inodes) : inodes'[i] = inodes[i]
        BY <1>0, <2>2, AppendProperties
      <3>2. inodes' \in Seq(SUBSET (Nat \ {0}))
        BY <1>0, <2>2, AppendProperties
      <3>3. DOMAIN inodes = 1..Len(inodes) /\ DOMAIN inodes' = 1..(Len(inodes) + 1)
        BY <1>0, <3>1, <3>2, LenProperties
      <3> QED BY <1>0, <1>1, <3>1, <3>3 DEF LinesInv
    <2>3. ASSUME NEW c \in Compiler, At(c, "append"),
                 inodes' = [inodes EXCEPT ![compile[c].fd] = @ \union {compile[c].mine}]
          PROVE  \A i \in DOMAIN inodes' : inodes'[i] \subseteq 1..durable'
      <3>1. compile[c].mine \in 1..durable
        BY <2>3 DEF LinesInv, At
      <3> QED BY <1>1, <2>3, <3>1 DEF LinesInv
    <2> QED BY <2>1, <2>2, <2>3, LinesMove
  <1>3. ASSUME NEW d \in Compiler, compile'[d].pc \in {"rotate", "replace", "open", "append"}
        PROVE  compile'[d].mine \in 1..durable'
    <2>1. CASE compile'[d] = compile[d]
      BY <1>1, <1>3, <2>1 DEF LinesInv
    <2>2. ASSUME NEW c \in Compiler, CompileStep(c)
          PROVE  compile'[d].mine \in 1..durable'
      <3>1. CASE c # d
        BY <2>1, <2>2, <3>1, LinesSteps
      <3>2. CASE c = d /\ SyncDir(d)
        <4>1. durable' = Now /\ compile[d].mine \in 1..Now
          BY <1>4, <3>2 DEF SyncDir, At, TypeInv, Phases, CompilePhase
        <4>2. compile'[d].mine = compile[d].mine
          BY <3>2, Parts DEF TypeInv, SyncDir, Goto, CompileRec
        <4> QED BY <4>1, <4>2
      <3>3. CASE c = d /\ ~SyncDir(d)
        BY <1>1, <1>3, <2>2, <3>3, LinesSteps DEF LinesInv
      <3> QED BY <3>1, <3>2, <3>3
    <2>3. ASSUME NEW r \in Reader, InferStep(r)
          PROVE  compile' = compile
      BY <2>3 DEF InferStep, Stat, Lookup, ReadManifest, Check, Load, Insert, InferFails, Constrain, Warn, Answer
    <2>4. ASSUME NEW B \in SUBSET Instance, Dies(B)
          PROVE  compile'[d] = compile[d]
      BY <1>3, <2>4 DEF Dies, IdleCompile, Restarted
    <2>5. ASSUME NEW b \in Instance, Forget(b) \/ ForgetRefusal(b) \/ Crash(b)
          PROVE  compile'[d] = compile[d]
      <3>1. {b} \in SUBSET Instance
        OBVIOUS
      <3> QED BY <2>4, <2>5, <3>1 DEF Forget, ForgetRefusal, Crash
    <2>6. CASE PowerLoss
      BY <2>1, <2>4, <2>6 DEF PowerLoss
    <2>7. CASE UNCHANGED vars
      BY <2>1, <2>7 DEF vars
    <2> QED BY <2>1, <2>2, <2>3, <2>5, <2>6, <2>7 DEF Next
  <1> QED BY <1>2, <1>3 DEF LinesInv

\* Every line of every sidecar file tells of a manifest no power loss can take
\* back (append_history_entry after atomic_write_text).
THEOREM LinesCorrect == Spec => []LinesAreOfManifests
  <1>1. Init => LinesInv
    <2> SUFFICES ASSUME Init PROVE LinesInv
      OBVIOUS
    <2>1. \A c \in Compiler : compile[c].pc \in {"off", "idle"}
      BY DEF Init, IdleCompile
    <2>2. DOMAIN inodes = {}
      BY DEF Init
    <2> QED BY <2>1, <2>2 DEF LinesInv
  <1>2. (reliable => LinesInv) => LinesAreOfManifests
    BY DEF LinesInv, LinesAreOfManifests
  <1> QED BY <1>1, <1>2, InitTypes, NextTypes, LinesStep, PTL DEF Spec

\* What was written survives, for any number of compiles, deaths and power losses.
THEOREM FilesSurviveCorrect == Spec => []FilesSurvive
BY NeverTornCorrect, LinesCorrect, PTL DEF FilesSurvive

-----------------------------------------------------------------------------
(* What a call of infer() gets. *)

\* A reader past read_manifest has a program that was at the path since its stat.
FreshInv ==
  /\ CacheFresh
  /\ \A r \in Reader : infer[r].pc \in {"check", "load", "insert", "call", "warn", "decode"} =>
                         NamedSince(infer[r].program, infer[r].stat)

\* A manifest that is appended leaves what was named named.
LEMMA NamedStays ==
  ASSUME TypeInv, [Next]_vars, ~PowerLoss, NEW p, NEW stat \in Nat, NamedSince(p, stat)
  PROVE  \E k \in stat..Now' : k > 0 /\ manifests'[k].program = p
  <1>0. Now \in Nat
    BY Lengths DEF TypeInv
  <1>1. PICK k \in stat..Now : k > 0 /\ manifests[k].program = p
    BY DEF NamedSince
  <1>2. k \in stat..Now' /\ manifests'[k] = manifests[k]
    <2>1. k \in 1..Now
      BY <1>0, <1>1
    <2>2. Now' >= Now /\ manifests'[k] = manifests[k]
      <3>1. CASE manifests' = manifests /\ Now' = Now
        BY <1>0, <3>1
      <3>2. CASE Now' = Now + 1 /\ \A j \in 1..Now : manifests'[j] = manifests[j]
        BY <1>0, <2>1, <3>2
      <3> QED BY <3>1, <3>2, ManifestsMove
    <2>3. Now' \in Nat
      BY LenProperties, NextTypes DEF TypeInv, TypeOK, Now
    <2> QED BY <1>0, <1>1, <2>2, <2>3
  <1> QED BY <1>1, <1>2

\* What a step of infer() leaves: the locals of the others, and an entry that is
\* as fresh as the reader or was there.
LEMMA FreshInferStep ==
  ASSUME TypeInv, FreshInv, NEW r \in Reader, InferStep(r)
  PROVE  FreshInv'
  <1>0. /\ infer \in [Reader -> InferRec] /\ cache \in [Instance -> EntryRec] /\ Now \in Nat
        /\ InferPhase(r) /\ InstanceOf[r] \in Instance
    BY Parts, Lengths, FileAssumption DEF TypeInv, Phases
  <1>1. manifests' = manifests /\ Now' = Now
    BY DEF InferStep, Stat, Lookup, ReadManifest, Check, Load, Insert, InferFails, Constrain, Warn, Answer, disk, Now
  <1>2. \A p, stat : NamedSince(p, stat)' <=> NamedSince(p, stat)
    BY <1>1 DEF NamedSince
  <1>3. ASSUME \A s \in Reader \ {r} : infer'[s] = infer[s],
               infer'[r].pc \in {"check", "load", "insert", "call", "warn", "decode"} =>
                 NamedSince(infer'[r].program, infer'[r].stat),
               CacheFresh'
        PROVE  FreshInv'
    BY <1>2, <1>3 DEF FreshInv
  <1>4. ASSUME cache' = cache
        PROVE  CacheFresh'
    BY <1>2, <1>4 DEF FreshInv, CacheFresh
  <1>5. ASSUME EndInfer(r)
        PROVE  /\ \A s \in Reader \ {r} : infer'[s] = infer[s]
               /\ infer'[r].pc \notin {"check", "load", "insert", "call", "warn", "decode"}
    BY <1>0, <1>5 DEF EndInfer, IdleInfer
  <1>6. ASSUME Use(r, Entry(r))
        PROVE  /\ \A s \in Reader \ {r} : infer'[s] = infer[s]
               /\ infer'[r].program = Entry(r).program /\ infer'[r].stat = infer[r].stat
    BY <1>0, <1>6 DEF Use, InferRec
  <1>7. ASSUME Hit(r), infer[r].stat # 0
        PROVE  NamedSince(Entry(r).program, infer[r].stat)
    BY <1>0, <1>7 DEF Hit, Entry, FreshInv, CacheFresh
  <1>8. CASE Stat(r)
    <2>1. /\ \A s \in Reader \ {r} : infer'[s] = infer[s]
          /\ infer'[r].pc = "lookup" /\ cache' = cache
      BY <1>0, <1>8 DEF Stat, InferRec
    <2> QED BY <1>3, <1>4, <2>1
  <1>9. CASE Lookup(r)
    <2>1. infer[r].stat # 0 /\ cache' = cache
      BY <1>0, <1>9 DEF Lookup, Reads, InferPhase
    <2>2. CASE Hit(r) /\ Use(r, Entry(r))
      BY <1>3, <1>4, <1>6, <1>7, <2>1, <2>2
    <2>3. CASE infer' = [infer EXCEPT ![r].pc = "read"]
      <3>1. infer'[r].pc = "read" /\ \A s \in Reader \ {r} : infer'[s] = infer[s]
        BY <1>0, <2>3 DEF InferRec
      <3> QED BY <1>3, <1>4, <2>1, <3>1
    <2> QED BY <1>9, <2>2, <2>3 DEF Lookup
  <1>10. CASE ReadManifest(r)
    <2>1. infer[r].stat \in 1..Now /\ cache' = cache
      BY <1>0, <1>10 DEF ReadManifest, Reads, InferPhase
    <2>2. CASE EndInfer(r)
      BY <1>3, <1>4, <1>5, <2>1, <2>2
    <2>3. CASE infer' = [infer EXCEPT ![r].pc = "check", ![r].program = manifests[Now].program]
      <3>1. /\ \A s \in Reader \ {r} : infer'[s] = infer[s]
            /\ infer'[r].program = manifests[Now].program /\ infer'[r].stat = infer[r].stat
        BY <1>0, <2>3 DEF InferRec
      <3>2. NamedSince(manifests[Now].program, infer[r].stat)
        BY <1>0, <2>1 DEF NamedSince
      <3> QED BY <1>3, <1>4, <2>1, <3>1, <3>2
    <2> QED BY <1>10, <2>2, <2>3 DEF ReadManifest
  <1>11. CASE Check(r)
    <2>1. NamedSince(infer[r].program, infer[r].stat) /\ infer[r].stat # 0
      BY <1>0, <1>11 DEF Check, Reads, FreshInv, InferPhase
    <2>2. CASE Hit(r) /\ Use(r, Entry(r)) /\ cache' = cache
      BY <1>3, <1>4, <1>6, <1>7, <2>1, <2>2
    <2>3. CASE /\ Entry(r).program = infer[r].program /\ Use(r, Entry(r))
               /\ cache' = [cache EXCEPT ![InstanceOf[r]].stat = infer[r].stat]
      <3>1. CacheFresh'
        <4>1. /\ cache'[InstanceOf[r]].stat = infer[r].stat
              /\ cache'[InstanceOf[r]].program = infer[r].program
              /\ \A b \in Instance \ {InstanceOf[r]} : cache'[b] = cache[b]
          BY <1>0, <2>3 DEF Entry, EntryRec
        <4> QED BY <1>2, <2>1, <4>1 DEF FreshInv, CacheFresh
      <3> QED BY <1>3, <1>6, <2>1, <2>3, <3>1
    <2>4. CASE /\ cache' = [cache EXCEPT ![InstanceOf[r]] = NoEntry]
               /\ infer' = [infer EXCEPT ![r].pc = "load"]
      <3>1. CacheFresh'
        BY <1>0, <1>2, <2>4 DEF FreshInv, CacheFresh, NoEntry
      <3>2. /\ \A s \in Reader \ {r} : infer'[s] = infer[s]
            /\ infer'[r].program = infer[r].program /\ infer'[r].stat = infer[r].stat
        BY <1>0, <2>4 DEF InferRec
      <3> QED BY <1>3, <2>1, <3>1, <3>2
    <2> QED BY <1>11, <2>2, <2>3, <2>4 DEF Check
  <1>12. CASE Load(r)
    <2>1. NamedSince(infer[r].program, infer[r].stat) /\ cache' = cache
      BY <1>12 DEF Load, Reads, FreshInv
    <2>2. PICK v : infer' = [infer EXCEPT ![r].pc = "insert", ![r].vocabulary = v]
      BY <1>12 DEF Load
    <2>3. /\ \A s \in Reader \ {r} : infer'[s] = infer[s]
          /\ infer'[r].program = infer[r].program /\ infer'[r].stat = infer[r].stat
      BY <1>0, <2>2 DEF InferRec
    <2> QED BY <1>3, <1>4, <2>1, <2>3
  <1>13. CASE Insert(r)
    <2>1. NamedSince(infer[r].program, infer[r].stat)
      BY <1>13 DEF Insert, Reads, FreshInv
    <2>2. /\ \A s \in Reader \ {r} : infer'[s] = infer[s]
          /\ infer'[r].program = infer[r].program /\ infer'[r].stat = infer[r].stat
      BY <1>0, <1>13 DEF Insert, InferRec
    <2>3. CacheFresh'
      <3>1. /\ cache'[InstanceOf[r]].stat = infer[r].stat
            /\ cache'[InstanceOf[r]].program = infer[r].program
            /\ \A b \in Instance \ {InstanceOf[r]} : cache'[b] = cache[b]
        BY <1>0, <1>13 DEF Insert
      <3> QED BY <1>2, <2>1, <3>1 DEF FreshInv, CacheFresh
    <2> QED BY <1>3, <2>1, <2>2, <2>3
  <1>14. CASE InferFails(r) \/ Answer(r)
    BY <1>3, <1>4, <1>5, <1>14 DEF InferFails, Answer
  <1>15. CASE Constrain(r) \/ Warn(r)
    <2>1. NamedSince(infer[r].program, infer[r].stat) /\ cache' = cache
      BY <1>15 DEF Constrain, Warn, Reads, FreshInv
    <2>2. PICK pc, v : \/ infer' = [infer EXCEPT ![r].pc = pc]
                      \/ infer' = [infer EXCEPT ![r].pc = pc, ![r].vocabulary = v]
      BY <1>15 DEF Constrain, Refuse, Decode, Warn
    <2>3. /\ \A s \in Reader \ {r} : infer'[s] = infer[s]
          /\ infer'[r].program = infer[r].program /\ infer'[r].stat = infer[r].stat
      BY <1>0, <2>2 DEF InferRec
    <2> QED BY <1>3, <1>4, <2>1, <2>3
  <1> QED BY <1>8, <1>9, <1>10, <1>11, <1>12, <1>13, <1>14, <1>15 DEF InferStep

\* A step that drops cache entries and ends calls, and grows the manifests if
\* anything.
LEMMA FreshElsewhere ==
  ASSUME TypeInv, FreshInv, [Next]_vars, ~PowerLoss,
         \A b \in Instance : cache'[b] = cache[b] \/ cache'[b] = NoEntry,
         \A r \in Reader : infer'[r] = infer[r] \/ infer'[r].pc \in {"off", "idle"}
  PROVE  FreshInv'
  <1>0. /\ infer \in [Reader -> InferRec] /\ cache \in [Instance -> EntryRec] /\ Now \in Nat
    BY Parts, Lengths DEF TypeInv
  <1>1. ASSUME NEW b \in Instance, cache'[b].stat # 0
        PROVE  NamedSince(cache[b].program, cache[b].stat)'
    <2>1. cache'[b] = cache[b]
      BY <1>1 DEF NoEntry
    <2>2. NamedSince(cache[b].program, cache[b].stat) /\ cache[b].stat \in Nat
      BY <1>0, <1>1, <2>1 DEF FreshInv, CacheFresh, EntryRec
    <2>3. \A p : \A stat \in Nat :
            NamedSince(p, stat) => \E k \in stat..Now' : k > 0 /\ manifests'[k].program = p
      BY NamedStays
    <2>4. \E k \in cache[b].stat..Now' : k > 0 /\ manifests'[k].program = cache[b].program
      BY <2>2, <2>3
    <2> QED BY <2>1, <2>4 DEF NamedSince
  <1>2. ASSUME NEW r \in Reader, infer'[r].pc \in {"check", "load", "insert", "call", "warn", "decode"}
        PROVE  NamedSince(infer[r].program, infer[r].stat)'
    <2>1. infer'[r] = infer[r]
      BY <1>2
    <2>2. NamedSince(infer[r].program, infer[r].stat) /\ infer[r].stat \in Nat
      BY <1>0, <1>2, <2>1 DEF FreshInv, InferRec
    <2>3. \A p : \A stat \in Nat :
            NamedSince(p, stat) => \E k \in stat..Now' : k > 0 /\ manifests'[k].program = p
      BY NamedStays
    <2>4. \E k \in infer[r].stat..Now' : k > 0 /\ manifests'[k].program = infer[r].program
      BY <2>2, <2>3
    <2> QED BY <2>1, <2>4 DEF NamedSince
  <1> QED BY <1>1, <1>2 DEF FreshInv, CacheFresh

LEMMA FreshStep == TypeInv /\ FreshInv /\ [Next]_vars => FreshInv'
  <1> SUFFICES ASSUME TypeInv, FreshInv, [Next]_vars PROVE FreshInv'
    OBVIOUS
  <1>0. cache \in [Instance -> EntryRec]
    BY Parts DEF TypeInv
  <1>1. CASE UNCHANGED vars
    BY <1>1 DEF vars, FreshInv, CacheFresh, NamedSince, Now
  <1>2. ASSUME NEW c \in Compiler, CompileStep(c), ~PowerLoss
        PROVE  FreshInv'
    <2>1. infer' = infer
      BY <1>2 DEF CompileStep, WriteTemp, Rename, WriteFails, SyncDir, Rotate, Replace, Open,
                  AppendLine, AppendFails, Drop
    <2>2. \A b \in Instance : cache'[b] = cache[b] \/ cache'[b] = NoEntry
      BY <1>0, <1>2 DEF CompileStep, WriteTemp, Rename, WriteFails, SyncDir, Rotate, Replace, Open,
                  AppendLine, AppendFails, Drop
    <2> QED BY <1>2, <2>1, <2>2, FreshElsewhere
  <1>3. ASSUME NEW r \in Reader, InferStep(r)
        PROVE  FreshInv'
    BY <1>3, FreshInferStep
  <1>4. ASSUME NEW B \in SUBSET Instance, Dies(B)
        PROVE  /\ \A b \in Instance : cache'[b] = NoEntry \/ (cache'[b] = cache[b] /\ b \notin B)
               /\ \A r \in Reader : \/ infer'[r].pc \in {"off", "idle"}
                                    \/ infer'[r] = infer[r] /\ InstanceOf[r] \notin B
    <2>1. ASSUME NEW r \in Reader, InstanceOf[r] \in B
          PROVE  infer'[r].pc \in {"off", "idle"}
      <3>1. infer'[r] = [IdleInfer EXCEPT !.pc = Restarted(infer[r].pc)]
        BY <1>4, <2>1 DEF Dies
      <3> QED BY <3>1 DEF IdleInfer, Restarted
    <2>2. ASSUME NEW r \in Reader, InstanceOf[r] \notin B
          PROVE  infer'[r] = infer[r]
      BY <1>4, <2>2 DEF Dies
    <2>3. ASSUME NEW b \in Instance
          PROVE  cache'[b] = NoEntry \/ (cache'[b] = cache[b] /\ b \notin B)
      BY <1>4 DEF Dies
    <2> QED BY <2>1, <2>2, <2>3
  <1>5. ASSUME NEW b \in Instance, Forget(b) \/ ForgetRefusal(b) \/ Crash(b), ~PowerLoss
        PROVE  FreshInv'
    <2>1. CASE Forget(b)
      BY <1>0, <1>5, <2>1, FreshElsewhere DEF Forget
    <2>3. CASE ForgetRefusal(b)
      BY <1>5, <2>3, FreshElsewhere DEF ForgetRefusal
    <2>2. CASE Crash(b)
      <3>1. {b} \in SUBSET Instance
        OBVIOUS
      <3> QED BY <1>4, <1>5, <2>2, <3>1, FreshElsewhere DEF Crash
    <2> QED BY <1>5, <2>1, <2>2, <2>3
  <1>6. CASE PowerLoss
    <2>1. /\ \A b \in Instance : cache'[b] = NoEntry
          /\ \A r \in Reader : infer'[r].pc \in {"off", "idle"}
      BY <1>4, <1>6, FileAssumption DEF PowerLoss
    <2> QED BY <2>1 DEF FreshInv, CacheFresh, NoEntry
  <1> QED BY <1>1, <1>2, <1>3, <1>5, <1>6 DEF Next

\* Nothing is cached or read before the first step.
LEMMA FreshInit == Init => FreshInv
  BY DEF Init, FreshInv, CacheFresh, NoEntry, IdleInfer

\* A cached function is of no older a manifest than its identity says, in every
\* process (_get_function_and_vocabulary).
THEOREM CacheFreshCorrect == Spec => []CacheFresh
  BY InitTypes, NextTypes, FreshInit, FreshStep, PTL DEF Spec, FreshInv

\* infer() never answers with a program replaced before the call began
\* (_get_function_and_vocabulary).
THEOREM FreshFunctionCorrect == Spec => []FreshFunction
  <1>1. FreshInv => FreshFunction
    BY DEF FreshInv, FreshFunction, Reads
  <1> QED BY <1>1, InitTypes, NextTypes, FreshInit, FreshStep, PTL DEF Spec

-----------------------------------------------------------------------------
(* Grammars. *)

\* A function without its vocabulary, cached or in a call's hands, is one of an
\* instance that has given up on grammars.
VocabularyInv ==
  /\ \A b \in Instance : cache[b].stat # 0 /\ ~cache[b].vocabulary => ~constrains[b]
  /\ \A r \in Reader : infer[r].pc \in {"insert", "call"} /\ ~infer[r].vocabulary =>
                         ~constrains[InstanceOf[r]]

LEMMA VocabularyInferStep ==
  ASSUME TypeInv, VocabularyInv, NEW r \in Reader, InferStep(r)
  PROVE  VocabularyInv'
  <1>0. /\ infer \in [Reader -> InferRec] /\ cache \in [Instance -> EntryRec]
        /\ constrains \in [Instance -> BOOLEAN] /\ InferPhase(r)
        /\ \A s \in Reader : InstanceOf[s] \in Instance
    BY Parts, FileAssumption DEF TypeInv, Phases
  <1> DEFINE Others == \A s \in Reader \ {r} : infer'[s] = infer[s]
             Mine   == infer'[r].pc \in {"insert", "call"} /\ ~infer'[r].vocabulary =>
                         ~constrains'[InstanceOf[r]]
             Caches == \A b \in Instance : cache'[b].stat # 0 /\ ~cache'[b].vocabulary => ~constrains'[b]
  <1>1. ASSUME Others, Mine, Caches, \A b \in Instance : constrains'[b] => constrains[b]
        PROVE  VocabularyInv'
    BY <1>0, <1>1 DEF VocabularyInv
  <1>2. ASSUME cache' = cache, constrains' = constrains
        PROVE  Caches
    BY <1>2 DEF VocabularyInv
  <1>3. ASSUME EndInfer(r)
        PROVE  Others /\ Mine
    BY <1>0, <1>3 DEF EndInfer, IdleInfer
  <1>4. ASSUME Use(r, Entry(r)), infer[r].stat # 0, Entry(r).stat # 0, constrains' = constrains
        PROVE  Others /\ Mine
    <2>1. Others /\ infer'[r].vocabulary = Entry(r).vocabulary
      BY <1>0, <1>4 DEF Use, InferRec
    <2> QED BY <1>0, <1>4, <2>1 DEF Entry, VocabularyInv
  <1>5. CASE Stat(r)
    <2>1. Others /\ infer'[r].pc = "lookup" /\ cache' = cache /\ constrains' = constrains
      BY <1>0, <1>5 DEF Stat, InferRec
    <2> QED BY <1>1, <1>2, <2>1
  <1>6. CASE Lookup(r)
    <2>1. infer[r].stat # 0 /\ cache' = cache /\ constrains' = constrains
      BY <1>0, <1>6 DEF Lookup, Reads, InferPhase
    <2>2. CASE Hit(r) /\ Use(r, Entry(r))
      BY <1>1, <1>2, <1>4, <2>1, <2>2 DEF Hit
    <2>3. CASE infer' = [infer EXCEPT ![r].pc = "read"]
      <3>1. infer'[r].pc = "read" /\ Others
        BY <1>0, <2>3 DEF InferRec
      <3> QED BY <1>1, <1>2, <2>1, <3>1
    <2> QED BY <1>6, <2>2, <2>3 DEF Lookup
  <1>7. CASE ReadManifest(r)
    <2>1. cache' = cache /\ constrains' = constrains
      BY <1>7 DEF ReadManifest
    <2>2. CASE EndInfer(r)
      BY <1>1, <1>2, <1>3, <2>1, <2>2
    <2>3. CASE infer' = [infer EXCEPT ![r].pc = "check", ![r].program = manifests[Now].program]
      <3>1. infer'[r].pc = "check" /\ Others
        BY <1>0, <2>3 DEF InferRec
      <3> QED BY <1>1, <1>2, <2>1, <3>1
    <2> QED BY <1>7, <2>2, <2>3 DEF ReadManifest
  <1>8. CASE Check(r)
    <2>1. infer[r].stat # 0 /\ constrains' = constrains
      BY <1>0, <1>8 DEF Check, Reads, InferPhase
    <2>2. CASE Hit(r) /\ Use(r, Entry(r)) /\ cache' = cache
      BY <1>1, <1>2, <1>4, <2>1, <2>2 DEF Hit
    <2>3. CASE /\ Entry(r).stat # 0 /\ Use(r, Entry(r))
               /\ cache' = [cache EXCEPT ![InstanceOf[r]].stat = infer[r].stat]
      <3>1. /\ cache'[InstanceOf[r]].vocabulary = Entry(r).vocabulary
            /\ \A b \in Instance \ {InstanceOf[r]} : cache'[b] = cache[b]
        BY <1>0, <2>3 DEF Entry, EntryRec
      <3>2. Caches
        BY <1>0, <2>1, <2>3, <3>1 DEF Entry, VocabularyInv
      <3> QED BY <1>1, <1>4, <2>1, <2>3, <3>2
    <2>4. CASE /\ cache' = [cache EXCEPT ![InstanceOf[r]] = NoEntry]
               /\ infer' = [infer EXCEPT ![r].pc = "load"]
      <3>1. Caches
        BY <1>0, <2>1, <2>4 DEF VocabularyInv, NoEntry
      <3>2. infer'[r].pc = "load" /\ Others
        BY <1>0, <2>4 DEF InferRec
      <3> QED BY <1>1, <2>1, <3>1, <3>2
    <2> QED BY <1>8, <2>2, <2>3, <2>4 DEF Check
  <1>9. CASE Load(r)
    <2>1. PICK ok \in BOOLEAN :
            /\ infer' = [infer EXCEPT ![r].pc = "insert", ![r].vocabulary = ok /\ constrains[InstanceOf[r]]]
            /\ constrains' = [constrains EXCEPT ![InstanceOf[r]] = @ /\ ok]
      BY <1>9 DEF Load
    <2>2. cache' = cache
      BY <1>9 DEF Load
    <2>3. constrains'[InstanceOf[r]] = (constrains[InstanceOf[r]] /\ ok)
          /\ \A b \in Instance : constrains'[b] => constrains[b]
      BY <1>0, <2>1
    <2>4. infer'[r].vocabulary = (ok /\ constrains[InstanceOf[r]]) /\ Others
      BY <1>0, <2>1 DEF InferRec
    <2>5. Caches
      BY <2>2, <2>3 DEF VocabularyInv
    <2> QED BY <1>1, <2>3, <2>4, <2>5
  <1>10. CASE Insert(r)
    <2>1. /\ ~infer[r].vocabulary => ~constrains[InstanceOf[r]]
          /\ constrains' = constrains
      BY <1>10 DEF Insert, Reads, VocabularyInv
    <2>2. infer'[r].vocabulary = infer[r].vocabulary /\ Others
      BY <1>0, <1>10 DEF Insert, InferRec
    <2>3. /\ cache'[InstanceOf[r]].vocabulary = infer[r].vocabulary
          /\ \A b \in Instance \ {InstanceOf[r]} : cache'[b] = cache[b]
      BY <1>0, <1>10 DEF Insert
    <2>4. Caches
      BY <2>1, <2>3 DEF VocabularyInv
    <2> QED BY <1>1, <2>1, <2>2, <2>4
  <1>11. CASE InferFails(r) \/ Answer(r)
    BY <1>1, <1>2, <1>3, <1>11 DEF InferFails, Answer
  <1>12. CASE Constrain(r) \/ Warn(r)
    <2>1. cache' = cache /\ constrains' = constrains
      BY <1>12 DEF Constrain, Warn
    <2>2. infer'[r].pc \in {"warn", "decode"} /\ Others
      BY <1>0, <1>12 DEF Constrain, Refuse, Decode, Warn, InferRec
    <2> QED BY <1>1, <1>2, <2>1, <2>2
  <1> QED BY <1>5, <1>6, <1>7, <1>8, <1>9, <1>10, <1>11, <1>12 DEF InferStep

LEMMA VocabularyStep == TypeInv /\ VocabularyInv /\ [Next]_vars => VocabularyInv'
  <1> SUFFICES ASSUME TypeInv, VocabularyInv, [Next]_vars PROVE VocabularyInv'
    OBVIOUS
  <1>0. cache \in [Instance -> EntryRec] /\ NoEntry.stat = 0
    BY Parts DEF TypeInv, NoEntry
  <1>1. ASSUME \A b \in Instance : cache'[b] = cache[b] \/ cache'[b] = NoEntry,
               infer' = infer, constrains' = constrains
        PROVE  VocabularyInv'
    BY <1>0, <1>1 DEF VocabularyInv
  <1>2. CASE UNCHANGED vars
    BY <1>1, <1>2 DEF vars
  <1>3. ASSUME NEW c \in Compiler, CompileStep(c)
        PROVE  VocabularyInv'
    <2>1. infer' = infer /\ constrains' = constrains
      BY <1>3 DEF CompileStep, WriteTemp, Rename, WriteFails, SyncDir, Rotate, Replace, Open,
                  AppendLine, AppendFails, Drop
    <2>2. \A b \in Instance : cache'[b] = cache[b] \/ cache'[b] = NoEntry
      BY <1>0, <1>3 DEF CompileStep, WriteTemp, Rename, WriteFails, SyncDir, Rotate, Replace, Open,
                  AppendLine, AppendFails, Drop
    <2> QED BY <1>1, <2>1, <2>2
  <1>4. ASSUME NEW r \in Reader, InferStep(r)
        PROVE  VocabularyInv'
    BY <1>4, VocabularyInferStep
  <1>5. ASSUME NEW B \in SUBSET Instance, Dies(B)
        PROVE  VocabularyInv'
    <2>1. ASSUME NEW b \in Instance
          PROVE  cache'[b].stat = 0 \/ (cache'[b] = cache[b] /\ (constrains'[b] <=> constrains[b]))
      <3>1. CASE b \in B
        BY <1>0, <1>5, <3>1 DEF Dies
      <3>2. CASE b \notin B
        BY <1>0, <1>5, <3>2 DEF Dies
      <3> QED BY <3>1, <3>2
    <2>2. ASSUME NEW r \in Reader, InstanceOf[r] \in B
          PROVE  infer'[r].pc \in {"off", "idle"}
      <3>1. infer'[r] = [IdleInfer EXCEPT !.pc = Restarted(infer[r].pc)]
        BY <1>5, <2>2 DEF Dies
      <3> QED BY <3>1 DEF IdleInfer, Restarted
    <2>3. ASSUME NEW r \in Reader, InstanceOf[r] \notin B
          PROVE  infer'[r] = infer[r] /\ (constrains'[InstanceOf[r]] <=> constrains[InstanceOf[r]])
      <3>1. InstanceOf[r] \in Instance
        BY FileAssumption
      <3> QED BY <1>5, <2>3, <3>1 DEF Dies
    <2> QED BY <2>1, <2>2, <2>3 DEF VocabularyInv
  <1>6. ASSUME NEW b \in Instance, Forget(b) \/ ForgetRefusal(b) \/ Crash(b)
        PROVE  VocabularyInv'
    <2>1. {b} \in SUBSET Instance
      OBVIOUS
    <2>2. CASE Forget(b)
      BY <1>0, <1>1, <2>2 DEF Forget
    <2>3. CASE ForgetRefusal(b)
      BY <1>1, <2>3 DEF ForgetRefusal
    <2> QED BY <1>5, <1>6, <2>1, <2>2, <2>3 DEF Crash
  <1>7. CASE PowerLoss
    BY <1>5, <1>7 DEF PowerLoss
  <1> QED BY <1>2, <1>3, <1>4, <1>6, <1>7 DEF Next

\* Instance b has warned of the grammar, or is about to.
Telling(b) == warned[b].given \/ \E s \in Reader : InstanceOf[s] = b /\ Reads(s, "warn")

\* A refusal that is noted is told, and so is every unmasked call of an instance that
\* constrains.
RefusalInv ==
  /\ \A b \in Instance : warned[b].marked => Telling(b)
  /\ \A r \in Reader : Reads(r, "decode") /\ ~infer[r].vocabulary =>
                         ~constrains[InstanceOf[r]] \/ Telling(InstanceOf[r])

\* A step that ends no warning and takes back nothing.
LEMMA RefusalStays ==
  ASSUME RefusalInv, warned' = warned, \A b \in Instance : constrains'[b] => constrains[b],
         \A r \in Reader : InstanceOf[r] \in Instance,
         \A r \in Reader : infer'[r] = infer[r] \/ (~Reads(r, "warn") /\ ~Reads(r, "decode")')
  PROVE  RefusalInv'
  <1>1. ASSUME NEW b \in Instance, Telling(b) PROVE Telling(b)'
    BY <1>1 DEF Telling, Reads
  <1> QED BY <1>1 DEF RefusalInv, Reads

LEMMA RefusalInferStep ==
  ASSUME TypeInv, VocabularyInv, RefusalInv, NEW r \in Reader, InferStep(r)
  PROVE  RefusalInv'
  <1>0. /\ infer \in [Reader -> InferRec] /\ constrains \in [Instance -> BOOLEAN]
        /\ warned \in [Instance -> WarnedRec] /\ \A s \in Reader : InstanceOf[s] \in Instance
    BY Parts, FileAssumption DEF TypeInv
  <1> DEFINE b == InstanceOf[r]
             Others == \A s \in Reader \ {r} : infer'[s] = infer[s]
  <1>1. CASE Constrain(r)
    <2>1. Reads(r, "call") /\ constrains' = constrains
      BY <1>1 DEF Constrain
    <2>2. Others
      BY <1>0, <1>1 DEF Constrain, Refuse, Decode
    <2>3. \A d \in Instance : warned'[d].given = warned[d].given /\ (d # b => warned'[d] = warned[d])
      <3>1. warned' = warned \/ warned' = [warned EXCEPT ![b].marked = TRUE]
        BY <1>1 DEF Constrain, Refuse
      <3> QED BY <1>0, <3>1, MarkMoves
    <2>4. ASSUME NEW d \in Instance, Telling(d) PROVE Telling(d)'
      BY <2>1, <2>2, <2>3, <2>4 DEF Telling, Reads
    <2>6. CASE Refuse(r) /\ ~warned[b].marked
      <3>1. Reads(r, "warn")'
        BY <1>0, <2>6 DEF Refuse, Reads, InferRec
      <3>2. Telling(b)'
        BY <3>1 DEF Telling
      <3> QED BY <1>0, <2>1, <2>2, <2>3, <2>4, <3>1, <3>2 DEF RefusalInv, Reads
    <2>7. CASE Refuse(r) /\ warned[b].marked
      <3>1. Telling(b)'
        BY <1>0, <2>4, <2>7 DEF RefusalInv
      <3> QED BY <1>0, <2>1, <2>2, <2>3, <2>4, <3>1 DEF RefusalInv, Reads
    <2>8. CASE Decode(r, TRUE) /\ warned' = warned
      <3>1. infer'[r].vocabulary
        BY <1>0, <2>8 DEF Decode, InferRec
      <3> QED BY <1>0, <2>1, <2>2, <2>4, <2>8, <3>1 DEF RefusalInv, Reads
    <2>9. CASE /\ ~(infer[r].vocabulary /\ constrains[b])
               /\ warned' = warned
      <3>1. ~constrains[b]
        BY <1>0, <2>1, <2>9 DEF VocabularyInv, Reads
      <3> QED BY <1>0, <2>1, <2>2, <2>4, <2>9, <3>1 DEF RefusalInv, Reads
    <2> QED BY <1>1, <2>6, <2>7, <2>8, <2>9 DEF Constrain
  <1>2. CASE Warn(r)
    <2>1. Others /\ constrains' = constrains
      BY <1>0, <1>2 DEF Warn
    <2>2. warned'[b].given /\ \A d \in Instance \ {b} : warned'[d] = warned[d]
      BY <1>0, <1>2, GivenMoves DEF Warn
    <2>3. Telling(b)' /\ \A d \in Instance : Telling(d) => Telling(d)'
      BY <2>1, <2>2 DEF Telling, Reads
    <2> QED BY <1>0, <2>1, <2>2, <2>3 DEF RefusalInv, Reads
  <1>3. CASE ~Constrain(r) /\ ~Warn(r)
    <2>1. warned' = warned /\ Others
      BY <1>0, <1>3 DEF InferStep, Stat, Lookup, ReadManifest, Check, Use, Load, Insert, InferFails, Answer, EndInfer
    <2>2. ~Reads(r, "warn")
      BY <1>3 DEF InferStep, Stat, Lookup, ReadManifest, Check, Load, Insert, InferFails, Answer, Reads
    <2>3. ~Reads(r, "decode")'
      BY <1>0, <1>3 DEF InferStep, Stat, Lookup, ReadManifest, Check, Use, Load, Insert, InferFails, Answer,
                        EndInfer, IdleInfer, Reads, InferRec
    <2>4. \A d \in Instance : constrains'[d] => constrains[d]
      BY <1>0, <1>3 DEF InferStep, Stat, Lookup, ReadManifest, Check, Load, Insert, InferFails, Answer
    <2>5. \A s \in Reader : infer'[s] = infer[s] \/ (~Reads(s, "warn") /\ ~Reads(s, "decode")')
      BY <2>1, <2>2, <2>3
    <2> QED BY <1>0, <2>1, <2>4, <2>5, RefusalStays
  <1> QED BY <1>1, <1>2, <1>3

LEMMA RefusalStep == TypeInv /\ VocabularyInv /\ RefusalInv /\ [Next]_vars => RefusalInv'
  <1> SUFFICES ASSUME TypeInv, VocabularyInv, RefusalInv, [Next]_vars PROVE RefusalInv'
    OBVIOUS
  <1>0. /\ warned \in [Instance -> WarnedRec] /\ \A s \in Reader : InstanceOf[s] \in Instance
    BY Parts, FileAssumption DEF TypeInv
  <1>1. ASSUME infer' = infer, constrains' = constrains, warned' = warned
        PROVE  RefusalInv'
    <2>1. \A r \in Reader : infer'[r] = infer[r] \/ (~Reads(r, "warn") /\ ~Reads(r, "decode")')
      BY <1>1
    <2> QED BY <1>0, <1>1, <2>1, RefusalStays
  <1>2. CASE UNCHANGED vars
    BY <1>1, <1>2 DEF vars
  <1>3. ASSUME NEW c \in Compiler, CompileStep(c)
        PROVE  RefusalInv'
    BY <1>1, <1>3 DEF CompileStep, WriteTemp, Rename, WriteFails, SyncDir, Rotate, Replace, Open,
                      AppendLine, AppendFails, Drop
  <1>4. ASSUME NEW r \in Reader, InferStep(r)
        PROVE  RefusalInv'
    BY <1>4, RefusalInferStep
  <1>5. ASSUME NEW B \in SUBSET Instance, Dies(B)
        PROVE  RefusalInv'
    <2>1. ASSUME NEW r \in Reader, InstanceOf[r] \in B
          PROVE  ~Reads(r, "decode")'
      <3>1. infer'[r] = [IdleInfer EXCEPT !.pc = Restarted(infer[r].pc)]
        BY <1>5, <2>1 DEF Dies
      <3> QED BY <3>1 DEF IdleInfer, Restarted, Reads
    <2>2. ASSUME NEW r \in Reader, InstanceOf[r] \notin B
          PROVE  infer'[r] = infer[r]
      BY <1>5, <2>2 DEF Dies
    <2>3. ASSUME NEW b \in Instance
          PROVE  IF b \in B THEN ~warned'[b].marked
                 ELSE warned'[b] = warned[b] /\ (constrains'[b] <=> constrains[b])
      <3>1. CASE b \in B
        BY <1>5, <3>1 DEF Dies, Unwarned
      <3>2. CASE b \notin B
        BY <1>5, <3>2 DEF Dies
      <3> QED BY <3>1, <3>2
    <2>4. ASSUME NEW b \in Instance \ B, Telling(b)
          PROVE  Telling(b)'
      BY <2>2, <2>3, <2>4 DEF Telling, Reads
    <2> QED BY <1>0, <2>1, <2>2, <2>3, <2>4 DEF RefusalInv, Reads
  <1>6. ASSUME NEW b \in Instance, ForgetRefusal(b)
        PROVE  RefusalInv'
    <2>1. /\ infer' = infer /\ constrains' = constrains
          /\ \A d \in Instance : /\ warned'[d].given = warned[d].given
                                /\ (warned'[d] = warned[d] \/ warned'[d].marked = FALSE)
      <3>1. warned' = [warned EXCEPT ![b].marked = FALSE]
        BY <1>6 DEF ForgetRefusal
      <3> QED BY <1>0, <1>6, <3>1, MarkMoves DEF ForgetRefusal
    <2>2. ASSUME NEW d \in Instance, Telling(d) PROVE Telling(d)'
      <3>1. CASE warned[d].given
        <4>1. warned'[d].given
          BY <2>1, <3>1, Zenon
        <4> QED BY <4>1 DEF Telling
      <3>2. CASE \E s \in Reader : InstanceOf[s] = d /\ Reads(s, "warn")
        BY <2>1, <3>2 DEF Telling, Reads
      <3> QED BY <2>2, <3>1, <3>2 DEF Telling
    <2>3. ASSUME NEW d \in Instance, warned'[d].marked PROVE Telling(d)'
      BY <2>1, <2>2, <2>3 DEF RefusalInv
    <2>4. ASSUME NEW r \in Reader, Reads(r, "decode")', ~infer'[r].vocabulary, constrains'[InstanceOf[r]]
          PROVE  Telling(InstanceOf[r])'
      BY <1>0, <2>1, <2>2, <2>4 DEF RefusalInv, Reads
    <2> QED BY <2>3, <2>4 DEF RefusalInv
  <1>7. ASSUME NEW b \in Instance, Forget(b) \/ Crash(b)
        PROVE  RefusalInv'
    <2>1. {b} \in SUBSET Instance
      OBVIOUS
    <2>2. CASE Forget(b)
      BY <1>1, <2>2 DEF Forget
    <2> QED BY <1>5, <1>7, <2>1, <2>2 DEF Crash
  <1>8. CASE PowerLoss
    BY <1>5, <1>8 DEF PowerLoss
  <1> QED BY <1>2, <1>3, <1>4, <1>6, <1>7, <1>8 DEF Next

\* A call decodes without its grammar only in an instance that has given up on grammars, or
\* that has warned of this one, or has a thread at its warning, for any number of threads
\* that meet the refusal at once and however often it is forgotten (infer,
\* _warn_constraint_unavailable_once).
THEOREM UnconstrainedCorrect == Spec => []UnconstrainedIsKnown
  <1>1. Init => VocabularyInv /\ RefusalInv
    <2>1. ASSUME Init PROVE VocabularyInv
      BY <2>1 DEF Init, VocabularyInv, NoEntry, IdleInfer
    <2>2. ASSUME Init PROVE RefusalInv
      <3>1. \A b \in Instance : ~warned[b].marked
        BY <2>2 DEF Init, Unwarned
      <3>2. \A r \in Reader : ~Reads(r, "decode")
        BY <2>2 DEF Init, IdleInfer, Reads
      <3> QED BY <3>1, <3>2 DEF RefusalInv
    <2> QED BY <2>1, <2>2
  <1>2. RefusalInv => UnconstrainedIsKnown
    <2> SUFFICES ASSUME RefusalInv, NEW r \in Reader, Reads(r, "decode"), ~infer[r].vocabulary,
                        constrains[InstanceOf[r]], ~warned[InstanceOf[r]].given
                 PROVE  \E s \in Reader \ {r} : InstanceOf[s] = InstanceOf[r] /\ Reads(s, "warn")
      BY DEF UnconstrainedIsKnown
    <2>1. PICK s \in Reader : InstanceOf[s] = InstanceOf[r] /\ Reads(s, "warn")
      BY DEF RefusalInv, Telling
    <2>2. s # r
      BY <2>1 DEF Reads
    <2> QED BY <2>1, <2>2
  <1> QED BY <1>1, <1>2, InitTypes, NextTypes, VocabularyStep, RefusalStep, PTL DEF Spec

-----------------------------------------------------------------------------
(* The size of the sidecar. *)

\* The calls that have opened file f, or are about to while its name is on it.
Pending(f) == {c \in Compiler : \/ At(c, "append") /\ compile[c].fd = f
                                \/ At(c, "open") /\ live = f}

\* A file has room for the lines that are on their way to it.
SidecarInv ==
  \A f \in 1..Len(inodes) :
    /\ IsFiniteSet(inodes[f])
    /\ Cardinality(inodes[f]) + Cardinality(Pending(f)) < HistoryMax + Cardinality(Compiler)

LEMMA PendingFinite ==
  /\ Cardinality(Compiler) \in Nat
  /\ \A f : IsFiniteSet(Pending(f)) /\ Cardinality(Pending(f)) \in 0..Cardinality(Compiler)
  <1>1. Cardinality(Compiler) \in Nat
    BY FS_CardinalityType, FileAssumption
  <1>2. ASSUME NEW f
        PROVE  IsFiniteSet(Pending(f)) /\ Cardinality(Pending(f)) \in 0..Cardinality(Compiler)
    <2>1. Pending(f) \subseteq Compiler
      BY DEF Pending
    <2>2. IsFiniteSet(Pending(f)) /\ Cardinality(Pending(f)) <= Cardinality(Compiler)
      BY <2>1, FS_Subset, FileAssumption
    <2> QED BY <1>1, <2>2, FS_CardinalityType
  <1> QED BY <1>1, <1>2

\* A step that writes nothing and sends no more lines to any file.
LEMMA FewerPending ==
  ASSUME TypeInv, SidecarInv, inodes' = inodes,
         \A f \in 1..Len(inodes) : Pending(f)' \subseteq Pending(f)
  PROVE  SidecarInv'
  <1> SUFFICES ASSUME NEW f \in 1..Len(inodes)
               PROVE  Cardinality(inodes[f]) + Cardinality(Pending(f)') < HistoryMax + Cardinality(Compiler)
    BY DEF SidecarInv
  <1>1. IsFiniteSet(Pending(f)) /\ Cardinality(Pending(f)) \in Nat /\ Cardinality(Compiler) \in Nat
    BY PendingFinite
  <1>2. Cardinality(Pending(f)') <= Cardinality(Pending(f)) /\ IsFiniteSet(Pending(f)')
    BY <1>1, FS_Subset
  <1>3. Cardinality(Pending(f)') \in Nat
    BY <1>2, FS_CardinalityType
  <1>4. IsFiniteSet(inodes[f]) /\ Cardinality(inodes[f]) \in Nat
    BY FS_CardinalityType DEF SidecarInv
  <1> QED BY <1>1, <1>2, <1>3, <1>4, FileAssumption DEF SidecarInv

\* So is one that only ends calls or moves them away from the sidecar.
LEMMA FewerPendingMoves ==
  ASSUME TypeInv, SidecarInv, inodes' = inodes, live' = live,
         \A c \in Compiler : compile'[c] = compile[c] \/ compile'[c].pc \notin {"open", "append"}
  PROVE  SidecarInv'
  <1>1. \A f \in 1..Len(inodes) : Pending(f)' \subseteq Pending(f)
    BY DEF Pending, At
  <1> QED BY <1>1, FewerPending

LEMMA SidecarRotate ==
  ASSUME TypeInv, SidecarInv, NEW c \in Compiler, Rotate(c)
  PROVE  SidecarInv'
  <1>0. /\ compile \in [Compiler -> CompileRec] /\ live \in 0..Len(inodes) /\ Len(inodes) \in Nat
        /\ inodes' = inodes /\ live' = live /\ At(c, "rotate")
    BY Parts, Lengths DEF TypeInv, Rotate, disk
  <1>1. CASE live # 0 /\ Full(inodes[live])
    <2>1. compile'[c].pc = "replace" /\ \A d \in Compiler \ {c} : compile'[d] = compile[d]
      BY <1>0, <1>1 DEF Rotate, Goto, CompileRec
    <2> QED BY <1>0, <2>1, FewerPendingMoves
  <1>2. CASE ~(live # 0 /\ Full(inodes[live]))
    <2>1. compile'[c].pc = "open" /\ \A d \in Compiler \ {c} : compile'[d] = compile[d]
      BY <1>0, <1>2 DEF Rotate, Goto, CompileRec
    <2> SUFFICES ASSUME NEW f \in 1..Len(inodes)
                 PROVE  Cardinality(inodes[f]) + Cardinality(Pending(f)') < HistoryMax + Cardinality(Compiler)
      BY <1>0 DEF SidecarInv
    <2>2. IsFiniteSet(inodes[f]) /\ Cardinality(inodes[f]) \in Nat
      BY FS_CardinalityType DEF SidecarInv
    <2>3. CASE f = live
      <3>1. Cardinality(inodes[f]) < HistoryMax
        BY <1>2, <2>2, <2>3, FileAssumption DEF Full
      <3>2. Pending(f)' \subseteq Compiler
        BY DEF Pending
      <3>3. Cardinality(Pending(f)') <= Cardinality(Compiler) /\ Cardinality(Pending(f)') \in Nat
        BY <3>2, FS_Subset, FS_CardinalityType, FileAssumption
      <3> QED BY <2>2, <3>1, <3>3, PendingFinite, FileAssumption
    <2>4. CASE f # live
      <3>1. Pending(f)' = Pending(f)
        BY <1>0, <2>1, <2>4 DEF Pending, At
      <3> QED BY <3>1 DEF SidecarInv
    <2> QED BY <2>3, <2>4
  <1> QED BY <1>1, <1>2

LEMMA SidecarReplace ==
  ASSUME TypeInv, SidecarInv, reliable, NEW c \in Compiler, Replace(c)
  PROVE  SidecarInv'
  <1>0. /\ compile \in [Compiler -> CompileRec] /\ inodes' = inodes /\ live' = 0 /\ At(c, "replace")
    BY Parts DEF TypeInv, Replace
  <1>1. compile'[c].pc = "open" /\ \A d \in Compiler \ {c} : compile'[d] = compile[d]
    BY <1>0 DEF Replace, Goto, CompileRec
  <1>2. \A f \in 1..Len(inodes) : Pending(f)' \subseteq Pending(f)
    BY <1>0, <1>1 DEF Pending, At
  <1> QED BY <1>0, <1>2, FewerPending

LEMMA SidecarOpen ==
  ASSUME TypeInv, SidecarInv, NEW c \in Compiler, Open(c)
  PROVE  SidecarInv'
  <1>0. /\ compile \in [Compiler -> CompileRec] /\ live \in 0..Len(inodes) /\ Len(inodes) \in Nat
        /\ inodes \in Seq(SUBSET (Nat \ {0})) /\ At(c, "open")
        /\ \A d \in Compiler : At(d, "append") => compile[d].fd \in 1..Len(inodes)
    BY Parts, Lengths DEF TypeInv, Phases, CompilePhase, Open
  <1>1. /\ compile'[c].pc = "append" /\ compile'[c].fd = live'
        /\ \A d \in Compiler \ {c} : compile'[d] = compile[d]
    BY <1>0 DEF Open, CompileRec
  <1>2. CASE live # 0
    <2>1. inodes' = inodes /\ live' = live
      BY <1>2 DEF Open
    <2>2. \A f \in 1..Len(inodes) : Pending(f)' \subseteq Pending(f)
      BY <1>0, <1>1, <2>1 DEF Pending, At
    <2> QED BY <2>1, <2>2, FewerPending
  <1>3. CASE live = 0
    <2>1. inodes' = Append(inodes, {}) /\ live' = Len(inodes) + 1
      BY <1>3 DEF Open
    <2>2. /\ Len(inodes') = Len(inodes) + 1 /\ inodes'[Len(inodes) + 1] = {}
          /\ \A f \in 1..Len(inodes) : inodes'[f] = inodes[f]
      BY <1>0, <2>1, AppendProperties
    <2>3. ASSUME NEW f \in 1..Len(inodes)
          PROVE  Pending(f)' \subseteq Pending(f)
      BY <1>0, <1>1, <2>1 DEF Pending, At
    <2>4. ASSUME NEW f \in 1..Len(inodes)
          PROVE  /\ IsFiniteSet(inodes'[f])
                 /\ Cardinality(inodes'[f]) + Cardinality(Pending(f)') < HistoryMax + Cardinality(Compiler)
      <3>1. IsFiniteSet(Pending(f)) /\ Cardinality(Pending(f)) \in Nat /\ Cardinality(Compiler) \in Nat
        BY PendingFinite
      <3>2. Cardinality(Pending(f)') <= Cardinality(Pending(f)) /\ Cardinality(Pending(f)') \in Nat
        BY <2>3, <3>1, FS_Subset, FS_CardinalityType
      <3>3. IsFiniteSet(inodes[f]) /\ Cardinality(inodes[f]) \in Nat /\ inodes'[f] = inodes[f]
        BY <2>2, FS_CardinalityType DEF SidecarInv
      <3> QED BY <3>1, <3>2, <3>3, FileAssumption DEF SidecarInv
    <2>5. ASSUME NEW f, f = Len(inodes) + 1
          PROVE  /\ IsFiniteSet(inodes'[f])
                 /\ Cardinality(inodes'[f]) + Cardinality(Pending(f)') < HistoryMax + Cardinality(Compiler)
      <3>1. inodes'[f] = {} /\ IsFiniteSet(inodes'[f]) /\ Cardinality(inodes'[f]) = 0
        BY <2>2, <2>5, FS_EmptySet
      <3>2. Pending(f)' \subseteq Compiler
        BY DEF Pending
      <3>3. Cardinality(Pending(f)') <= Cardinality(Compiler) /\ Cardinality(Pending(f)') \in Nat
        BY <3>2, FS_Subset, FS_CardinalityType, FileAssumption
      <3> QED BY <3>1, <3>3, PendingFinite, FileAssumption
    <2>6. ASSUME NEW f \in 1..Len(inodes')
          PROVE  /\ IsFiniteSet(inodes'[f])
                 /\ Cardinality(inodes'[f]) + Cardinality(Pending(f)') < HistoryMax + Cardinality(Compiler)
      <3>1. f \in 1..Len(inodes) \/ f = Len(inodes) + 1
        BY <1>0, <2>2
      <3> QED BY <3>1, <2>4, <2>5
    <2> QED BY <2>6 DEF SidecarInv
  <1> QED BY <1>2, <1>3

LEMMA SidecarAppend ==
  ASSUME TypeInv, SidecarInv, NEW c \in Compiler, AppendLine(c)
  PROVE  SidecarInv'
  <1> DEFINE g == compile[c].fd
             x == compile[c].mine
  <1>0. /\ compile \in [Compiler -> CompileRec] /\ Len(inodes) \in Nat /\ live' = live
        /\ inodes \in Seq(SUBSET (Nat \ {0})) /\ At(c, "append") /\ g \in 1..Len(inodes)
    BY Parts, Lengths DEF TypeInv, Phases, CompilePhase, AppendLine
  <1>1. /\ compile'[c].pc \notin {"open", "append"}
        /\ \A d \in Compiler \ {c} : compile'[d] = compile[d]
    BY <1>0 DEF AppendLine, Goto, EndCompile, IdleCompile, CompileRec
  <1>2. /\ DOMAIN inodes = 1..Len(inodes) /\ inodes' = [inodes EXCEPT ![g] = inodes[g] \union {x}]
        /\ Len(inodes') = Len(inodes)
    <2>1. inodes' = [inodes EXCEPT ![g] = inodes[g] \union {x}] /\ DOMAIN inodes = 1..Len(inodes)
      BY <1>0, LenProperties DEF AppendLine
    <2>2. inodes[g] \union {x} \in SUBSET (Nat \ {0})
      <3>1. x \in Nat \ {0}
        BY <1>0, Lengths DEF TypeInv, Phases, CompilePhase, At
      <3> QED BY <1>0, <3>1, ElementOfSeq
    <2> QED BY <1>0, <2>1, <2>2, ExceptSeq
  <1>3. \A f \in 1..Len(inodes) : Pending(f)' \subseteq Pending(f)
    BY <1>0, <1>1 DEF Pending, At
  <1>4. ASSUME NEW f \in 1..Len(inodes), f # g
        PROVE  /\ IsFiniteSet(inodes'[f])
               /\ Cardinality(inodes'[f]) + Cardinality(Pending(f)') < HistoryMax + Cardinality(Compiler)
    <2>1. IsFiniteSet(Pending(f)) /\ Cardinality(Pending(f)) \in Nat /\ Cardinality(Compiler) \in Nat
      BY PendingFinite
    <2>2. Cardinality(Pending(f)') <= Cardinality(Pending(f)) /\ Cardinality(Pending(f)') \in Nat
      BY <1>3, <2>1, FS_Subset, FS_CardinalityType
    <2>3. IsFiniteSet(inodes[f]) /\ Cardinality(inodes[f]) \in Nat /\ inodes'[f] = inodes[f]
      BY <1>2, <1>4, FS_CardinalityType DEF SidecarInv
    <2> QED BY <2>1, <2>2, <2>3, FileAssumption DEF SidecarInv
  <1>5. ASSUME NEW f \in 1..Len(inodes), f = g
        PROVE  /\ IsFiniteSet(inodes'[f])
               /\ Cardinality(inodes'[f]) + Cardinality(Pending(f)') < HistoryMax + Cardinality(Compiler)
    <2>1. /\ IsFiniteSet(Pending(f)) /\ Cardinality(Pending(f)) \in Nat /\ Cardinality(Compiler) \in Nat
          /\ c \in Pending(f)
      <3>1. c \in Pending(f)
        BY <1>0, <1>5 DEF Pending
      <3> QED BY <3>1, PendingFinite
    <2>2. Pending(f)' \subseteq Pending(f) \ {c}
      BY <1>0, <1>1, <1>3 DEF Pending, At
    <2>3. IsFiniteSet(Pending(f) \ {c}) /\ Cardinality(Pending(f) \ {c}) = Cardinality(Pending(f)) - 1
      BY <2>1, FS_RemoveElement
    <2>4. Cardinality(Pending(f)') <= Cardinality(Pending(f)) - 1 /\ Cardinality(Pending(f)') \in Nat
      BY <2>2, <2>3, FS_Subset, FS_CardinalityType
    <2>5. IsFiniteSet(inodes[f]) /\ Cardinality(inodes[f]) \in Nat
      BY <1>0, FS_CardinalityType DEF SidecarInv
    <2>6. inodes'[f] = inodes[f] \union {x}
      BY <1>0, <1>2, <1>5
    <2>7. IsFiniteSet(inodes'[f]) /\ Cardinality(inodes'[f]) \in {Cardinality(inodes[f]), Cardinality(inodes[f]) + 1}
      <3>1. /\ IsFiniteSet(inodes[f] \union {x})
            /\ Cardinality(inodes[f] \union {x}) =
                 IF x \in inodes[f] THEN Cardinality(inodes[f]) ELSE Cardinality(inodes[f]) + 1
        BY <2>5, FS_AddElement
      <3> QED BY <2>6, <3>1
    <2>8. Cardinality(inodes[f]) + Cardinality(Pending(f)) < HistoryMax + Cardinality(Compiler)
      BY <1>0 DEF SidecarInv
    <2> QED BY <2>1, <2>4, <2>5, <2>7, <2>8, FileAssumption
  <1> QED BY <1>2, <1>4, <1>5 DEF SidecarInv

LEMMA SidecarStep == TypeInv /\ (reliable => SidecarInv) /\ [Next]_vars => (reliable => SidecarInv)'
  <1> SUFFICES ASSUME TypeInv, reliable, SidecarInv, [Next]_vars PROVE SidecarInv'
    BY WorldStays
  <1>0. compile \in [Compiler -> CompileRec]
    BY Parts DEF TypeInv
  <1>1. CASE UNCHANGED vars
    BY <1>1, FewerPendingMoves DEF vars
  <1>2. ASSUME NEW c \in Compiler, CompileStep(c)
        PROVE  SidecarInv'
    <2>1. CASE Rotate(c)
      BY <2>1, SidecarRotate
    <2>2. CASE Replace(c)
      BY <2>2, SidecarReplace
    <2>3. CASE Open(c)
      BY <2>3, SidecarOpen
    <2>4. CASE AppendLine(c)
      BY <2>4, SidecarAppend
    <2>5. CASE WriteTemp(c) \/ Rename(c) \/ SyncDir(c)
      <3>1. inodes' = inodes /\ live' = live
        BY <2>5 DEF WriteTemp, Rename, SyncDir, disk
      <3>2. compile'[c].pc \notin {"open", "append"} /\ \A d \in Compiler \ {c} : compile'[d] = compile[d]
        <4>1. CASE WriteTemp(c)
          BY <1>0, <4>1 DEF WriteTemp, CompileRec
        <4>2. CASE Rename(c)
          BY <1>0, <4>2 DEF Rename, CompileRec
        <4>3. CASE SyncDir(c)
          BY <1>0, <4>3 DEF SyncDir, Goto, CompileRec
        <4> QED BY <2>5, <4>1, <4>2, <4>3
      <3> QED BY <3>1, <3>2, FewerPendingMoves
    <2>6. CASE WriteFails(c) \/ AppendFails(c) \/ Drop(c)
      <3>1. inodes' = inodes /\ live' = live
        BY <2>6 DEF WriteFails, AppendFails, Drop, disk
      <3>2. compile'[c].pc \notin {"open", "append"} /\ \A d \in Compiler \ {c} : compile'[d] = compile[d]
        BY <1>0, <2>6 DEF WriteFails, AppendFails, Drop, EndCompile, IdleCompile
      <3> QED BY <3>1, <3>2, FewerPendingMoves
    <2> QED BY <1>2, <2>1, <2>2, <2>3, <2>4, <2>5, <2>6 DEF CompileStep
  <1>3. ASSUME NEW r \in Reader, InferStep(r)
        PROVE  SidecarInv'
    <2>1. compile' = compile /\ inodes' = inodes /\ live' = live
      BY <1>3 DEF InferStep, Stat, Lookup, ReadManifest, Check, Load, Insert, InferFails, Constrain, Warn, Answer, disk
    <2> QED BY <2>1, FewerPendingMoves
  <1>4. ASSUME NEW B \in SUBSET Instance, Dies(B), inodes' = inodes, live' = live
        PROVE  SidecarInv'
    <2>1. ASSUME NEW c \in Compiler
          PROVE  compile'[c] = compile[c] \/ compile'[c].pc \notin {"open", "append"}
      <3>1. CASE InstanceOf[c] \in B
        BY <1>4, <3>1 DEF Dies, IdleCompile, Restarted
      <3>2. CASE InstanceOf[c] \notin B
        BY <1>4, <3>2 DEF Dies
      <3> QED BY <3>1, <3>2
    <2> QED BY <1>4, <2>1, FewerPendingMoves
  <1>5. ASSUME NEW b \in Instance, Forget(b) \/ ForgetRefusal(b) \/ Crash(b)
        PROVE  SidecarInv'
    <2>1. CASE Forget(b)
      BY <2>1, FewerPendingMoves DEF Forget, disk
    <2>3. CASE ForgetRefusal(b)
      BY <2>3, FewerPendingMoves DEF ForgetRefusal, disk
    <2>2. CASE Crash(b)
      <3>1. {b} \in SUBSET Instance
        OBVIOUS
      <3> QED BY <1>4, <2>2, <3>1 DEF Crash, disk
    <2> QED BY <1>5, <2>1, <2>2, <2>3
  <1>6. CASE PowerLoss
    BY <1>4, <1>6 DEF PowerLoss
  <1> QED BY <1>1, <1>2, <1>3, <1>5, <1>6 DEF Next

\* A sidecar file passes its cap by one line at most for each compile() but one,
\* for any cap and any number of compiles (_rotate_history_if_full).
THEOREM SidecarBoundedCorrect == Spec => []SidecarBounded
  <1>1. Init => SidecarInv
    BY EmptySeq DEF Init, SidecarInv
  <1>2. TypeInv /\ (reliable => SidecarInv) => SidecarBounded
    <2> SUFFICES ASSUME TypeInv, SidecarInv, NEW f \in DOMAIN inodes
                 PROVE  Cardinality(inodes[f]) < HistoryMax + Cardinality(Compiler)
      BY DEF SidecarBounded
    <2>1. f \in 1..Len(inodes)
      BY LenProperties, Parts DEF TypeInv
    <2>2. /\ Cardinality(inodes[f]) \in Nat
          /\ Cardinality(inodes[f]) + Cardinality(Pending(f)) < HistoryMax + Cardinality(Compiler)
      BY <2>1, FS_CardinalityType DEF SidecarInv
    <2> QED BY <2>2, PendingFinite, FileAssumption
  <1> QED BY <1>1, <1>2, InitTypes, NextTypes, SidecarStep, PTL DEF Spec
=============================================================================
