-------------------------- MODULE MCCompileService --------------------------
(* CompileService on one finetune and one synchronous call. *)
EXTENDS CompileService

CONSTANTS fine, fast
=============================================================================
