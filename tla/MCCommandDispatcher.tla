-------------------------- MODULE MCCommandDispatcher --------------------------
(* Small instances of CommandDispatcher for TLC. *)
EXTENDS CommandDispatcher

SmallOutputs == [{"stdout", "stderr"} -> 0..2]

\* Every combination, the incomplete ones included.
AnyRuntime == [ssh : BOOLEAN, platform : BOOLEAN, renderer : BOOLEAN]

\* make_default_exec_runtime
DefaultRuntime == [ssh : {TRUE}, platform : {TRUE}, renderer : {TRUE}]
=============================================================================
