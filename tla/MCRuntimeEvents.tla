-------------------------- MODULE MCRuntimeEvents --------------------------
(* A small instance of the runtime events for TLC. *)
EXTENDS RuntimeEvents, TLC

CONSTANTS c1, c2, h1, h2, t1, t2

\* A publisher in one process and a recovery in the other.
MCHostOf == [c \in Calls |-> IF c = c1 THEN h1 ELSE h2]

\* A prompt that starts its tools, checkpoints its budget and fails.
MCPublished ==
    {[type |-> "tool.started", tool |-> t] : t \in Tools} \cup
    {[type |-> type, tool |-> NoTool] : type \in {"command.budget_checkpoint", "prompt.failed"}}

\* Nothing tells the tools of a prompt apart.
MCSymmetry == Permutations(Tools)
============================================================================
