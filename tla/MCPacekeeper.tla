---------------------------- MODULE MCPacekeeper ----------------------------
(* Two threads, two classes, a window of three units.                      *)
EXTENDS Pacekeeper, TLC

\* No state or property tells one thread from another.
Threads == Permutations(Senders)

Gaps == [k \in Kinds |-> 1]
=============================================================================
