------------------------- MODULE MCEngineLifecycle -------------------------
(* Small instances of EngineLifecycle; the threads are in the .cfg files. *)
EXTENDS EngineLifecycle

CONSTANTS c1, c2

\* An operator who gives every command, and a second one who arms.
MCCommands ==
  [c \in {c1, c2} |->
     IF c = c1 THEN {"arm", "disarm", "kill", "clear", "lockdown", "trade", "close"}
     ELSE {"arm"}]
===========================================================================
