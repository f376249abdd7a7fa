---------------------------- MODULE MCTerminal ----------------------------
(* Small instances of Terminal; the attempts are in the .cfg files. *)
EXTENDS Terminal
===========================================================================
