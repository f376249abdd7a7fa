----------------------------- MODULE DeskWorks -----------------------------
(***************************************************************************)
(* The parts a browser or a desktop is served by, side by side: the tape   *)
(* (data/tape.py), the browser's console (web/server.py), the desktop's    *)
(* (gui/app.py) and the pairing with Chrome that both begin                *)
(* (brokers/quotex/pairing.py).  They share no variable, so the            *)
(* conjunction of their specifications is their composition.               *)
(***************************************************************************)
EXTENDS TapeRecorder, WebDesk, Desktop, BrowserSession

DeskSpec == TapeSpec /\ WebSpec /\ DesktopSpec /\ BrowserSpec

\* A day's tape keeps its size, the browser's streams and commands their
\* order, the desktop its wires, and a pairing its session, each whatever the
\* others do.
DeskKeeps == DayTapesBounded /\ ConsoleServes /\ DesktopServes /\ PairingServes

===========================================================================
