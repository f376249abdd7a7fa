--------------------------- MODULE TapeRecorder ---------------------------
(***************************************************************************)
(* TapeRecorder (data/tape.py): a subscriber of the bus that appends every *)
(* event as a line to data/tapes/DAY.PART.jsonl, and opens the next part   *)
(* of the day when the open one is full.  All of write runs under one      *)
(* lock, so a write is one step; a file is <<day, part>> and its content   *)
(* is its size.  A delivery that was under way when the recorder detached  *)
(* (EventBus) still writes, and opens a file again.                        *)
(***************************************************************************)
EXTENDS Integers

CONSTANTS
  MaxFileBytes, \* MAX_FILE_BYTES
  MaxFiles,     \* MAX_FILES_PER_DAY
  MaxLine,      \* bytes of the longest line (65000 and the newline)
  LastDay,      \* bound on the days
  MaxEvents     \* bound on the events of one process

VARIABLES
  today,
  tape,         \* _fh: the open file, or NoTape
  size,         \* bytes of every file
  subscribed,   \* _subscribed
  inflight,     \* history: a delivery may still hold the handler
  written, lost, offered, \* _written, _dropped and the events offered
  overnight     \* history: the files written after their day

tapeVars == <<today, tape, size, subscribed, inflight, written, lost, offered,
              overnight>>

Days  == 0..LastDay
Parts == 0..(MaxFiles - 1)
Files == Days \X Parts
NoTape == <<>>

\* Seeded fault: the part after the first full one is taken unseen.
RoomBlind(day) == Parts

\* The parts of a day that are not full, the absent ones among them.
Room(day) == {part \in Parts : size[<<day, part>>] < MaxFileBytes}

FirstRoom(day) == CHOOSE part \in Room(day) : \A other \in Room(day) : part <= other

\* Only a file of today is closed when it is full.
Full == tape # NoTape /\ tape[1] = today /\ size[tape] >= MaxFileBytes

\* _ensure_file: the file to write to, NoTape when the day's quota is used up.
\* An open file of an earlier day is kept as it is.
EnsureFile ==
  IF tape # NoTape /\ ~Full THEN tape
  ELSE IF Room(today) = {} THEN NoTape
  ELSE <<today, FirstRoom(today)>>

\* write; a disk that fails (the directory, the open, the write) loses the line.
Write(bytes) ==
  /\ (subscribed \/ inflight) /\ offered < MaxEvents
  /\ offered' = offered + 1
  /\ LET file == EnsureFile
     IN \/ /\ file # NoTape
           /\ tape' = file
           /\ size' = [size EXCEPT ![file] = @ + bytes]
           /\ overnight' = IF file[1] = today THEN overnight ELSE overnight \cup {file}
           /\ written' = written + 1 /\ UNCHANGED lost
        \/ /\ tape' \in {file, IF Full THEN NoTape ELSE tape}
           /\ lost' = lost + 1
           /\ UNCHANGED <<size, overnight, written>>
  /\ UNCHANGED <<today, subscribed, inflight>>

AttachTape ==
  /\ ~subscribed /\ subscribed' = TRUE
  /\ UNCHANGED <<today, tape, size, inflight, written, lost, offered, overnight>>

\* Unsubscribed and closed, whatever is still being delivered.
DetachTape ==
  /\ subscribed /\ subscribed' = FALSE
  /\ tape' = NoTape /\ inflight' \in BOOLEAN
  /\ UNCHANGED <<today, size, written, lost, offered, overnight>>

Delivered ==
  /\ inflight /\ inflight' = FALSE
  /\ UNCHANGED <<today, tape, size, subscribed, written, lost, offered, overnight>>

Midnight ==
  /\ today < LastDay /\ today' = today + 1
  /\ UNCHANGED <<tape, size, subscribed, inflight, written, lost, offered, overnight>>

\* The process ends, in whatever way; the files stay.
ProcessEnds ==
  /\ tape' = NoTape /\ subscribed' = FALSE /\ inflight' = FALSE
  /\ written' = 0 /\ lost' = 0 /\ offered' = 0
  /\ UNCHANGED <<today, size, overnight>>

TapeInit ==
  /\ today = 0 /\ tape = NoTape
  /\ size = [file \in Files |-> 0]
  /\ subscribed = FALSE /\ inflight = FALSE
  /\ written = 0 /\ lost = 0 /\ offered = 0
  /\ overnight = {}

TapeNext ==
  \/ \E bytes \in 1..MaxLine : Write(bytes)
  \/ AttachTape \/ DetachTape \/ Delivered \/ Midnight \/ ProcessEnds

TapeSpec == TapeInit /\ [][TapeNext]_tapeVars

---------------------------------------------------------------------------
(* Properties. *)

TapeTypeOK ==
  /\ today \in Days /\ tape \in Files \cup {NoTape}
  /\ size \in [Files -> Nat] /\ overnight \subseteq Files
  /\ subscribed \in BOOLEAN /\ inflight \in BOOLEAN
  /\ written \in Nat /\ lost \in Nat /\ offered \in Nat

\* A file that was never written after its day ends at the limit plus at most
\* one line, and no file is of a day to come.
DayTapesBounded ==
  \A file \in Files :
    /\ file \notin overnight => size[file] < MaxFileBytes + MaxLine
    /\ file[1] > today => size[file] = 0

\* Every event offered to the recorder is on a tape or counted as lost.
Accounted == written + lost = offered

\* "Recording is bounded (bytes per file, files per day)": TLC refutes it
\* (README), the file that is open at midnight is written on without a limit.
RecordingBounded == \A file \in Files : size[file] < MaxFileBytes + MaxLine

\* "DAY.jsonl" holds its day: TLC refutes it (README) for the same reason.
LinesOnTheirDay ==
  [][\A file \in Files : size'[file] # size[file] => file[1] = today]_tapeVars

\* detach closes the file: TLC refutes it (README), a delivery under way opens
\* one again and no one closes it.
DetachedIsClosed == ~subscribed => tape = NoTape

===========================================================================
