----------------------------- MODULE WireStream -----------------------------
(***************************************************************************)
(* What becomes of the venue's bytes: WebSocketConnection.recv_message     *)
(* (network/websocket.py) assembles frames, EngineIOSession and            *)
(* decode_socket (network/socketio.py) classify a message, and the reader  *)
(* of QuotexSocket (brokers/quotex/client.py) pairs binary attachments     *)
(* with their placeholder, keeps the authorization flags that authorize()  *)
(* polls on another thread, and dispatches events to the api.              *)
(*                                                                         *)
(* TCP delivers in order but a read may time out between any two bytes; a  *)
(* frame is two reads, its header and its payload.  The content of an      *)
(* event is its place in what the venue sent.                              *)
(***************************************************************************)
EXTENDS Integers, Sequences, FiniteSets

CONSTANTS
  Kinds,      \* kinds of events the venue sends
  NoMark,     \* no placeholder is pending
  MaxSent,    \* bound: events the venue sends
  MaxWires    \* bound: connections of this socket

ASSUME WireAssumption ==
  /\ Kinds \subseteq {"event", "binary", "bare", "ack", "reject"}
  /\ NoMark \notin Nat
  /\ MaxSent \in Nat /\ MaxWires \in Nat \ {0}

VARIABLES
  wire,       \* the connection: self._gen
  sent,       \* history: the events the venue sent, on any connection
  stream,     \* frames on this connection that are not read yet
  half,       \* the header of the first of them has been read
  parts,      \* fragments recv_message has collected
  synced,     \* the reader is at a frame boundary when it thinks so
  reading,    \* the reader thread lives
  mark,       \* _pending_bin: the event whose attachments are due
  got,        \* the attachments collected for it
  authorized, \* _authorized
  faulted,    \* _auth_failed_event
  login,      \* connect(): "dialling" before the session frame; then authorize()
              \* "waiting", "looked" (saw no rejection), "ok" or "raised"
  events,     \* history: what was dispatched, in order
  first,      \* history: kind of the first event handled since the frame went
  early,      \* history: the wire was authorized before the frame went
  torn,       \* history: a read timed out inside a message
  spoiled     \* history: an attachment did not decode

frameVars == <<stream, half, parts, synced, reading>>
eventVars == <<mark, got, events>>
authVars  == <<authorized, faulted, login, first, early>>
wireVars == <<wire, sent, frameVars, eventVars, authVars, torn, spoiled>>

---------------------------------------------------------------------------
(* The venue. *)

\* A text message in one frame or in two; a placeholder and its attachment;
\* or a binary batch on its own.
Framings(kind, e) ==
  CASE kind = "binary" -> {<<[of |-> e, part |-> "mark"], [of |-> e, part |-> "load"]>>}
    [] kind = "bare"   -> {<<[of |-> e, part |-> "load"]>>}
    [] OTHER           -> {<<[of |-> e, part |-> "whole"]>>,
                           <<[of |-> e, part |-> "open"], [of |-> e, part |-> "rest"]>>}

VenueSends ==
  /\ Len(sent) < MaxSent
  /\ \E kind \in Kinds, legible \in BOOLEAN :
     \E frames \in Framings(kind, Len(sent) + 1) :
       /\ legible \/ kind = "binary"
       /\ sent' = Append(sent, [kind |-> kind, wire |-> wire, legible |-> legible])
       /\ stream' = stream \o frames
  /\ UNCHANGED <<wire, half, parts, synced, reading, eventVars, authVars, torn,
                 spoiled>>

---------------------------------------------------------------------------
(* _got_event: the one choke point to the api's dispatcher. *)

\* Seeded fault: data clears an earlier rejection.
NotedLenient(kind) ==
  /\ faulted' = (kind = "reject" /\ ~authorized)
  /\ authorized' = (authorized \/ kind # "reject")
  /\ first' = IF first = "none" THEN kind ELSE first

\* An acknowledgement authorizes, a rejection condemns the session unless it
\* is authorized already, and any other event is an implicit yes.
Noted(kind) ==
  /\ faulted' = (faulted \/ (kind = "reject" /\ ~authorized))
  /\ authorized' = (authorized \/ kind # "reject")
  /\ first' = IF first = "none" THEN kind ELSE first

Dispatch(e, loads) ==
  /\ events' = Append(events, [of |-> e, loads |-> loads])
  /\ Noted(sent[e].kind)
  /\ UNCHANGED <<login, early>>

Silent == UNCHANGED <<events, authVars>>

\* Seeded fault: a placeholder that has its attachment is not cleared.
AttachTwice(f) ==
  IF mark # NoMark
  THEN /\ Dispatch(mark, Append(got, f.of))
       /\ got' = Append(got, f.of)
       /\ UNCHANGED <<mark, spoiled>>
  ELSE Dispatch(f.of, <<>>) /\ UNCHANGED <<mark, got, spoiled>>

\* _on_binary: an attachment that does not decode is dropped and its
\* placeholder keeps waiting; one that does completes the placeholder, which
\* needs one; without a placeholder the batch is routed by its shape.
Attach(f) ==
  IF ~sent[f.of].legible
  THEN spoiled' = TRUE /\ Silent /\ UNCHANGED <<mark, got>>
  ELSE IF mark # NoMark
  THEN /\ Dispatch(mark, Append(got, f.of))
       /\ mark' = NoMark /\ got' = <<>>
       /\ UNCHANGED spoiled
  ELSE Dispatch(f.of, <<>>) /\ UNCHANGED <<mark, got, spoiled>>

\* A text message: a placeholder replaces a stale one, an event is
\* dispatched, and the tail of a message whose head is lost does not parse.
Text(f, whole) ==
  /\ UNCHANGED spoiled
  /\ IF f.part = "mark"
     THEN mark' = f.of /\ got' = <<>> /\ Silent
     ELSE /\ UNCHANGED <<mark, got>>
          /\ IF whole THEN Dispatch(f.of, <<>>) ELSE Silent

---------------------------------------------------------------------------
(* recv_message on the reader thread. *)

ReadHeader ==
  /\ reading /\ synced /\ stream # <<>> /\ ~half
  /\ half' = TRUE
  /\ UNCHANGED <<wire, sent, stream, parts, synced, reading, eventVars,
                 authVars, torn, spoiled>>

\* The payload completes a frame: more fragments are due, or the message is
\* handled.
ReadPayload ==
  /\ reading /\ synced /\ half
  /\ half' = FALSE /\ stream' = Tail(stream)
  /\ LET f == Head(stream)
     IN IF f.part = "open"
        THEN parts' = Append(parts, f) /\ UNCHANGED <<eventVars, authVars, spoiled>>
        ELSE /\ parts' = <<>>
             /\ IF f.part = "load" THEN Attach(f)
                ELSE Text(f, f.part = "rest" => parts # <<>>)
  /\ UNCHANGED <<wire, sent, synced, reading, torn>>

\* The read times out inside a message and the reader calls recv_message
\* again: the fragments are forgotten, and a header that was taken makes the
\* payload be read as the next header.
ReadTimesOut ==
  /\ reading /\ synced /\ (half \/ parts # <<>>)
  /\ torn' = TRUE
  /\ parts' = <<>> /\ half' = FALSE
  /\ synced' = ~half
  /\ UNCHANGED <<wire, sent, stream, reading, eventVars, authVars, spoiled>>

\* Out of step, bytes are swallowed as frames that are not there, until one
\* claims a length that ends the thread.
Misread ==
  /\ reading /\ ~synced
  /\ \/ stream # <<>> /\ stream' = Tail(stream) /\ UNCHANGED reading
     \/ reading' = FALSE /\ UNCHANGED stream
  /\ UNCHANGED <<wire, sent, half, parts, synced, eventVars, authVars, torn,
                 spoiled>>

\* A new connection: a new transport with an empty buffer, and the placeholder
\* and the authorization of the old one forgotten.  The reader starts before
\* the handshake and the session frame; a rejection on record stays.
Reconnect ==
  /\ wire < MaxWires
  /\ wire' = wire + 1
  /\ stream' = <<>> /\ half' = FALSE /\ parts' = <<>>
  /\ synced' = TRUE /\ reading' = TRUE
  /\ mark' = NoMark /\ got' = <<>>
  /\ authorized' = FALSE /\ login' = "dialling"
  /\ first' = "none" /\ early' = FALSE
  /\ UNCHANGED <<sent, faulted, events, torn, spoiled>>

---------------------------------------------------------------------------
(* authorize() on the connecting thread sends the session frame and polls  *)
(* the two flags, one after the other.                                     *)

\* Whatever rejection was on record is cleared, also one the reader of this
\* very wire has just heard.
AuthorizeBegins ==
  /\ login = "dialling" /\ login' = "waiting"
  /\ faulted' = FALSE
  /\ first' = "none" /\ early' = authorized
  /\ UNCHANGED <<wire, sent, frameVars, eventVars, authorized, torn, spoiled>>

Polls == UNCHANGED <<wire, sent, frameVars, eventVars, authorized, faulted, first,
                     early, torn, spoiled>>

\* The rejection is looked at first.
AuthorizeRaises == login = "waiting" /\ faulted /\ login' = "raised" /\ Polls

AuthorizeLooks == login = "waiting" /\ ~faulted /\ login' = "looked" /\ Polls

\* Authorized, or nothing heard for the whole window.
AuthorizeReturns == login = "looked" /\ login' = "ok" /\ Polls

\* Not yet: look again, or find that the wire has died.
AuthorizeWaits ==
  /\ login = "looked" /\ ~authorized
  /\ login' = "waiting" \/ (~reading /\ login' = "raised")
  /\ Polls

---------------------------------------------------------------------------

WireInit ==
  /\ wire = 1 /\ sent = <<>>
  /\ stream = <<>> /\ half = FALSE /\ parts = <<>>
  /\ synced = TRUE /\ reading = TRUE
  /\ mark = NoMark /\ got = <<>>
  /\ authorized = FALSE /\ faulted = FALSE /\ login = "dialling"
  /\ events = <<>> /\ first = "none" /\ early = FALSE
  /\ torn = FALSE /\ spoiled = FALSE

WireNext == VenueSends \/ ReadHeader \/ ReadPayload \/ ReadTimesOut \/ Misread
            \/ Reconnect \/ AuthorizeBegins \/ AuthorizeRaises \/ AuthorizeLooks
            \/ AuthorizeReturns \/ AuthorizeWaits

WireSpec == WireInit /\ [][WireNext]_wireVars

---------------------------------------------------------------------------
(* Properties. *)

Frames == [of : 1 .. MaxSent, part : {"whole", "open", "rest", "mark", "load"}]

\* Types; in particular a header is only ever held of a frame that is there,
\* and a placeholder is one the venue sent.
WireTypeOK ==
  /\ wire \in 1 .. MaxWires
  /\ sent \in Seq([kind : Kinds, wire : 1 .. MaxWires, legible : BOOLEAN])
  /\ Len(sent) <= MaxSent
  /\ stream \in Seq(Frames) /\ parts \in Seq(Frames)
  /\ half \in BOOLEAN /\ (half => stream # <<>>)
  /\ synced \in BOOLEAN /\ reading \in BOOLEAN
  /\ mark \in (1 .. Len(sent)) \cup {NoMark} /\ got \in Seq(1 .. MaxSent)
  /\ authorized \in BOOLEAN /\ faulted \in BOOLEAN
  /\ login \in {"dialling", "waiting", "looked", "ok", "raised"}
  /\ events \in Seq([of : 1 .. MaxSent, loads : Seq(1 .. MaxSent)])
  /\ first \in Kinds \cup {"none"} /\ early \in BOOLEAN
  /\ torn \in BOOLEAN /\ spoiled \in BOOLEAN

\* Dispatched with exactly the attachments the venue sent with it.
Own(d) == d.loads = IF sent[d.of].kind = "binary" THEN <<d.of>> ELSE <<>>

Dispatched == {events[i].of : i \in DOMAIN events}

\* Read but not complete, or not read yet.
Due == {mark} \cup {parts[i].of : i \in DOMAIN parts}
              \cup {stream[i].of : i \in DOMAIN stream}

\* No event is altered, repeated or overtaken, and on the current connection
\* none is lost.
InOrder ==
  /\ \A i \in DOMAIN events : Own(events[i])
  /\ \A i, j \in DOMAIN events : i < j => events[i].of < events[j].of
  /\ \A e \in DOMAIN sent :
       sent[e].wire = wire => (e \in Dispatched <=> e \notin Due)

\* Whatever is torn or spoiled, no event of one connection is completed with
\* an attachment of another.
NoSplicedWires ==
  \A i \in DOMAIN events : \A k \in DOMAIN events[i].loads :
    sent[events[i].loads[k]].wire = sent[events[i].of].wire

\* The api sees what the venue sent, in order and whole, across fragments,
\* placeholders and reconnects, unless a read timed out inside a message or
\* an attachment did not decode.
Faithful == (torn \/ spoiled \/ InOrder) /\ NoSplicedWires

\* A session whose frame is answered with a rejection is never taken for a
\* login: authorize() does not look past it, whatever the reader has handled
\* since and however the two interleave, unless data had come before the frame
\* and authorized the wire already (_got_event, authorize).
RejectRaised == login = "waiting" /\ login' = "looked" => first # "reject" \/ early
RejectHeard == [][RejectRaised]_wireVars

\* What authorize()'s text says of it without reservation: a session fault
\* raises "instead of masquerading as a live login".  Here: a wire whose first
\* event is a rejection is never a login.
OnThisWire == {i \in DOMAIN events : sent[events[i].of].wire = wire}
RejectedFirst ==
  \E i \in OnThisWire : sent[events[i].of].kind = "reject" /\ \A j \in OnThisWire : i <= j
NeverMasquerades == [][login # "ok" /\ login' = "ok" => ~RejectedFirst]_wireVars

\* What client.py says of a receive timeout: a quiet wire is not a dead one,
\* the reader keeps waiting, and nothing is lost.
QuietIsHarmless == spoiled \/ InOrder

=============================================================================
