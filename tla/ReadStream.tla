------------------------------ MODULE ReadStream ------------------------------
(***************************************************************************)
(* The bytes one peer connection reads: PeerConnection::event_read(),      *)
(* read_message(), down_chunk_from_buffer(), down_chunk(),                 *)
(* down_extension() and the 512 byte ProtocolBuffer between them.          *)
(*                                                                         *)
(* The peer sends whole messages; the socket hands over any number of      *)
(* bytes at a time.  A clean buffer is filled only to the size of a piece  *)
(* header while requests are out, so that payload goes straight to the     *)
(* chunk; an unfinished message tops up to the whole buffer.               *)
(***************************************************************************)
EXTENDS Integers, Sequences, FiniteSets

CONSTANTS
  SizeofPiece,  \* ProtocolRead::sizeof_piece, the header of a PIECE
  BufferSize,   \* ProtocolRead::buffer_size
  Traffic       \* message sequences: [head: bytes of the header, body: payload]

VARIABLE s

Total(msgs) == LET F[i \in 0..Len(msgs)] ==
                     IF i = 0 THEN 0 ELSE F[i - 1] + msgs[i].head + msgs[i].body
               IN  F[Len(msgs)]

Init ==
  s \in [msgs : Traffic,
         pipe : BOOLEAN,        \* request_list()->pipe_size() != 0
         taken : {0},           \* bytes of the stream read from the socket
         begin : {0}, end : {0},\* ProtocolBuffer position and end
         state : {"idle"},      \* ProtocolRead state
         body : {0},            \* payload bytes the state still needs
         used : {0},            \* bytes the messages consumed account for
         done : {0},            \* messages handled
         inside : {FALSE},      \* event_read() is running
         thrown : {FALSE}]

Remaining(t) == t.end - t.begin
Arrivable(t) == Total(t.msgs) - t.taken
Next1(t) == t.msgs[t.done + 1]

MoveUnused(t) == [t EXCEPT !.begin = 0, !.end = t.end - t.begin]

MinOf(a, b) == IF a < b THEN a ELSE b

\* The payload that is already in the buffer goes to its consumer:
\* down_chunk_from_buffer(), down_chunk_skip_from_buffer(), down_extension().
FromBuffer(t) ==
  LET n == MinOf(t.body, Remaining(t))
  IN  [t EXCEPT !.begin = @ + n, !.body = @ - n, !.used = @ + n]

Finished(t) == [t EXCEPT !.state = "idle", !.done = @ + 1]

\* read_message() of one message; the header must be complete.
ReadMessage(t) ==
  LET m == Next1(t)
      h == FromBuffer([t EXCEPT !.begin = @ + m.head, !.used = @ + m.head, !.body = m.body,
                                !.state = IF m.kind = "ctl" THEN "idle" ELSE m.kind])
  IN  IF h.body = 0 THEN Finished(h)
      ELSE [h EXCEPT !.thrown = @ \/ Remaining(h) # 0]

Readable(t) ==
  t.state = "idle" /\ t.done < Len(t.msgs) /\ Remaining(t) >= Next1(t).head

ReadMessagesOne(t) == IF Readable(t) THEN ReadMessage(t) ELSE t

\* while (read_message()): every complete message, at most as many as bytes.
ReadMessages(t) ==
  LET F[i \in 0..BufferSize] ==
        IF i = 0 THEN t ELSE LET u == F[i - 1] IN IF Readable(u) THEN ReadMessage(u) ELSE u
  IN  F[BufferSize]

TargetAlwaysSmall(t) == IF t.pipe THEN SizeofPiece ELSE BufferSize

\* How far event_read() fills the buffer.
Target(t) == IF Remaining(t) = 0 /\ t.pipe THEN SizeofPiece ELSE BufferSize

\* After the messages: read on when the fill budget was met or one is unfinished.
AfterMessages(t, target) ==
  [MoveUnused(t) EXCEPT !.inside = Remaining(t) > 0 \/ t.end = target]

\* Case IDLE of event_read(): the socket hands over n bytes; a full buffer with
\* an unfinished message is an error.
FillAndRead(n) ==
  /\ s.inside /\ s.state = "idle"
  /\ n = 0 \/ n <= MinOf(Target(s) - s.end, Arrivable(s))
  /\ s' = IF s.end >= Target(s) THEN [s EXCEPT !.thrown = TRUE, !.inside = FALSE]
          ELSE IF n = 0 THEN [MoveUnused(s) EXCEPT !.inside = FALSE]
          ELSE AfterMessages(ReadMessages([s EXCEPT !.taken = @ + n, !.end = @ + n]), Target(s))

\* READ_PIECE and READ_SKIP_PIECE: down_chunk(), down_chunk_skip() read the
\* payload from the socket alone.
DownChunk(n) ==
  /\ s.inside /\ s.state = "piece" /\ n \in 0..MinOf(s.body, Arrivable(s))
  /\ LET d == [s EXCEPT !.taken = @ + n, !.body = @ - n, !.used = @ + n]
     IN  s' = IF d.body = 0 THEN Finished(d) ELSE [d EXCEPT !.inside = FALSE]

\* READ_EXTENSION: down_extension() takes what is buffered first.
DownExtension(n) ==
  /\ s.inside /\ s.state = "ext"
  /\ LET b == FromBuffer(s)
         d == [b EXCEPT !.taken = @ + n, !.body = @ - n, !.used = @ + n]
     IN  /\ n \in 0..MinOf(b.body, Arrivable(b))
         /\ s' = IF d.body = 0 THEN Finished(d) ELSE [d EXCEPT !.inside = FALSE]

\* The poll reports the socket readable; requests may have been sent meanwhile.
EventRead ==
  /\ ~s.inside /\ Arrivable(s) > 0 /\ ~s.thrown
  /\ \E p \in BOOLEAN : s' = [s EXCEPT !.inside = TRUE, !.pipe = p]

Next ==
  \/ EventRead
  \/ \E n \in 0..(2 * BufferSize) : FillAndRead(n) \/ DownChunk(n) \/ DownExtension(n)

Spec == Init /\ [][Next]_s

-----------------------------------------------------------------------------
(* Properties.                                                             *)

\* A peer that sends well-formed messages is never dropped for it: event_read()
\* does not find a full buffer with an unfinished message, nor bytes left behind
\* a payload that is not finished.
NothingThrown == ~s.thrown

\* Every byte read from the socket is in the buffer or went to the message it
\* belongs to, and no complete message waits in the buffer once the handler has
\* returned: the socket may never become readable again.
NothingLeftUnread ==
  /\ s.used + Remaining(s) = s.taken
  /\ ~s.inside => ~Readable(s)
  /\ Arrivable(s) = 0 /\ ~s.inside => s.done = Len(s.msgs)
=============================================================================
