--------------------------- MODULE MetadataExchange ---------------------------
(***************************************************************************)
(* The ut_metadata extension between two ends that run this program: a     *)
(* metadata download (PeerConnectionMetadata) asks for the pieces of the   *)
(* info dictionary, the other end has them (a leech or a seed) or is a     *)
(* metadata download too and rejects.  A ProtocolExtension holds at most   *)
(* one message it is reading and one reply it has not sent.                *)
(***************************************************************************)
EXTENDS Integers, Sequences, SequencesExt

CONSTANTS
  NumPieces,   \* pieces of the metadata, 16 KB each
  Roles,       \* choices of the ends that have the metadata
  MaxTicks     \* bound on receive_keepalive()

VARIABLE s

Ends == {"a", "b"}
Other(e) == IF e = "a" THEN "b" ELSE "a"
Pieces == 1..NumPieces
None == [kind |-> "none", p |-> 0]
Message(kind, p) == [kind |-> kind, p |-> p]

\* PeerConnectionBase and ProtocolExtension of one end.
NewEnd(full) ==
  [has |-> IF full THEN Pieces ELSE {}, full |-> full,
   queued |-> {},        \* RequestList: pieces asked for
   try |-> ~full, pending |-> None, out |-> None,
   reads |-> TRUE,       \* in the read poll
   writes |-> TRUE]      \* in the write poll

Init ==
  \E full \in Roles :
    s = [e |-> [e \in Ends |-> NewEnd(e \in full)], wire |-> [e \in Ends |-> <<>>],
         ticks |-> 0, thrown |-> FALSE]

-----------------------------------------------------------------------------
(* Reading.                                                                *)

\* write_insert_poll_safe().
Polled(x) == [x EXCEPT !.writes = @ \/ x.out = None]

\* send_metadata_piece(): the reply, a rejection without the metadata.
SendMetadataPiece(x, p) ==
  [x EXCEPT !.pending = Message(IF x.full THEN "data" ELSE "reject", p)]

\* receive_metadata_piece(): a rejection leaves the request where it is.
ReceiveMetadataPiece(x, m) ==
  IF m.kind = "reject" THEN [x EXCEPT !.try = FALSE]
  ELSE Polled([x EXCEPT !.has = @ \cup {m.p}, !.queued = @ \ {m.p}, !.try = TRUE])

\* parse_ut_metadata() answers FALSE while a reply waits; read_done() drops the
\* message all the same, so down_extension() takes the end out of the read
\* poll and up_extension() finds nothing to process.
ParseUtMetadata(x, m) ==
  IF m.kind # "request" THEN ReceiveMetadataPiece(x, m)
  ELSE IF x.pending # None THEN [x EXCEPT !.reads = FALSE]
  ELSE SendMetadataPiece(x, m.p)

\* Mutant: the end with the metadata does not ask to write its reply.
AfterExtensionUnpolled(x) ==
  IF ~x.reads \/ x.full THEN x ELSE Polled([x EXCEPT !.try = TRUE])

\* After the message: a metadata connection tries again, another end writes
\* its reply.
AfterExtension(x) ==
  IF ~x.reads THEN x
  ELSE IF x.full THEN (IF x.pending = None THEN x ELSE Polled(x))
  ELSE Polled([x EXCEPT !.try = TRUE])

EventRead(e) ==
  /\ s.e[e].reads /\ s.wire[e] # <<>>
  /\ s' = [s EXCEPT !.wire[e] = Tail(@),
                    !.e[e] = AfterExtension(ParseUtMetadata(@, Head(s.wire[e])))]

-----------------------------------------------------------------------------
(* Writing.                                                                *)

\* try_request_metadata_pieces(): one piece, when no message is pending.
TryRequest(x) ==
  LET free == Pieces \ (x.has \cup x.queued)
  IN  IF ~x.try THEN x
      ELSE IF x.full \/ x.pending # None \/ free = {} THEN [x EXCEPT !.try = FALSE]
      ELSE LET p == CHOOSE q \in free : \A r \in free : q <= r
           IN  [x EXCEPT !.queued = @ \cup {p}, !.pending = Message("request", p)]

\* fill_write_buffer() with send_ext_message(), or out of the write poll.
Filled(x) ==
  IF x.pending = None THEN [x EXCEPT !.writes = FALSE]
  ELSE [x EXCEPT !.out = x.pending, !.pending = None]

EventWrite(e) ==
  /\ s.e[e].writes
  /\ s' = IF s.e[e].out = None THEN [s EXCEPT !.e[e] = Filled(TryRequest(@))]
          ELSE [s EXCEPT !.wire[Other(e)] = Append(@, s.e[e].out), !.e[e].out = None]

\* receive_keepalive().
Tick(e) ==
  /\ s.ticks < MaxTicks
  /\ s' = [s EXCEPT !.ticks = @ + 1, !.e[e] = Polled([@ EXCEPT !.try = ~s.e[e].full])]

Next == \E e \in Ends : EventRead(e) \/ EventWrite(e) \/ Tick(e)

Spec == Init /\ [][Next]_s

-----------------------------------------------------------------------------
(* Properties.                                                             *)

OnItsWay(e, p) ==
  \/ \E m \in {s.e[e].pending, s.e[e].out} \cup ToSet(s.wire[Other(e)]) : m = Message("request", p)
  \/ \E m \in {s.e[Other(e)].pending, s.e[Other(e)].out} \cup ToSet(s.wire[e]) : m = Message("data", p)

\* A piece asked of an end that has the metadata is on its way, there or back.
AskedIsAnswered ==
  \A e \in Ends : s.e[Other(e)].full => \A p \in s.e[e].queued : OnItsWay(e, p)

\* An end with a message to send is in the write poll.
MessagesGoOut ==
  \A e \in Ends : s.e[e].pending # None \/ s.e[e].out # None => s.e[e].writes

\* "disable reads until the pending message is completely sent": an end out of
\* the read poll has a message to send, after which it reads again.
ReadsResume ==
  \A e \in Ends : s.e[e].reads \/ s.e[e].pending # None \/ s.e[e].out # None
=============================================================================
