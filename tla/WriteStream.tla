----------------------------- MODULE WriteStream -----------------------------
(***************************************************************************)
(* The bytes one peer connection writes: PeerConnection::event_write(),    *)
(* fill_write_buffer(), up_chunk() with its EncryptBuffer, up_extension()  *)
(* and receive_keepalive().  On an encrypted connection every byte goes    *)
(* through one RC4 stream, so the order in which code encrypts must be the *)
(* order in which it writes; the code encrypts in five places, at          *)
(* different times.                                                        *)
(*                                                                         *)
(* A byte is [c |-> its place in the cipher stream, 0 while it is plain,   *)
(* d |-> its place in the piece being sent, 0 for protocol bytes].         *)
(***************************************************************************)
EXTENDS Integers, Sequences, TLAPS

CONSTANTS
  PieceLen,    \* bytes of a requested piece
  EncryptSize, \* EncryptBuffer::reserved()
  ExtLen,      \* bytes of an extension message
  Budget       \* bound on requests, choke changes, extension messages, keepalives

ASSUME WriteAssumption ==
  PieceLen \in Nat \ {0} /\ EncryptSize \in Nat /\ ExtLen \in Nat \ {0} /\ Budget \in Nat

VARIABLE ws

Plain(n) == [i \in 1..n |-> [c |-> 0, d |-> 0]]

\* m_encryption.encrypt(): the bytes take the next places of the stream.
Encrypted(t, bytes) == [i \in 1..Len(bytes) |-> [bytes[i] EXCEPT !.c = t.cipher + i]]

WriteInit ==
  ws = [cipher |-> 0, sent |-> 0, up |-> "idle", last |-> "none", out |-> <<>>,
       choked |-> TRUE, sendChoked |-> FALSE, uploads |-> 0,
       offset |-> 0, length |-> 0,               \* m_up_piece
       chunk |-> FALSE,                          \* m_up_chunk is valid
       encrypt |-> <<>>, encryptEnd |-> 0, hasEncrypt |-> FALSE,
       pending |-> FALSE, ext |-> <<>>, extPlain |-> FALSE, extOffset |-> 0,
       left |-> Budget, misread |-> FALSE, thrown |-> FALSE]

Spend(t) == [t EXCEPT !.left = @ - 1]

\* write_stream_throws(): the bytes reach the wire in the order given.
OnWire(t, bytes) ==
  [t EXCEPT !.sent = @ + Len(bytes),
            !.misread = @ \/ \E i \in 1..Len(bytes) : bytes[i].c # t.sent + i]

-----------------------------------------------------------------------------
(* fill_write_buffer().                                                    *)

WriteChoke(t) ==
  IF ~t.sendChoked THEN t
  ELSE [t EXCEPT !.sendChoked = FALSE, !.last = "choke", !.out = @ \o Plain(1),
                 !.chunk = @ /\ ~t.choked, !.uploads = IF t.choked THEN 0 ELSE @,
                 !.thrown = @ \/ (t.choked /\ t.encrypt # <<>>),
                 !.hasEncrypt = @ /\ ~t.choked]

\* write_prepare_extension(): the header now, the message once that is out.
WritePrepareExtension(t) ==
  [t EXCEPT !.pending = FALSE, !.last = "extension", !.out = @ \o Plain(1),
            !.ext = Plain(ExtLen), !.extPlain = TRUE, !.extOffset = 0]

WritePreparePiece(t) ==
  [t EXCEPT !.uploads = @ - 1, !.last = "piece", !.out = @ \o Plain(1),
            !.offset = 0, !.length = PieceLen]

WriteBody(t) ==
  IF t.pending THEN WritePrepareExtension(t)
  ELSE IF ~t.choked /\ t.uploads > 0 THEN WritePreparePiece(t)
  ELSE t

\* Only what this call added is encrypted, from old_end on.
EncryptAll(t, old) == [t EXCEPT !.out = Encrypted(t, t.out), !.cipher = @ + Len(t.out)]
EncryptTail(t, old) ==
  [t EXCEPT !.out = SubSeq(@, 1, old) \o Encrypted(t, SubSeq(@, old + 1, Len(@))),
            !.cipher = @ + Len(t.out) - old]

FillWriteBuffer(t) == EncryptTail(WriteBody(WriteChoke(t)), Len(t.out))

Fill ==
  /\ ws.up = "idle"
  /\ (ws.sendChoked \/ ws.pending \/ (~ws.choked /\ ws.uploads > 0) \/ ws.out # <<>>)
  /\ ws' = [FillWriteBuffer(ws) EXCEPT !.up = "msg"]

\* load_up_chunk(): the encrypt buffer is made with the chunk.
LoadUpChunk(t) ==
  IF t.chunk THEN t
  ELSE [t EXCEPT !.chunk = TRUE, !.hasEncrypt = TRUE,
                 !.encrypt = IF t.hasEncrypt THEN @ ELSE <<>>,
                 !.encryptEnd = IF t.hasEncrypt THEN @ ELSE 0]

\* MSG: as many bytes as the socket takes.
Flush(n) ==
  /\ ws.up = "msg" /\ n \in 1..Len(ws.out)
  /\ LET w == [OnWire(ws, SubSeq(ws.out, 1, n)) EXCEPT !.out = SubSeq(@, n + 1, Len(@))]
     IN  ws' = IF w.out # <<>> THEN w
               ELSE CASE w.last = "piece" -> [LoadUpChunk(w) EXCEPT !.up = "piece"]
                      [] w.last = "extension" -> [w EXCEPT !.up = "ext"]
                      [] OTHER -> [w EXCEPT !.up = "idle"]

PieceBytes(from, n) == [i \in 1..n |-> [c |-> 0, d |-> from + i]]

MinOf(a, b) == IF a < b THEN a ELSE b

\* up_chunk_encrypt(): only bytes beyond remaining() are new.
Topped(t, n, from) ==
  LET new == Encrypted(t, PieceBytes(from, n))
  IN  [t EXCEPT !.encrypt = @ \o new, !.cipher = @ + n, !.encryptEnd = @ + n]

UpChunkEncryptFromOffset(t, quota) ==
  IF quota <= Len(t.encrypt) THEN t
  ELSE IF t.encrypt = <<>>
  THEN Topped([t EXCEPT !.encryptEnd = 0], MinOf(quota, EncryptSize), t.offset)
  ELSE Topped(t, MinOf(quota - Len(t.encrypt), EncryptSize - t.encryptEnd), t.offset)

UpChunkEncrypt(t, quota) ==
  IF quota <= Len(t.encrypt) THEN t
  ELSE IF t.encrypt = <<>>
  THEN Topped([t EXCEPT !.encryptEnd = 0], MinOf(quota, EncryptSize), t.offset)
  ELSE Topped(t, MinOf(quota - Len(t.encrypt), EncryptSize - t.encryptEnd),
              t.offset + Len(t.encrypt))

\* up_chunk(): the throttle grants quota bytes, the socket takes n of them.
UpChunk(quota, n) ==
  /\ ws.up = "piece"
  /\ LET e == UpChunkEncrypt(ws, MinOf(quota, ws.length))
         w == SubSeq(e.encrypt, 1, n)
     IN  /\ n <= Len(e.encrypt) /\ n <= quota
         /\ ws' = [OnWire(e, w)
                    EXCEPT !.encrypt = SubSeq(@, n + 1, Len(@)),
                           !.offset = @ + n, !.length = @ - n,
                           !.misread = @ \/ \E i \in 1..n : w[i].d # ws.offset + i,
                           !.thrown = @ \/ ~ws.hasEncrypt,
                           !.up = IF ws.length = n THEN "idle" ELSE "piece"]

\* up_extension(): the message is encrypted when its first byte is due.
ExtEncrypted(t) ==
  IF ~t.extPlain THEN t
  ELSE [t EXCEPT !.ext = Encrypted(t, t.ext), !.cipher = @ + Len(t.ext), !.extPlain = FALSE]

UpExtension(n) ==
  /\ ws.up = "ext" /\ n \in 0..(Len(ws.ext) - ws.extOffset)
  /\ LET e == ExtEncrypted(ws)
     IN  ws' = [OnWire(e, SubSeq(e.ext, e.extOffset + 1, e.extOffset + n))
                 EXCEPT !.extOffset = @ + n,
                        !.thrown = @ \/ ws.extOffset >= Len(ws.ext),
                        !.ext = IF ws.extOffset + n = Len(@) THEN <<>> ELSE @,
                        !.up = IF ws.extOffset + n = Len(ws.ext) THEN "idle" ELSE "ext"]

-----------------------------------------------------------------------------
(* What may happen between two writable events.                            *)

\* receive_keepalive(): written and encrypted at once, but only when idle.
KeepaliveAnytime ==
  /\ ws.left > 0
  /\ ws' = Spend([ws EXCEPT !.out = @ \o Encrypted(ws, Plain(1)), !.cipher = @ + 1,
                          !.last = "keepalive"])

Keepalive ==
  /\ ws.left > 0 /\ ws.up = "idle"
  /\ ws' = Spend([ws EXCEPT !.out = @ \o Encrypted(ws, Plain(1)), !.cipher = @ + 1,
                          !.last = "keepalive"])

\* receive_upload_choke() of the choke queue.
ReceiveUploadChoke ==
  /\ ws.left > 0
  /\ ws' = Spend([ws EXCEPT !.choked = ~@, !.sendChoked = TRUE])

\* A REQUEST of the peer.
ReadRequestPiece ==
  /\ ws.left > 0 /\ ~ws.choked
  /\ ws' = Spend([ws EXCEPT !.uploads = @ + 1])

\* An extension message to send; one at a time.
ExtensionPending ==
  /\ ws.left > 0 /\ ~ws.pending
  /\ ws' = Spend([ws EXCEPT !.pending = TRUE])

WriteNext ==
  \/ Fill \/ \E n \in 1..(Budget + 1) : Flush(n)
  \/ \E quota \in 1..PieceLen, n \in 0..PieceLen : UpChunk(quota, n)
  \/ \E n \in 0..ExtLen : UpExtension(n)
  \/ Keepalive \/ ReceiveUploadChoke \/ ReadRequestPiece \/ ExtensionPending

WriteSpec == WriteInit /\ [][WriteNext]_ws

-----------------------------------------------------------------------------
(* Properties.                                                             *)

\* The peer can decrypt and place everything it receives: bytes reach the wire
\* in the order they went through the cipher, each once, and a piece's bytes in
\* the order of the piece, whatever quota and socket allow at a time.
CipherInOrder == ~ws.misread

\* No encrypted byte is ever dropped: fill_write_buffer() never finds encrypted
\* data left when it deletes the encrypt buffer, up_chunk_encrypt() never finds
\* no buffer, up_extension() never starts past the end; and when the connection
\* is idle everything encrypted is on the wire or in the write buffer.
NothingEncryptedIsDropped ==
  /\ ~ws.thrown
  /\ ws.up = "idle" => ws.sent + Len(ws.out) = ws.cipher

\* What a connection sends is encrypted once, in the order it is sent in, and
\* nothing that went through the cipher is dropped.
WritesIntact == CipherInOrder /\ NothingEncryptedIsDropped

-----------------------------------------------------------------------------
(* The inductive invariant.                                                *)

Byte == [c : Nat, d : Nat]
Bytes == Seq(Byte)

WriteState ==
  [cipher : Nat, sent : Nat, up : {"idle", "msg", "piece", "ext"},
   last : {"none", "choke", "extension", "piece", "keepalive"}, out : Bytes,
   choked : BOOLEAN, sendChoked : BOOLEAN, uploads : Nat, offset : Nat, length : Nat,
   chunk : BOOLEAN, encrypt : Bytes, encryptEnd : Nat, hasEncrypt : BOOLEAN,
   pending : BOOLEAN, ext : Bytes, extPlain : BOOLEAN, extOffset : Nat,
   left : Nat, misread : BOOLEAN, thrown : BOOLEAN]

\* Bytes that take the places of the cipher stream, or of the piece, after `from'.
InCipher(bytes, from) == \A i \in 1..Len(bytes) : bytes[i].c = from + i
InPiece(bytes, from) == \A i \in 1..Len(bytes) : bytes[i].d = from + i

\* A message that was announced and not begun.
Announced(t) ==
  /\ t.last = "piece" => t.offset = 0 /\ t.length = PieceLen
  /\ t.last = "extension" => t.extPlain /\ t.extOffset = 0 /\ Len(t.ext) = ExtLen

\* What was encrypted and not sent is in the one buffer that is written next.
BufferInv(t) ==
  /\ t.up \in {"idle", "msg"} =>
       InCipher(t.out, t.sent) /\ t.sent + Len(t.out) = t.cipher /\ t.encrypt = <<>>
  /\ t.up = "idle" /\ t.out # <<>> => t.last = "keepalive"
  /\ t.up = "msg" => Announced(t)
  /\ t.up = "piece" =>
       /\ t.out = <<>> /\ InCipher(t.encrypt, t.sent) /\ t.sent + Len(t.encrypt) = t.cipher
       /\ InPiece(t.encrypt, t.offset) /\ Len(t.encrypt) <= t.length /\ t.length > 0
       /\ t.hasEncrypt
  /\ t.up = "ext" =>
       /\ t.out = <<>> /\ t.encrypt = <<>> /\ t.extOffset < Len(t.ext)
       /\ IF t.extPlain THEN t.sent = t.cipher /\ t.extOffset = 0
          ELSE /\ t.sent + Len(t.ext) - t.extOffset = t.cipher
               /\ \A i \in 1..(Len(t.ext) - t.extOffset) : t.ext[t.extOffset + i].c = t.sent + i
  /\ t.encryptEnd <= EncryptSize
  /\ t.chunk => t.hasEncrypt

WriteInv(t) == t \in WriteState /\ BufferInv(t) /\ ~t.misread /\ ~t.thrown

WriteInvHolds == WriteInv(ws)

-----------------------------------------------------------------------------
(* Bytes in order.                                                         *)

\* The bytes of write_prepare_extension(), the header bytes and those of a piece.
LEMMA NewBytes ==
  ASSUME NEW n \in Nat, NEW from \in Nat
  PROVE  /\ Plain(n) \in Bytes /\ Len(Plain(n)) = n
         /\ PieceBytes(from, n) \in Bytes /\ Len(PieceBytes(from, n)) = n
         /\ InPiece(PieceBytes(from, n), from)
<1>1. Plain(n) \in [1..n -> Byte] /\ PieceBytes(from, n) \in [1..n -> Byte]
  BY DEF Plain, PieceBytes, Byte
<1>2. Plain(n) \in Bytes /\ Len(Plain(n)) = n
  BY <1>1 DEF Bytes
<1>3. PieceBytes(from, n) \in Bytes /\ Len(PieceBytes(from, n)) = n
  BY <1>1 DEF Bytes
<1>4. InPiece(PieceBytes(from, n), from)
  BY <1>3 DEF PieceBytes, InPiece
<1> QED BY <1>2, <1>3, <1>4

\* What is encrypted takes the next places of the stream and keeps its place in the
\* piece.
LEMMA EncryptedInOrder ==
  ASSUME NEW t, t.cipher \in Nat, NEW bytes \in Bytes
  PROVE  /\ Encrypted(t, bytes) \in Bytes /\ Len(Encrypted(t, bytes)) = Len(bytes)
         /\ InCipher(Encrypted(t, bytes), t.cipher)
         /\ \A i \in 1..Len(bytes) : Encrypted(t, bytes)[i].d = bytes[i].d
<1>1. Len(bytes) \in Nat /\ \A i \in 1..Len(bytes) : bytes[i] \in Byte
  BY DEF Bytes
<1>2. \A i \in 1..Len(bytes) :
        LET e == [bytes[i] EXCEPT !.c = t.cipher + i]
        IN  e \in Byte /\ e.c = t.cipher + i /\ e.d = bytes[i].d
  <2> TAKE i \in 1..Len(bytes)
  <2> DEFINE b == bytes[i]
             n == t.cipher + i
  <2>1. b \in Byte /\ n \in Nat
    BY <1>1
  <2> HIDE DEF b, n
  <2>2. [b EXCEPT !.c = n] \in Byte /\ [b EXCEPT !.c = n].c = n /\ [b EXCEPT !.c = n].d = b.d
    BY <2>1 DEF Byte
  <2> QED BY <2>2 DEF b, n
<1>3. Encrypted(t, bytes) \in [1..Len(bytes) -> Byte]
  BY <1>2 DEF Encrypted
<1>4. Encrypted(t, bytes) \in Bytes /\ Len(Encrypted(t, bytes)) = Len(bytes)
  BY <1>1, <1>3 DEF Bytes
<1>5. \A i \in 1..Len(bytes) : Encrypted(t, bytes)[i] = [bytes[i] EXCEPT !.c = t.cipher + i]
  BY DEF Encrypted
<1> QED BY <1>2, <1>4, <1>5, Zenon DEF InCipher

\* Two runs of bytes that follow each other are one run.
LEMMA InOrderConcat ==
  ASSUME NEW a \in Bytes, NEW b \in Bytes, NEW k \in Nat
  PROVE  /\ a \o b \in Bytes /\ Len(a \o b) = Len(a) + Len(b)
         /\ InCipher(a, k) /\ InCipher(b, k + Len(a)) => InCipher(a \o b, k)
         /\ InPiece(a, k) /\ InPiece(b, k + Len(a)) => InPiece(a \o b, k)
<1>1. a \o b \in Bytes /\ Len(a \o b) = Len(a) + Len(b)
  BY DEF Bytes
<1>2. \A i \in 1..Len(a \o b) : (a \o b)[i] = IF i <= Len(a) THEN a[i] ELSE b[i - Len(a)]
  BY DEF Bytes
<1>3. \A i \in 1..Len(a \o b) : i <= Len(a) \/ (i - Len(a) \in 1..Len(b) /\ k + i = k + Len(a) + (i - Len(a)))
  BY <1>1 DEF Bytes
<1>4. InCipher(a, k) /\ InCipher(b, k + Len(a)) => InCipher(a \o b, k)
  BY <1>2, <1>3 DEF InCipher
<1>5. InPiece(a, k) /\ InPiece(b, k + Len(a)) => InPiece(a \o b, k)
  BY <1>2, <1>3 DEF InPiece
<1> QED BY <1>1, <1>4, <1>5

\* A run that is cut in two leaves two runs.
LEMMA InOrderCut ==
  ASSUME NEW a \in Bytes, NEW n \in 0..Len(a), NEW k \in Nat
  PROVE  /\ SubSeq(a, 1, n) \in Bytes /\ Len(SubSeq(a, 1, n)) = n
         /\ SubSeq(a, n + 1, Len(a)) \in Bytes /\ Len(SubSeq(a, n + 1, Len(a))) = Len(a) - n
         /\ InCipher(a, k) => InCipher(SubSeq(a, 1, n), k) /\ InCipher(SubSeq(a, n + 1, Len(a)), k + n)
         /\ InPiece(a, k) => InPiece(SubSeq(a, 1, n), k) /\ InPiece(SubSeq(a, n + 1, Len(a)), k + n)
<1>1. SubSeq(a, 1, n) \in Bytes /\ Len(SubSeq(a, 1, n)) = n
  BY DEF Bytes
<1>2. SubSeq(a, n + 1, Len(a)) \in Bytes /\ Len(SubSeq(a, n + 1, Len(a))) = Len(a) - n
  BY DEF Bytes
<1>3. \A i \in 1..n : SubSeq(a, 1, n)[i] = a[i]
  BY DEF Bytes
<1>4. \A i \in 1..(Len(a) - n) : SubSeq(a, n + 1, Len(a))[i] = a[n + i]
  BY DEF Bytes
<1>5. \A i \in 1..(Len(a) - n) : n + i \in 1..Len(a) /\ k + n + i = k + (n + i)
  BY DEF Bytes
<1>6. \A i \in 1..n : i \in 1..Len(a)
  BY DEF Bytes
<1>7. InCipher(a, k) => InCipher(SubSeq(a, 1, n), k) /\ InCipher(SubSeq(a, n + 1, Len(a)), k + n)
  BY <1>1, <1>2, <1>3, <1>4, <1>5, <1>6, SMTT(60) DEF InCipher
<1>8. InPiece(a, k) => InPiece(SubSeq(a, 1, n), k) /\ InPiece(SubSeq(a, n + 1, Len(a)), k + n)
  BY <1>1, <1>2, <1>3, <1>4, <1>5, <1>6 DEF InPiece
<1> QED BY <1>1, <1>2, <1>7, <1>8

\* Concatenation can be taken apart again.
LEMMA ConcatCut ==
  ASSUME NEW a \in Bytes, NEW b \in Bytes
  PROVE  SubSeq(a \o b, 1, Len(a)) = a /\ SubSeq(a \o b, Len(a) + 1, Len(a \o b)) = b
<1>1. a \o b \in Bytes /\ Len(a \o b) = Len(a) + Len(b) /\ Len(a) \in Nat /\ Len(b) \in Nat
  BY DEF Bytes
<1>2. \A i \in 1..Len(a) : (a \o b)[i] = a[i]
  BY DEF Bytes
<1>3. \A i \in 1..Len(b) : (a \o b)[Len(a) + i] = b[i]
  BY DEF Bytes
<1>4. SubSeq(a \o b, 1, Len(a)) = a
  BY <1>1, <1>2 DEF Bytes
<1>5. SubSeq(a \o b, Len(a) + 1, Len(a \o b)) = b
  BY <1>1, <1>3 DEF Bytes
<1> QED BY <1>4, <1>5

LEMMA ConcatThree ==
  ASSUME NEW a \in Bytes, NEW b \in Bytes, NEW c \in Bytes
  PROVE  (a \o b) \o c = a \o (b \o c)
<1>1. (a \o b) \o c \in Bytes /\ a \o (b \o c) \in Bytes
  BY DEF Bytes
<1>2. Len((a \o b) \o c) = Len(a \o (b \o c))
  BY DEF Bytes
<1>3. \A i \in 1..Len((a \o b) \o c) : ((a \o b) \o c)[i] = (a \o (b \o c))[i]
  BY DEF Bytes
<1> QED BY <1>1, <1>2, <1>3, SMTT(60) DEF Bytes

-----------------------------------------------------------------------------
(* fill_write_buffer().                                                    *)

\* What a part of fill_write_buffer() does before the bytes are encrypted.
Filled(t, b) ==
  /\ b \in WriteState /\ b.cipher = t.cipher /\ b.sent = t.sent /\ b.up = t.up
  /\ b.encrypt = <<>> /\ ~b.misread /\ ~b.thrown /\ (b.chunk => b.hasEncrypt)
  /\ b.encryptEnd <= EncryptSize
  /\ \E new \in Bytes : b.out = t.out \o new

\* A choke clears the upload queue and drops an encrypt buffer that is empty.
LEMMA ChokeFills ==
  ASSUME NEW t, WriteInv(t), t.up = "idle"
  PROVE  /\ Filled(t, WriteChoke(t))
         /\ t.sendChoked => WriteChoke(t).last = "choke"
         /\ ~t.sendChoked => WriteChoke(t) = t
<1> DEFINE b == WriteChoke(t)
<1>1. /\ t.encrypt = <<>> /\ t \in WriteState /\ ~t.misread /\ ~t.thrown /\ (t.chunk => t.hasEncrypt)
      /\ t.encryptEnd <= EncryptSize
  BY DEF WriteInv, BufferInv
<1>2. CASE ~t.sendChoked
  <2>1. b = t
    BY <1>2 DEF WriteChoke
  <2>2. t.out = t.out \o <<>> /\ <<>> \in Bytes
    BY <1>1 DEF WriteState, Bytes
  <2> QED BY <1>1, <1>2, <2>1, <2>2, Zenon DEF Filled
<1>3. CASE t.sendChoked
  <2> DEFINE out == t.out \o Plain(1)
             uploads == IF t.choked THEN 0 ELSE t.uploads
             chunk == t.chunk /\ ~t.choked
             has == t.hasEncrypt /\ ~t.choked
             v == [t EXCEPT !.sendChoked = FALSE, !.last = "choke", !.out = out, !.uploads = uploads]
  <2>1. Plain(1) \in Bytes /\ out \in Bytes /\ uploads \in Nat /\ chunk \in BOOLEAN /\ has \in BOOLEAN
    BY <1>1, NewBytes, InOrderConcat DEF WriteState
  <2>2. chunk => has
    BY <1>1
  <2>3. b = [v EXCEPT !.chunk = chunk, !.thrown = FALSE, !.hasEncrypt = has]
    BY <1>1, <1>3, ZenonT(60) DEF WriteChoke, WriteState
  <2>4. \E new \in Bytes : out = t.out \o new
    BY <2>1
  <2> HIDE DEF out, uploads, chunk, has
  <2>5. v \in WriteState
    BY <1>1, <2>1, Zenon DEF WriteState
  <2>6. /\ v.cipher = t.cipher /\ v.sent = t.sent /\ v.up = t.up /\ v.encrypt = t.encrypt
        /\ v.misread = t.misread /\ v.last = "choke" /\ v.out = out /\ v.encryptEnd = t.encryptEnd
    BY <1>1 DEF WriteState
  <2> HIDE DEF v
  <2>7. b \in WriteState
    BY <2>1, <2>3, <2>5, ZenonT(60) DEF WriteState
  <2>8. /\ b.cipher = t.cipher /\ b.sent = t.sent /\ b.up = t.up /\ b.encrypt = t.encrypt
        /\ b.misread = t.misread /\ b.last = "choke" /\ b.out = out /\ b.encryptEnd = t.encryptEnd
        /\ b.chunk = chunk /\ b.hasEncrypt = has /\ b.thrown = FALSE
    BY <2>3, <2>5, <2>6 DEF WriteState
  <2> HIDE DEF b
  <2>9. Filled(t, b)
    BY <1>1, <2>2, <2>4, <2>7, <2>8, Zenon DEF Filled
  <2> QED BY <1>3, <2>8, <2>9 DEF b
<1> QED BY <1>2, <1>3

\* An extension or a piece is announced, or nothing is added.
LEMMA BodyFills ==
  ASSUME NEW t, NEW c, Filled(t, c), t \in WriteState
  PROVE  /\ Filled(t, WriteBody(c))
         /\ IF c.pending \/ (~c.choked /\ c.uploads > 0) THEN Announced(WriteBody(c))
            ELSE WriteBody(c) = c
<1> DEFINE b == WriteBody(c)
           out == c.out \o Plain(1)
<1>1. c \in WriteState
  BY DEF Filled
<1>2. Plain(1) \in Bytes /\ Plain(ExtLen) \in Bytes /\ Len(Plain(ExtLen)) = ExtLen
  BY NewBytes, WriteAssumption
<1>3. out \in Bytes /\ \E new \in Bytes : out = t.out \o new
  <2>1. PICK new \in Bytes : c.out = t.out \o new
    BY DEF Filled
  <2>2. out = t.out \o (new \o Plain(1)) /\ new \o Plain(1) \in Bytes /\ out \in Bytes
    <3>1. t.out \in Bytes
      BY DEF WriteState
    <3>2. new \o Plain(1) \in Bytes /\ t.out \o (new \o Plain(1)) \in Bytes
      BY <1>2, <3>1, InOrderConcat
    <3> DEFINE p == Plain(1)
    <3>3. p \in Bytes
      BY <1>2
    <3> HIDE DEF p
    <3>4. (t.out \o new) \o p = t.out \o (new \o p)
      BY <3>1, <3>3, ConcatThree, Zenon
    <3> QED BY <3>2, <3>4, <2>1, Zenon DEF p
  <2> QED BY <2>2, Zenon
<1>4. CASE c.pending
  <2> DEFINE ext == Plain(ExtLen)
             zero == 0
             v == [c EXCEPT !.pending = FALSE, !.last = "extension", !.out = out]
  <2>1. b = [v EXCEPT !.ext = ext, !.extPlain = TRUE, !.extOffset = zero]
    BY <1>1, <1>4 DEF WriteBody, WritePrepareExtension, WriteState
  <2>z. zero \in Nat /\ zero = 0
    OBVIOUS
  <2> HIDE DEF out, ext, zero
  <2>2. v \in WriteState
    BY <1>1, <1>3, Zenon DEF WriteState
  <2>3. /\ v.cipher = c.cipher /\ v.sent = c.sent /\ v.up = c.up /\ v.encrypt = c.encrypt
        /\ v.misread = c.misread /\ v.last = "extension" /\ v.out = out /\ v.chunk = c.chunk
        /\ v.hasEncrypt = c.hasEncrypt /\ v.thrown = c.thrown /\ v.encryptEnd = c.encryptEnd
    BY <1>1 DEF WriteState
  <2> HIDE DEF v
  <2>4. ext \in Bytes /\ Len(ext) = ExtLen
    BY <1>2 DEF ext
  <2>5. b \in WriteState
    BY <2>1, <2>2, <2>4, <2>z, ZenonT(60) DEF WriteState
  <2>6. /\ b.cipher = c.cipher /\ b.sent = c.sent /\ b.up = c.up /\ b.encrypt = c.encrypt
        /\ b.misread = c.misread /\ b.last = "extension" /\ b.out = out /\ b.chunk = c.chunk
        /\ b.hasEncrypt = c.hasEncrypt /\ b.thrown = c.thrown /\ b.encryptEnd = c.encryptEnd
        /\ b.ext = ext /\ b.extPlain = TRUE /\ b.extOffset = 0
    BY <2>1, <2>2, <2>3, <2>z DEF WriteState
  <2> HIDE DEF b
  <2>7. Filled(t, b)
    BY <1>3, <2>5, <2>6, SMTT(60) DEF Filled
  <2>8. Announced(b)
    BY <2>4, <2>6 DEF Announced
  <2> QED BY <1>4, <2>7, <2>8 DEF b
<1>5. CASE ~c.pending /\ ~c.choked /\ c.uploads > 0
  <2> DEFINE uploads == c.uploads - 1
             zero == 0
             v == [c EXCEPT !.uploads = uploads, !.last = "piece", !.out = out]
  <2>1. b = [v EXCEPT !.offset = zero, !.length = PieceLen]
    BY <1>1, <1>5 DEF WriteBody, WritePreparePiece, WriteState
  <2>2. uploads \in Nat
    <3>1. c.uploads \in Nat
      BY <1>1 DEF WriteState
    <3> QED BY <3>1, <1>5
  <2>z. zero \in Nat /\ zero = 0
    OBVIOUS
  <2> HIDE DEF out, uploads, zero
  <2>3. v \in WriteState
    BY <1>1, <1>3, <2>2, Zenon DEF WriteState
  <2>4. /\ v.cipher = c.cipher /\ v.sent = c.sent /\ v.up = c.up /\ v.encrypt = c.encrypt
        /\ v.misread = c.misread /\ v.last = "piece" /\ v.out = out /\ v.chunk = c.chunk
        /\ v.hasEncrypt = c.hasEncrypt /\ v.thrown = c.thrown /\ v.encryptEnd = c.encryptEnd
    BY <1>1 DEF WriteState
  <2> HIDE DEF v
  <2>5. b \in WriteState
    BY <2>1, <2>3, <2>z, WriteAssumption, ZenonT(60) DEF WriteState
  <2>6. /\ b.cipher = c.cipher /\ b.sent = c.sent /\ b.up = c.up /\ b.encrypt = c.encrypt
        /\ b.misread = c.misread /\ b.last = "piece" /\ b.out = out /\ b.chunk = c.chunk
        /\ b.hasEncrypt = c.hasEncrypt /\ b.thrown = c.thrown /\ b.encryptEnd = c.encryptEnd
        /\ b.offset = 0 /\ b.length = PieceLen
    BY <2>1, <2>3, <2>4, <2>z DEF WriteState
  <2> HIDE DEF b
  <2>7. Filled(t, b)
    BY <1>3, <2>5, <2>6, SMTT(60) DEF Filled
  <2>8. Announced(b)
    BY <2>6 DEF Announced
  <2> QED BY <1>5, <2>7, <2>8 DEF b
<1>6. CASE ~c.pending /\ ~(~c.choked /\ c.uploads > 0)
  <2>1. b = c
    BY <1>6 DEF WriteBody
  <2> QED BY <1>6, <2>1
<1> QED BY <1>4, <1>5, <1>6

\* fill_write_buffer() encrypts exactly what it added.
LEMMA FillPreserves ==
  ASSUME WriteInv(ws), Fill
  PROVE  WriteInv(ws')
<1> DEFINE c == WriteChoke(ws)
           b == WriteBody(c)
           old == Len(ws.out)
<1>1. /\ ws.up = "idle" /\ ws \in WriteState
      /\ InCipher(ws.out, ws.sent) /\ ws.sent + Len(ws.out) = ws.cipher
      /\ ws.out # <<>> => ws.last = "keepalive"
      /\ ws.sendChoked \/ ws.pending \/ (~ws.choked /\ ws.uploads > 0) \/ ws.out # <<>>
  BY DEF Fill, WriteInv, BufferInv
<1>2. Filled(ws, c) /\ (ws.sendChoked => c.last = "choke") /\ (~ws.sendChoked => c = ws)
  BY <1>1, ChokeFills
<1>3. /\ Filled(ws, b)
      /\ IF c.pending \/ (~c.choked /\ c.uploads > 0) THEN Announced(b) ELSE b = c
  BY <1>1, <1>2, BodyFills
<1>4. ws' = [EncryptTail(b, old) EXCEPT !.up = "msg"]
  BY DEF Fill, FillWriteBuffer
<1>5. Announced(b)
  <2>1. CASE c.pending \/ (~c.choked /\ c.uploads > 0)
    BY <2>1, <1>3
  <2>2. CASE ~(c.pending \/ (~c.choked /\ c.uploads > 0))
    <3>1. b = c /\ c.last \in {"choke", "keepalive"}
      BY <2>2, <1>1, <1>2, <1>3
    <3> QED BY <3>1 DEF Announced
  <2> QED BY <2>1, <2>2
<1> HIDE DEF c, b
<1>6. PICK new \in Bytes : b.out = ws.out \o new
  BY <1>3, SMTT(60) DEF Filled
<1>7. /\ b \in WriteState /\ b.cipher = ws.cipher /\ b.sent = ws.sent
      /\ b.encrypt = <<>> /\ ~b.misread /\ ~b.thrown /\ (b.chunk => b.hasEncrypt)
      /\ b.encryptEnd <= EncryptSize
  BY <1>3 DEF Filled
<1>8. /\ old \in Nat /\ ws.out \in Bytes /\ b.out \in Bytes /\ Len(b.out) = old + Len(new)
      /\ SubSeq(b.out, 1, old) = ws.out /\ SubSeq(b.out, old + 1, Len(b.out)) = new
  <2>1. ws.out \in Bytes /\ b.out \in Bytes
    BY <1>1, <1>7 DEF WriteState
  <2>2. old \in Nat /\ Len(b.out) = old + Len(new)
    BY <2>1, <1>6 DEF Bytes
  <2>3. /\ SubSeq(ws.out \o new, 1, Len(ws.out)) = ws.out
        /\ SubSeq(ws.out \o new, Len(ws.out) + 1, Len(ws.out \o new)) = new
    BY <2>1, ConcatCut, Zenon
  <2> QED BY <2>1, <2>2, <2>3, <1>6, Zenon
<1> DEFINE enc == Encrypted(b, new)
           out == ws.out \o enc
           cipher == ws.cipher + Len(new)
<1>9. enc \in Bytes /\ Len(enc) = Len(new) /\ InCipher(enc, ws.cipher)
  <2>1. b.cipher \in Nat
    BY <1>7 DEF WriteState
  <2> QED BY <2>1, <1>7, EncryptedInOrder
<1>10. /\ out \in Bytes /\ Len(out) = Len(ws.out) + Len(new) /\ InCipher(out, ws.sent)
       /\ cipher \in Nat /\ ws.sent + Len(out) = cipher
  <2> HIDE DEF enc
  <2>1. ws.sent \in Nat /\ Len(new) \in Nat /\ Len(ws.out) \in Nat
    BY <1>1, <1>8 DEF WriteState, Bytes
  <2>2. /\ out \in Bytes /\ Len(out) = Len(ws.out) + Len(enc)
        /\ InCipher(ws.out, ws.sent) /\ InCipher(enc, ws.sent + Len(ws.out)) => InCipher(out, ws.sent)
    BY <2>1, <1>8, <1>9, InOrderConcat, Zenon
  <2> HIDE DEF out
  <2>3. InCipher(ws.out, ws.sent) /\ ws.cipher = ws.sent + Len(ws.out)
    BY <1>1
  <2> QED BY <2>1, <2>2, <2>3, <1>9, SMTT(60)
<1>11. EncryptTail(b, old) = [b EXCEPT !.out = out, !.cipher = cipher]
  <2>1. b.cipher + Len(b.out) - old = cipher
    BY <1>1, <1>7, <1>8 DEF WriteState
  <2> QED BY <1>8, <2>1, Zenon DEF EncryptTail
<1> HIDE DEF enc, out, cipher
<1>12. ws' = [b EXCEPT !.out = out, !.cipher = cipher, !.up = "msg"]
  BY <1>4, <1>7, <1>11 DEF WriteState
<1>13. ws' \in WriteState
  BY <1>7, <1>10, <1>12, Zenon DEF WriteState
<1>14. /\ ws'.out = out /\ ws'.cipher = cipher /\ ws'.up = "msg" /\ ws'.sent = ws.sent
       /\ ws'.encrypt = <<>> /\ ws'.misread = b.misread /\ ws'.thrown = b.thrown
       /\ ws'.chunk = b.chunk /\ ws'.hasEncrypt = b.hasEncrypt /\ ws'.last = b.last
       /\ ws'.offset = b.offset /\ ws'.length = b.length /\ ws'.ext = b.ext
       /\ ws'.extPlain = b.extPlain /\ ws'.extOffset = b.extOffset /\ ws'.encryptEnd = b.encryptEnd
  BY <1>7, <1>12 DEF WriteState
<1>15. Announced(ws')
  BY <1>5, <1>14 DEF Announced
<1>16. BufferInv(ws')
  BY <1>7, <1>10, <1>14, <1>15 DEF BufferInv
<1> QED BY <1>7, <1>13, <1>14, <1>16 DEF WriteInv

-----------------------------------------------------------------------------
(* event_write() and what happens in between.                              *)

\* Bytes that come next in the stream are not misread.
LEMMA WireKeeps ==
  ASSUME NEW t \in WriteState, NEW bytes \in Bytes, InCipher(bytes, t.sent), ~t.misread
  PROVE  /\ OnWire(t, bytes) = [t EXCEPT !.sent = t.sent + Len(bytes), !.misread = FALSE]
         /\ t.sent + Len(bytes) \in Nat
<1>1. (t.misread \/ \E i \in 1..Len(bytes) : bytes[i].c # t.sent + i) = FALSE
  BY DEF InCipher
<1>2. t.sent \in Nat /\ Len(bytes) \in Nat
  BY DEF WriteState, Bytes
<1> DEFINE sent == t.sent + Len(bytes)
           bad == t.misread \/ \E i \in 1..Len(bytes) : bytes[i].c # t.sent + i
<1>3. OnWire(t, bytes) = [t EXCEPT !.sent = sent, !.misread = bad]
  BY DEF OnWire, WriteState
<1>4. bad = FALSE
  BY <1>1
<1>5. [t EXCEPT !.sent = sent, !.misread = bad] = [t EXCEPT !.sent = sent, !.misread = FALSE]
  BY <1>4, Zenon
<1>6. sent \in Nat
  BY <1>2
<1> HIDE DEF bad
<1> QED BY <1>3, <1>5, <1>6

\* A part of the message is written; after its end comes what it announced.
LEMMA FlushPreserves ==
  ASSUME WriteInv(ws), NEW n \in Nat, Flush(n)
  PROVE  WriteInv(ws')
<1> DEFINE head == SubSeq(ws.out, 1, n)
           rest == SubSeq(ws.out, n + 1, Len(ws.out))
           sent == ws.sent + n
           w == [ws EXCEPT !.sent = sent, !.misread = FALSE, !.out = rest]
<1>1. /\ ws \in WriteState /\ ws.up = "msg" /\ n \in 1..Len(ws.out) /\ InCipher(ws.out, ws.sent)
      /\ ws.sent + Len(ws.out) = ws.cipher /\ ws.encrypt = <<>> /\ Announced(ws)
      /\ ws.encryptEnd <= EncryptSize /\ (ws.chunk => ws.hasEncrypt) /\ ~ws.misread /\ ~ws.thrown
  BY DEF Flush, WriteInv, BufferInv
<1>2. ws.out \in Bytes /\ ws.sent \in Nat /\ Len(ws.out) \in Nat
  BY <1>1 DEF WriteState, Bytes
<1>3. /\ head \in Bytes /\ Len(head) = n /\ rest \in Bytes /\ Len(rest) = Len(ws.out) - n
      /\ InCipher(head, ws.sent) /\ InCipher(rest, ws.sent + n)
  BY <1>1, <1>2, InOrderCut, SMTT(60)
<1> HIDE DEF head
<1>4. OnWire(ws, head) = [ws EXCEPT !.sent = sent, !.misread = FALSE] /\ sent \in Nat
  BY <1>1, <1>3, WireKeeps, Zenon
<1>5. w = [OnWire(ws, SubSeq(ws.out, 1, n)) EXCEPT !.out = SubSeq(@, n + 1, Len(@))]
  BY <1>1, <1>4, Zenon DEF WriteState, head
<1>6. ws' = IF w.out # <<>> THEN w
            ELSE CASE w.last = "piece" -> [LoadUpChunk(w) EXCEPT !.up = "piece"]
                   [] w.last = "extension" -> [w EXCEPT !.up = "ext"]
                   [] OTHER -> [w EXCEPT !.up = "idle"]
  BY <1>5, Zenon DEF Flush
<1>7. InCipher(rest, sent) /\ sent + Len(rest) = ws.cipher /\ (rest = <<>> => sent = ws.cipher)
  <2>1. rest = <<>> => Len(rest) = 0
    BY <1>3, Zenon DEF Bytes
  <2> HIDE DEF rest
  <2> QED BY <1>1, <1>2, <1>3, <2>1
<1> HIDE DEF rest, sent
<1>8. w \in WriteState
  BY <1>1, <1>3, <1>4, Zenon DEF WriteState
<1>9. /\ w.sent = sent /\ w.misread = FALSE /\ w.out = rest /\ w.cipher = ws.cipher /\ w.up = "msg"
      /\ w.last = ws.last /\ w.encrypt = <<>> /\ w.encryptEnd = ws.encryptEnd /\ w.chunk = ws.chunk
      /\ w.hasEncrypt = ws.hasEncrypt /\ w.thrown = ws.thrown /\ w.offset = ws.offset
      /\ w.length = ws.length /\ w.ext = ws.ext /\ w.extPlain = ws.extPlain
      /\ w.extOffset = ws.extOffset
  BY <1>1 DEF WriteState
<1> HIDE DEF w
<1>10. CASE rest # <<>>
  <2>1. ws' = w
    BY <1>6, <1>9, <1>10
  <2>2. Announced(w)
    BY <1>1, <1>9 DEF Announced
  <2> QED BY <2>1, <2>2, <1>1, <1>7, <1>8, <1>9 DEF WriteInv, BufferInv
<1>11. CASE rest = <<>> /\ ws.last = "piece"
  <2> DEFINE encrypt == IF w.hasEncrypt THEN w.encrypt ELSE <<>>
             end == IF w.hasEncrypt THEN w.encryptEnd ELSE 0
             u == IF w.chunk THEN w
                  ELSE [w EXCEPT !.chunk = TRUE, !.hasEncrypt = TRUE, !.encrypt = encrypt, !.encryptEnd = end]
  <2>1. ws' = [u EXCEPT !.up = "piece"]
    BY <1>6, <1>9, <1>11 DEF LoadUpChunk
  <2>2. encrypt = <<>> /\ encrypt \in Bytes /\ end \in Nat /\ end <= EncryptSize
    <3>1. w.encryptEnd \in Nat
      BY <1>8 DEF WriteState
    <3> QED BY <3>1, <1>1, <1>9, WriteAssumption DEF Bytes
  <2> HIDE DEF encrypt, end
  <2>3. u \in WriteState
    <3>1. CASE w.chunk
      BY <3>1, <1>8
    <3>2. CASE ~w.chunk
      BY <3>2, <2>2, <1>8, Zenon DEF WriteState
    <3> QED BY <3>1, <3>2
  <2>4. /\ u.sent = sent /\ u.misread = FALSE /\ u.out = rest /\ u.cipher = ws.cipher
        /\ u.encrypt = <<>> /\ u.encryptEnd <= EncryptSize /\ u.hasEncrypt /\ u.thrown = ws.thrown
        /\ u.offset = ws.offset /\ u.length = ws.length
    BY <2>2, <1>1, <1>8, <1>9 DEF WriteState
  <2> HIDE DEF u
  <2>5. ws' \in WriteState
    BY <2>1, <2>3 DEF WriteState
  <2>6. /\ ws'.up = "piece" /\ ws'.sent = sent /\ ws'.misread = FALSE /\ ws'.out = rest
        /\ ws'.cipher = ws.cipher /\ ws'.encrypt = <<>> /\ ws'.encryptEnd <= EncryptSize
        /\ ws'.hasEncrypt /\ ws'.thrown = ws.thrown /\ ws'.offset = 0 /\ ws'.length = PieceLen
    BY <2>1, <2>3, <2>4, <1>1, <1>11 DEF WriteState, Announced
  <2>7. Len(<<>>) = 0 /\ \A k : InCipher(<<>>, k) /\ InPiece(<<>>, k)
    BY DEF InCipher, InPiece
  <2>8. BufferInv(ws')
    BY <2>6, <2>7, <1>4, <1>7, <1>11, WriteAssumption DEF BufferInv
  <2> QED BY <2>5, <2>6, <2>8, <1>1 DEF WriteInv
<1>12. CASE rest = <<>> /\ ws.last = "extension"
  <2>1. ws' = [w EXCEPT !.up = "ext"]
    BY <1>6, <1>9, <1>12
  <2>2. ws' \in WriteState
    BY <2>1, <1>8 DEF WriteState
  <2>3. /\ ws'.up = "ext" /\ ws'.sent = sent /\ ws'.misread = FALSE /\ ws'.out = rest
        /\ ws'.cipher = ws.cipher /\ ws'.encrypt = <<>> /\ ws'.encryptEnd = ws.encryptEnd
        /\ ws'.chunk = ws.chunk /\ ws'.hasEncrypt = ws.hasEncrypt /\ ws'.thrown = ws.thrown
        /\ ws'.ext = ws.ext /\ ws'.extPlain = ws.extPlain /\ ws'.extOffset = ws.extOffset
    BY <2>1, <1>8, <1>9 DEF WriteState
  <2>4. BufferInv(ws')
    BY <2>3, <1>1, <1>7, <1>12, WriteAssumption DEF BufferInv, Announced
  <2> QED BY <2>2, <2>3, <2>4, <1>1 DEF WriteInv
<1>13. CASE rest = <<>> /\ ws.last \notin {"piece", "extension"}
  <2>1. ws' = [w EXCEPT !.up = "idle"]
    BY <1>6, <1>9, <1>13
  <2>2. ws' \in WriteState
    BY <2>1, <1>8 DEF WriteState
  <2>3. /\ ws'.up = "idle" /\ ws'.sent = sent /\ ws'.misread = FALSE /\ ws'.out = rest
        /\ ws'.cipher = ws.cipher /\ ws'.encrypt = <<>> /\ ws'.encryptEnd = ws.encryptEnd
        /\ ws'.chunk = ws.chunk /\ ws'.hasEncrypt = ws.hasEncrypt /\ ws'.thrown = ws.thrown
    BY <2>1, <1>8, <1>9 DEF WriteState
  <2>4. BufferInv(ws')
    BY <2>3, <1>1, <1>7, <1>13 DEF BufferInv
  <2> QED BY <2>2, <2>3, <2>4, <1>1 DEF WriteInv
<1> QED BY <1>10, <1>11, <1>12, <1>13

\* receive_keepalive() of an idle connection adds to the end of the stream.
LEMMA KeepalivePreserves ==
  ASSUME WriteInv(ws), Keepalive
  PROVE  WriteInv(ws')
<1> DEFINE enc == Encrypted(ws, Plain(1))
           out == ws.out \o enc
           cipher == ws.cipher + 1
           left == ws.left - 1
<1>1. ws' = [ws EXCEPT !.out = out, !.cipher = cipher, !.last = "keepalive", !.left = left]
  BY DEF Keepalive, Spend, WriteInv, WriteState
<1>2. /\ ws \in WriteState /\ ws.up = "idle" /\ InCipher(ws.out, ws.sent) /\ ws.left > 0
      /\ ws.sent + Len(ws.out) = ws.cipher /\ ws.encrypt = <<>> /\ ~ws.misread /\ ~ws.thrown
      /\ ws.encryptEnd <= EncryptSize /\ (ws.chunk => ws.hasEncrypt)
  BY DEF Keepalive, WriteInv, BufferInv
<1>3. ws.out \in Bytes /\ ws.sent \in Nat /\ ws.cipher \in Nat /\ ws.left \in Nat
  BY <1>2 DEF WriteState
<1>4. Len(ws.out) \in Nat
  BY <1>3 DEF Bytes
<1>5. enc \in Bytes /\ Len(enc) = 1 /\ InCipher(enc, ws.cipher)
  BY <1>3, NewBytes, EncryptedInOrder, Zenon
<1> HIDE DEF enc
<1>6. out \in Bytes /\ Len(out) = Len(ws.out) + 1 /\ InCipher(out, ws.sent)
  BY <1>2, <1>3, <1>4, <1>5, InOrderConcat, ZenonT(60)
<1> HIDE DEF out
<1>7. cipher \in Nat /\ left \in Nat /\ ws.sent + Len(out) = cipher
  <2>1. cipher \in Nat /\ left \in Nat
    BY <1>2, <1>3, SMTT(60)
  <2>2. ws.sent + (Len(ws.out) + 1) = ws.cipher + 1
    BY <1>2, <1>3, <1>4
  <2> QED BY <2>1, <2>2, <1>6
<1> HIDE DEF cipher, left
<1>8. ws' \in WriteState
  BY <1>1, <1>2, <1>6, <1>7, Zenon DEF WriteState
<1>9. /\ ws'.out = out /\ ws'.cipher = cipher /\ ws'.last = "keepalive" /\ ws'.up = ws.up
      /\ ws'.sent = ws.sent /\ ws'.encrypt = ws.encrypt /\ ws'.misread = ws.misread
      /\ ws'.thrown = ws.thrown /\ ws'.encryptEnd = ws.encryptEnd /\ ws'.chunk = ws.chunk
      /\ ws'.hasEncrypt = ws.hasEncrypt
  BY <1>1, <1>2 DEF WriteState
<1>10. BufferInv(ws')
  BY <1>2, <1>6, <1>7, <1>9 DEF BufferInv
<1> QED BY <1>2, <1>8, <1>9, <1>10 DEF WriteInv

\* Choke decisions, requests and extension messages wait for fill_write_buffer().
LEMMA EventsPreserve ==
  ASSUME WriteInv(ws), ReceiveUploadChoke \/ ReadRequestPiece \/ ExtensionPending
  PROVE  WriteInv(ws')
<1> DEFINE left == ws.left - 1
           more == ws.uploads + 1
           turned == ~ws.choked
<1>1. ws \in WriteState /\ ws.left > 0
  BY DEF WriteInv, ReceiveUploadChoke, ReadRequestPiece, ExtensionPending
<1>2. left \in Nat /\ more \in Nat /\ turned \in BOOLEAN
  <2>1. ws.left \in Nat /\ ws.uploads \in Nat
    BY <1>1 DEF WriteState
  <2> QED BY <2>1, <1>1
<1>3. \/ ws' = [ws EXCEPT !.choked = turned, !.sendChoked = TRUE, !.left = left]
      \/ ws' = [ws EXCEPT !.uploads = more, !.left = left]
      \/ ws' = [ws EXCEPT !.pending = TRUE, !.left = left]
  BY <1>1 DEF ReceiveUploadChoke, ReadRequestPiece, ExtensionPending, Spend, WriteState
<1> HIDE DEF left, more, turned
<1>4. ws' \in WriteState
  <2>1. [ws EXCEPT !.choked = turned, !.sendChoked = TRUE, !.left = left] \in WriteState
    BY <1>1, <1>2, Zenon DEF WriteState
  <2>2. [ws EXCEPT !.uploads = more, !.left = left] \in WriteState
    BY <1>1, <1>2, Zenon DEF WriteState
  <2>3. [ws EXCEPT !.pending = TRUE, !.left = left] \in WriteState
    BY <1>1, <1>2, Zenon DEF WriteState
  <2> QED BY <1>3, <2>1, <2>2, <2>3
<1>5. /\ ws'.out = ws.out /\ ws'.cipher = ws.cipher /\ ws'.last = ws.last /\ ws'.up = ws.up
      /\ ws'.sent = ws.sent /\ ws'.encrypt = ws.encrypt /\ ws'.misread = ws.misread
      /\ ws'.thrown = ws.thrown /\ ws'.encryptEnd = ws.encryptEnd /\ ws'.chunk = ws.chunk
      /\ ws'.hasEncrypt = ws.hasEncrypt /\ ws'.offset = ws.offset /\ ws'.length = ws.length
      /\ ws'.ext = ws.ext /\ ws'.extPlain = ws.extPlain /\ ws'.extOffset = ws.extOffset
  BY <1>1, <1>3, ZenonT(60) DEF WriteState
<1>6. BufferInv(ws')
  BY <1>5 DEF WriteInv, BufferInv, Announced
<1> QED BY <1>4, <1>5, <1>6 DEF WriteInv

-----------------------------------------------------------------------------
(* up_chunk() and up_extension().                                          *)

\* up_chunk_encrypt() tops the encrypt buffer up with the piece's next bytes, never past
\* the end of the piece or of the buffer.
LEMMA TopUpKeeps ==
  ASSUME NEW t \in WriteState, NEW n \in Nat, InCipher(t.encrypt, t.sent),
         t.sent + Len(t.encrypt) = t.cipher, InPiece(t.encrypt, t.offset)
  PROVE  LET e == Topped(t, n, t.offset + Len(t.encrypt))
         IN  /\ e \in WriteState
             /\ \E enc \in Bytes, cipher, end \in Nat :
                  /\ e = [t EXCEPT !.encrypt = enc, !.cipher = cipher, !.encryptEnd = end]
                  /\ InCipher(enc, t.sent) /\ t.sent + Len(enc) = cipher
                  /\ InPiece(enc, t.offset) /\ Len(enc) = Len(t.encrypt) + n
                  /\ end = t.encryptEnd + n
<1> DEFINE from == t.offset + Len(t.encrypt)
           plain == PieceBytes(from, n)
           new == Encrypted(t, plain)
           enc == t.encrypt \o new
           cipher == t.cipher + n
           end == t.encryptEnd + n
<1>1. /\ t.encrypt \in Bytes /\ t.sent \in Nat /\ t.cipher \in Nat /\ t.offset \in Nat
      /\ t.encryptEnd \in Nat
  BY DEF WriteState
<1>2. Len(t.encrypt) \in Nat
  BY <1>1 DEF Bytes
<1>3. from \in Nat /\ cipher \in Nat /\ end \in Nat
  BY <1>1, <1>2, SMTT(60)
<1>4. plain \in Bytes /\ Len(plain) = n /\ InPiece(plain, from)
  BY <1>3, NewBytes
<1>5. /\ new \in Bytes /\ Len(new) = n /\ InCipher(new, t.cipher) /\ InPiece(new, from)
  <2> HIDE DEF plain, from
  <2> QED BY <1>1, <1>4, EncryptedInOrder, SMTT(60) DEF InPiece
<1>6. Topped(t, n, t.offset + Len(t.encrypt))
        = [t EXCEPT !.encrypt = enc, !.cipher = cipher, !.encryptEnd = end]
  BY DEF Topped, WriteState
<1> HIDE DEF new
<1>7. /\ enc \in Bytes /\ Len(enc) = Len(t.encrypt) + n /\ InCipher(enc, t.sent)
      /\ InPiece(enc, t.offset)
  BY <1>1, <1>5, InOrderConcat, Zenon
<1>8. t.sent + Len(enc) = cipher
  <2> HIDE DEF enc
  <2> QED BY <1>1, <1>2, <1>7, SMTT(60)
<1> HIDE DEF enc, cipher
<1>9. [t EXCEPT !.encrypt = enc, !.cipher = cipher, !.encryptEnd = end] \in WriteState
  <2> HIDE DEF end
  <2> QED BY <1>3, <1>7, Zenon DEF WriteState
<1> HIDE DEF end
<1> QED BY <1>3, <1>6, <1>7, <1>8, <1>9, Zenon DEF end

\* What up_chunk_encrypt() leaves in the buffer follows what was sent, in the stream and in
\* the piece, and fits in both.
LEMMA ChunkEncrypts ==
  ASSUME WriteInv(ws), ws.up = "piece", NEW quota \in Nat, quota <= ws.length
  PROVE  /\ UpChunkEncrypt(ws, quota) \in WriteState
         /\ \E enc \in Bytes, cipher, end \in Nat :
              /\ UpChunkEncrypt(ws, quota)
                   = [ws EXCEPT !.encrypt = enc, !.cipher = cipher, !.encryptEnd = end]
              /\ InCipher(enc, ws.sent) /\ ws.sent + Len(enc) = cipher
              /\ InPiece(enc, ws.offset) /\ Len(enc) <= ws.length /\ end <= EncryptSize
<1>1. /\ ws \in WriteState /\ InCipher(ws.encrypt, ws.sent) /\ InPiece(ws.encrypt, ws.offset)
      /\ ws.sent + Len(ws.encrypt) = ws.cipher /\ Len(ws.encrypt) <= ws.length
      /\ ws.encryptEnd <= EncryptSize
  BY DEF WriteInv, BufferInv
<1>2. /\ ws.encrypt \in Bytes /\ ws.length \in Nat /\ ws.encryptEnd \in Nat /\ ws.offset \in Nat
      /\ ws.cipher \in Nat /\ EncryptSize \in Nat
  BY <1>1, WriteAssumption DEF WriteState
<1>3. Len(ws.encrypt) \in Nat /\ (ws.encrypt = <<>> => Len(ws.encrypt) = 0)
  BY <1>2, SMTT(60) DEF Bytes
<1>4. CASE quota <= Len(ws.encrypt)
  <2>1. UpChunkEncrypt(ws, quota) = ws
    BY <1>4 DEF UpChunkEncrypt
  <2>2. ws = [ws EXCEPT !.encrypt = ws.encrypt, !.cipher = ws.cipher, !.encryptEnd = ws.encryptEnd]
    BY <1>1, Zenon DEF WriteState
  <2> QED BY <2>1, <2>2, <1>1, <1>2, Zenon
<1>5. CASE ~(quota <= Len(ws.encrypt)) /\ ws.encrypt = <<>>
  <2> DEFINE zero == 0
             v == [ws EXCEPT !.encryptEnd = zero]
             n == MinOf(quota, EncryptSize)
  <2>1. n \in Nat /\ n <= ws.length /\ n <= EncryptSize
    BY <1>2 DEF MinOf
  <2>2. UpChunkEncrypt(ws, quota) = Topped(v, n, ws.offset)
    BY <1>5 DEF UpChunkEncrypt
  <2>3. zero \in Nat /\ zero = 0
    OBVIOUS
  <2> HIDE DEF zero, n
  <2>4. v \in WriteState
    BY <1>1, <2>3, Zenon DEF WriteState
  <2>5. /\ v.encrypt = ws.encrypt /\ v.cipher = ws.cipher /\ v.encryptEnd = zero
        /\ v.sent = ws.sent /\ v.offset = ws.offset
    BY <1>1 DEF WriteState
  <2>10. \A enc, cipher, end :
           [v EXCEPT !.encrypt = enc, !.cipher = cipher, !.encryptEnd = end]
             = [ws EXCEPT !.encrypt = enc, !.cipher = cipher, !.encryptEnd = end]
    BY <1>1, ZenonT(60) DEF WriteState
  <2> HIDE DEF v
  <2>11. Len(v.encrypt) = 0
    BY <1>3, <1>5, <2>5
  <2>6. v.offset + Len(v.encrypt) = ws.offset
    BY <1>2, <2>11, <2>5
  <2>7. PICK enc \in Bytes, cipher, end \in Nat :
          /\ Topped(v, n, ws.offset) \in WriteState
          /\ Topped(v, n, ws.offset) = [v EXCEPT !.encrypt = enc, !.cipher = cipher, !.encryptEnd = end]
          /\ InCipher(enc, v.sent) /\ v.sent + Len(enc) = cipher
          /\ InPiece(enc, v.offset) /\ Len(enc) = Len(v.encrypt) + n
          /\ end = v.encryptEnd + n
    <3>1. /\ InCipher(v.encrypt, v.sent) /\ v.sent + Len(v.encrypt) = v.cipher
          /\ InPiece(v.encrypt, v.offset)
      BY <1>1, <2>5
    <3>2. LET x == Topped(v, n, v.offset + Len(v.encrypt))
          IN  /\ x \in WriteState
              /\ \E enc \in Bytes, cipher, end \in Nat :
                   /\ x = [v EXCEPT !.encrypt = enc, !.cipher = cipher, !.encryptEnd = end]
                   /\ InCipher(enc, v.sent) /\ v.sent + Len(enc) = cipher
                   /\ InPiece(enc, v.offset) /\ Len(enc) = Len(v.encrypt) + n
                   /\ end = v.encryptEnd + n
      BY <3>1, <2>1, <2>4, TopUpKeeps, Zenon
    <3> QED BY <3>2, <2>6, Zenon
  <2>8. Len(enc) = n /\ end = n
    BY <2>1, <2>3, <2>5, <2>7, <2>11
  <2>9. Len(enc) <= ws.length /\ end <= EncryptSize
    BY <2>1, <2>8
  <2>12. /\ UpChunkEncrypt(ws, quota) \in WriteState
         /\ UpChunkEncrypt(ws, quota)
              = [ws EXCEPT !.encrypt = enc, !.cipher = cipher, !.encryptEnd = end]
    BY <2>2, <2>7, <2>10, ZenonT(60)
  <2>13. InCipher(enc, ws.sent) /\ ws.sent + Len(enc) = cipher /\ InPiece(enc, ws.offset)
    BY <2>5, <2>7
  <2> QED BY <2>7, <2>9, <2>12, <2>13, Zenon
<1>6. CASE ~(quota <= Len(ws.encrypt)) /\ ws.encrypt # <<>>
  <2> DEFINE n == MinOf(quota - Len(ws.encrypt), EncryptSize - ws.encryptEnd)
  <2>1. n \in Nat /\ Len(ws.encrypt) + n <= ws.length /\ ws.encryptEnd + n <= EncryptSize
    BY <1>1, <1>2, <1>3, <1>6, SMTT(60) DEF MinOf
  <2>2. UpChunkEncrypt(ws, quota) = Topped(ws, n, ws.offset + Len(ws.encrypt))
    BY <1>6 DEF UpChunkEncrypt
  <2> HIDE DEF n
  <2>3. LET x == Topped(ws, n, ws.offset + Len(ws.encrypt))
        IN  /\ x \in WriteState
            /\ \E enc \in Bytes, cipher, end \in Nat :
                 /\ x = [ws EXCEPT !.encrypt = enc, !.cipher = cipher, !.encryptEnd = end]
                 /\ InCipher(enc, ws.sent) /\ ws.sent + Len(enc) = cipher
                 /\ InPiece(enc, ws.offset) /\ Len(enc) = Len(ws.encrypt) + n
                 /\ end = ws.encryptEnd + n
    BY <1>1, <2>1, TopUpKeeps, Zenon
  <2> QED BY <2>1, <2>2, <2>3, Zenon
<1> QED BY <1>4, <1>5, <1>6, Zenon

\* The socket takes a part of the encrypted bytes; the rest keeps its place.
LEMMA UpChunkPreserves ==
  ASSUME WriteInv(ws), NEW quota \in Nat, NEW n \in Nat, UpChunk(quota, n)
  PROVE  WriteInv(ws')
<1> DEFINE q == MinOf(quota, ws.length)
           e == UpChunkEncrypt(ws, q)
<1>1. /\ ws \in WriteState /\ ws.up = "piece" /\ ws.out = <<>> /\ ws.length > 0 /\ ws.hasEncrypt
      /\ ~ws.misread /\ ~ws.thrown /\ (ws.chunk => ws.hasEncrypt)
  BY DEF UpChunk, WriteInv, BufferInv
<1>2. ws.sent \in Nat /\ ws.length \in Nat /\ ws.offset \in Nat
  BY <1>1 DEF WriteState
<1>3. q \in Nat /\ q <= ws.length
  BY <1>2 DEF MinOf
<1>4. PICK enc \in Bytes, cipher, end \in Nat :
        /\ e \in WriteState
        /\ e = [ws EXCEPT !.encrypt = enc, !.cipher = cipher, !.encryptEnd = end]
        /\ InCipher(enc, ws.sent) /\ ws.sent + Len(enc) = cipher
        /\ InPiece(enc, ws.offset) /\ Len(enc) <= ws.length /\ end <= EncryptSize
  <2> HIDE DEF q
  <2> QED BY <1>1, <1>3, ChunkEncrypts, Zenon
<1> DEFINE w == SubSeq(e.encrypt, 1, n)
           wire == SubSeq(enc, 1, n)
           rest == SubSeq(enc, n + 1, Len(enc))
           sent == ws.sent + n
           offset == ws.offset + n
           length == ws.length - n
           up == IF ws.length = n THEN "idle" ELSE "piece"
           misplaced == \E i \in 1..n : wire[i].d # ws.offset + i
<1>5. /\ n <= Len(e.encrypt)
      /\ ws' = [OnWire(e, w)
                 EXCEPT !.encrypt = SubSeq(@, n + 1, Len(@)),
                        !.offset = @ + n, !.length = @ - n,
                        !.misread = @ \/ \E i \in 1..n : w[i].d # ws.offset + i,
                        !.thrown = @ \/ ~ws.hasEncrypt,
                        !.up = IF ws.length = n THEN "idle" ELSE "piece"]
  BY DEF UpChunk
<1> HIDE DEF q, e
<1>6. /\ e.encrypt = enc /\ e.sent = ws.sent /\ e.misread = ws.misread /\ e.offset = ws.offset
      /\ e.length = ws.length /\ e.thrown = ws.thrown
  BY <1>1, <1>4 DEF WriteState
<1>7. /\ Len(enc) \in Nat /\ n \in 0..Len(enc)
  BY <1>5, <1>6 DEF Bytes
<1>8. /\ wire \in Bytes /\ Len(wire) = n /\ rest \in Bytes /\ Len(rest) = Len(enc) - n
      /\ InCipher(wire, ws.sent) /\ InCipher(rest, ws.sent + n)
      /\ InPiece(wire, ws.offset) /\ InPiece(rest, ws.offset + n)
  BY <1>2, <1>4, <1>7, InOrderCut, SMTT(60)
<1>9. w = wire
  BY <1>6
<1>10. OnWire(e, w) = [e EXCEPT !.sent = sent, !.misread = FALSE] /\ sent \in Nat
  <2>1. InCipher(w, e.sent) /\ w \in Bytes /\ ~e.misread /\ e \in WriteState
    BY <1>1, <1>4, <1>6, <1>8, <1>9, Zenon
  <2>2. e.sent + Len(w) = sent
    BY <1>6, <1>8, <1>9, Zenon
  <2> HIDE DEF wire, w, sent
  <2> QED BY <2>1, <2>2, WireKeeps, Zenon
<1>11. ~misplaced
  BY <1>8 DEF InPiece
<1> DEFINE v == [e EXCEPT !.sent = sent, !.misread = FALSE]
           bad == v.misread \/ \E i \in 1..n : w[i].d # ws.offset + i
           none == v.thrown \/ ~ws.hasEncrypt
<1>12. /\ offset \in Nat /\ length \in Nat /\ sent + Len(rest) = cipher
       /\ Len(rest) <= length /\ (ws.length = n => Len(rest) = 0)
       /\ (ws.length # n => length > 0)
  <2> DEFINE all == Len(enc)
             left == Len(rest)
  <2>1. /\ all \in Nat /\ n \in 0..all /\ all <= ws.length /\ ws.sent + all = cipher
        /\ left = all - n
    BY <1>4, <1>7, <1>8
  <2> HIDE DEF all, left, rest
  <2>2. /\ offset \in Nat /\ length \in Nat /\ sent + left = cipher
        /\ left <= length /\ (ws.length = n => left = 0)
        /\ (ws.length # n => length > 0)
    BY <1>2, <2>1
  <2> QED BY <2>2 DEF left
<1> HIDE DEF sent, offset, length
<1>13. v \in WriteState
  <2>1. e \in WriteState /\ sent \in Nat
    BY <1>4, <1>10
  <2> QED BY <2>1, Zenon DEF WriteState
<1>14. /\ v.sent = sent /\ v.misread = FALSE /\ v.encrypt = enc /\ v.cipher = cipher
       /\ v.encryptEnd = end /\ v.out = ws.out /\ v.offset = ws.offset /\ v.length = ws.length
       /\ v.thrown = ws.thrown /\ v.hasEncrypt = ws.hasEncrypt /\ v.chunk = ws.chunk
  BY <1>1, <1>4, ZenonT(60) DEF WriteState
<1>15. ws' = [v EXCEPT !.encrypt = rest, !.offset = offset, !.length = length,
                       !.misread = bad, !.thrown = none, !.up = up]
  <2>1. OnWire(e, w) = v
    BY <1>10
  <2> HIDE DEF v, w
  <2>2. ws' = [v EXCEPT !.encrypt = SubSeq(v.encrypt, n + 1, Len(v.encrypt)),
                        !.offset = v.offset + n, !.length = v.length - n,
                        !.misread = bad, !.thrown = none, !.up = up]
    BY <1>5, <2>1, <1>13, Zenon DEF bad, none, up
  <2> HIDE DEF bad, none, up
  <2> QED BY <2>2, <1>14 DEF offset, length, rest
<1> HIDE DEF v
<1>16. bad = FALSE /\ none = FALSE
  <2>1. ~bad
    <3> HIDE DEF w, wire
    <3> QED BY <1>9, <1>11, <1>14
  <2>2. ~none
    BY <1>1, <1>14
  <2> QED BY <2>1, <2>2
<1> HIDE DEF bad, none, w, wire, rest
<1>17. up \in {"idle", "piece"} /\ (up = "idle" <=> ws.length = n)
  OBVIOUS
<1> HIDE DEF up
<1> DEFINE x == [v EXCEPT !.encrypt = rest, !.offset = offset, !.length = length]
<1>18. x \in WriteState
  BY <1>8, <1>12, <1>13, Zenon DEF WriteState
<1>19. /\ x.sent = sent /\ x.cipher = cipher /\ x.encrypt = rest /\ x.offset = offset
       /\ x.length = length /\ x.out = ws.out /\ x.encryptEnd = end
       /\ x.hasEncrypt = ws.hasEncrypt /\ x.chunk = ws.chunk
  BY <1>13, <1>14 DEF WriteState
<1>20. ws' = [x EXCEPT !.misread = FALSE, !.thrown = FALSE, !.up = up]
  <2>1. ws' = [x EXCEPT !.misread = bad, !.thrown = none, !.up = up]
    BY <1>13, <1>15 DEF WriteState
  <2> QED BY <2>1, <1>16, Zenon
<1> HIDE DEF x
<1>21. ws' \in WriteState
  BY <1>17, <1>18, <1>20, ZenonT(60) DEF WriteState
<1>22. /\ ws'.sent = sent /\ ws'.cipher = cipher /\ ws'.encrypt = rest /\ ws'.offset = offset
       /\ ws'.length = length /\ ws'.out = ws.out /\ ws'.encryptEnd = end /\ ws'.up = up
       /\ ws'.hasEncrypt = ws.hasEncrypt /\ ws'.chunk = ws.chunk
       /\ ws'.misread = FALSE /\ ws'.thrown = FALSE
  BY <1>18, <1>19, <1>20 DEF WriteState
<1>23. Len(rest) = 0 => rest = <<>>
  BY <1>8 DEF Bytes
<1>24. InCipher(rest, sent) /\ InPiece(rest, offset)
  BY <1>8 DEF sent, offset
<1>25. InCipher(<<>>, sent) /\ Len(<<>>) = 0 /\ (Len(rest) = 0 => sent = cipher)
  BY <1>10, <1>12 DEF InCipher
<1>26. BufferInv(ws')
  <2>1. CASE up = "idle"
    BY <2>1, <1>1, <1>4, <1>10, <1>12, <1>17, <1>22, <1>23, <1>25 DEF BufferInv
  <2>2. CASE up = "piece"
    BY <2>2, <1>1, <1>4, <1>12, <1>17, <1>22, <1>24 DEF BufferInv
  <2> QED BY <2>1, <2>2, <1>17
<1> QED BY <1>21, <1>22, <1>26 DEF WriteInv

\* up_extension() encrypts the message once, before its first byte, and sends it in order.
LEMMA UpExtensionPreserves ==
  ASSUME WriteInv(ws), NEW n \in Nat, UpExtension(n)
  PROVE  WriteInv(ws')
<1> DEFINE e == ExtEncrypted(ws)
           part == SubSeq(e.ext, e.extOffset + 1, e.extOffset + n)
<1>1. /\ ws \in WriteState /\ ws.up = "ext" /\ n \in 0..(Len(ws.ext) - ws.extOffset)
      /\ ws.out = <<>> /\ ws.encrypt = <<>> /\ ws.extOffset < Len(ws.ext)
      /\ ws.encryptEnd <= EncryptSize /\ (ws.chunk => ws.hasEncrypt) /\ ~ws.misread /\ ~ws.thrown
  BY DEF UpExtension, WriteInv, BufferInv
<1>2. /\ ws.ext \in Bytes /\ ws.sent \in Nat /\ ws.cipher \in Nat /\ ws.extOffset \in Nat
  BY <1>1 DEF WriteState
<1>3. Len(ws.ext) \in Nat
  BY <1>2 DEF Bytes
<1>4. PICK ext \in Bytes, cipher \in Nat :
        /\ e = [ws EXCEPT !.ext = ext, !.cipher = cipher, !.extPlain = FALSE]
        /\ Len(ext) = Len(ws.ext) /\ ws.sent + Len(ext) - ws.extOffset = cipher
        /\ \A i \in 1..(Len(ext) - ws.extOffset) : ext[ws.extOffset + i].c = ws.sent + i
  <2>1. CASE ~ws.extPlain
    <3>1. /\ ws.sent + Len(ws.ext) - ws.extOffset = ws.cipher
          /\ \A i \in 1..(Len(ws.ext) - ws.extOffset) : ws.ext[ws.extOffset + i].c = ws.sent + i
      BY <2>1, <1>1 DEF WriteInv, BufferInv
    <3>2. e = ws /\ ws.extPlain = FALSE
      BY <2>1, <1>1 DEF ExtEncrypted, WriteState
    <3>3. ws = [ws EXCEPT !.ext = ws.ext, !.cipher = ws.cipher, !.extPlain = FALSE]
      BY <1>1, <3>2, Zenon DEF WriteState
    <3> HIDE DEF e
    <3> QED BY <3>1, <3>2, <3>3, <1>2, Zenon
  <2>2. CASE ws.extPlain
    <3> DEFINE ext == Encrypted(ws, ws.ext)
               cipher == ws.cipher + Len(ws.ext)
    <3>1. ws.sent = ws.cipher /\ ws.extOffset = 0
      BY <2>2, <1>1 DEF WriteInv, BufferInv
    <3>2. ext \in Bytes /\ Len(ext) = Len(ws.ext) /\ InCipher(ext, ws.cipher)
      BY <1>2, EncryptedInOrder
    <3>3. e = [ws EXCEPT !.ext = ext, !.cipher = cipher, !.extPlain = FALSE]
      BY <2>2, <1>1 DEF ExtEncrypted, WriteState
    <3> HIDE DEF ext, e
    <3>4. cipher \in Nat /\ ws.sent + Len(ext) - ws.extOffset = cipher
      BY <1>2, <1>3, <3>1, <3>2
    <3>5. \A i \in 1..(Len(ext) - ws.extOffset) : ext[ws.extOffset + i].c = ws.sent + i
      BY <1>2, <1>3, <3>1, <3>2 DEF InCipher
    <3> HIDE DEF cipher
    <3> QED BY <3>2, <3>3, <3>4, <3>5, Zenon
  <2> QED BY <2>1, <2>2, ZenonT(60)
<1> DEFINE offset == ws.extOffset + n
           sent == ws.sent + n
<1>5. ws' = [OnWire(e, part)
               EXCEPT !.extOffset = @ + n,
                      !.thrown = @ \/ ws.extOffset >= Len(ws.ext),
                      !.ext = IF ws.extOffset + n = Len(@) THEN <<>> ELSE @,
                      !.up = IF ws.extOffset + n = Len(ws.ext) THEN "idle" ELSE "ext"]
  BY DEF UpExtension
<1> HIDE DEF e
<1>6. e \in WriteState
  BY <1>1, <1>4, Zenon DEF WriteState
<1>7. /\ e.ext = ext /\ e.cipher = cipher /\ e.extPlain = FALSE /\ e.sent = ws.sent
      /\ e.extOffset = ws.extOffset /\ e.misread = ws.misread /\ e.thrown = ws.thrown
      /\ e.out = ws.out /\ e.encrypt = ws.encrypt /\ e.encryptEnd = ws.encryptEnd
      /\ e.chunk = ws.chunk /\ e.hasEncrypt = ws.hasEncrypt /\ e.up = ws.up
  BY <1>1, <1>4 DEF WriteState
<1>8. /\ part \in Bytes /\ Len(part) = n /\ InCipher(part, ws.sent)
  <2>1. part = SubSeq(ext, ws.extOffset + 1, ws.extOffset + n)
    BY <1>7
  <2>2. ws.extOffset + n <= Len(ext)
    BY <1>1, <1>2, <1>3, <1>4
  <2>3. SubSeq(ext, ws.extOffset + 1, ws.extOffset + n) \in Bytes
    BY <1>2, <2>2, SMTT(60) DEF Bytes
  <2>4. Len(SubSeq(ext, ws.extOffset + 1, ws.extOffset + n)) = n
    BY <1>2, <2>2, SMTT(60) DEF Bytes
  <2>5. \A i \in 1..n : SubSeq(ext, ws.extOffset + 1, ws.extOffset + n)[i] = ext[ws.extOffset + i]
    BY <1>2, <2>2, SMTT(60) DEF Bytes
  <2>6. \A i \in 1..n : i \in 1..(Len(ext) - ws.extOffset)
    BY <1>1, <1>2, <1>3, <1>4
  <2> HIDE DEF part
  <2> QED BY <2>1, <2>3, <2>4, <2>5, <2>6, <1>4, Zenon DEF InCipher
<1> HIDE DEF part
<1> DEFINE v == [e EXCEPT !.sent = sent, !.misread = FALSE]
<1>9. OnWire(e, part) = v /\ sent \in Nat
  <2>1. InCipher(part, e.sent) /\ ~e.misread /\ e.sent + Len(part) = sent
    BY <1>1, <1>7, <1>8
  <2> HIDE DEF sent
  <2> QED BY <2>1, <1>6, <1>8, WireKeeps, Zenon
<1>10. offset \in Nat /\ sent + Len(ext) - offset = cipher /\ offset <= Len(ext)
  <2> DEFINE all == Len(ext)
  <2>1. all \in Nat /\ ws.sent + all - ws.extOffset = cipher /\ n \in 0..(all - ws.extOffset)
    BY <1>1, <1>3, <1>4
  <2> HIDE DEF all
  <2>2. offset \in Nat /\ sent + all - offset = cipher /\ offset <= all
    BY <1>2, <2>1
  <2> QED BY <2>2 DEF all
<1>11. \A i \in 1..(Len(ext) - offset) : ext[offset + i].c = sent + i
  <2> TAKE i \in 1..(Len(ext) - offset)
  <2>1. /\ n + i \in 1..(Len(ext) - ws.extOffset) /\ ws.extOffset + (n + i) = offset + i
        /\ ws.sent + (n + i) = sent + i
    <3>1. Len(ext) \in Nat
      BY <1>3, <1>4
    <3> QED BY <3>1, <1>2, SMTT(60)
  <2>2. ext[ws.extOffset + (n + i)].c = ws.sent + (n + i)
    BY <1>4, <2>1
  <2> QED BY <2>1, <2>2
<1> HIDE DEF sent
<1>12. v \in WriteState
  BY <1>6, <1>9, Zenon DEF WriteState
<1>13. /\ v.sent = sent /\ v.misread = FALSE /\ v.ext = ext /\ v.cipher = cipher
       /\ v.extPlain = FALSE /\ v.extOffset = ws.extOffset /\ v.thrown = ws.thrown
       /\ v.out = ws.out /\ v.encrypt = ws.encrypt /\ v.encryptEnd = ws.encryptEnd
       /\ v.chunk = ws.chunk /\ v.hasEncrypt = ws.hasEncrypt
  BY <1>6, <1>7 DEF WriteState
<1> HIDE DEF v
<1> DEFINE late == v.thrown \/ ws.extOffset >= Len(ws.ext)
           left == IF offset = Len(ext) THEN <<>> ELSE ext
           up == IF offset = Len(ext) THEN "idle" ELSE "ext"
<1>14. ws' = [v EXCEPT !.extOffset = offset, !.thrown = late, !.ext = left, !.up = up]
  <2>1. ws' = [v EXCEPT !.extOffset = v.extOffset + n, !.thrown = late,
                        !.ext = IF ws.extOffset + n = Len(v.ext) THEN <<>> ELSE v.ext,
                        !.up = IF ws.extOffset + n = Len(ws.ext) THEN "idle" ELSE "ext"]
    BY <1>5, <1>9, <1>12, Zenon DEF late
  <2> HIDE DEF late
  <2> QED BY <2>1, <1>4, <1>13, Zenon
<1>15. late = FALSE
  <2>1. ~(ws.extOffset >= Len(ws.ext))
    BY <1>1, <1>2, <1>3
  <2> QED BY <2>1, <1>1, <1>13
<1>16. left \in Bytes /\ up \in {"idle", "ext"} /\ (up = "idle" <=> offset = Len(ext))
  <2>1. <<>> \in Bytes
    BY DEF Bytes
  <2> QED BY <2>1
<1>17. ws' = [v EXCEPT !.extOffset = offset, !.thrown = FALSE, !.ext = left, !.up = up]
  BY <1>14, <1>15, Zenon
<1>18. up = "ext" => left = ext
  OBVIOUS
<1> HIDE DEF offset, left, up, late
<1>19. ws' \in WriteState
  BY <1>10, <1>12, <1>16, <1>17, Zenon DEF WriteState
<1>20. /\ ws'.sent = sent /\ ws'.misread = FALSE /\ ws'.ext = left /\ ws'.cipher = cipher
       /\ ws'.extPlain = FALSE /\ ws'.extOffset = offset /\ ws'.thrown = FALSE
       /\ ws'.out = ws.out /\ ws'.encrypt = ws.encrypt /\ ws'.encryptEnd = ws.encryptEnd
       /\ ws'.chunk = ws.chunk /\ ws'.hasEncrypt = ws.hasEncrypt /\ ws'.up = up
  BY <1>12, <1>13, <1>17 DEF WriteState
<1>21. Len(ext) \in Nat /\ (offset = Len(ext) => sent = cipher)
  <2>1. Len(ext) \in Nat
    BY <1>3, <1>4
  <2> QED BY <2>1, <1>9, <1>10
<1>22. InCipher(<<>>, sent) /\ sent + Len(<<>>) = sent
  BY <1>9 DEF InCipher
<1>23. BufferInv(ws')
  <2>1. CASE up = "idle"
    BY <2>1, <1>1, <1>16, <1>20, <1>21, <1>22 DEF BufferInv
  <2>2. CASE up = "ext"
    <3>1. offset < Len(ext)
      BY <2>2, <1>10, <1>16, <1>21
    <3> QED BY <2>2, <3>1, <1>1, <1>10, <1>11, <1>18, <1>20 DEF BufferInv
  <2> QED BY <2>1, <2>2, <1>16
<1> QED BY <1>19, <1>20, <1>23 DEF WriteInv

-----------------------------------------------------------------------------

\* Whatever part of a message, of a piece or of an extension message the throttle and the
\* socket let through at a time, and whatever is decided in between: the peer receives
\* every byte in the order it was encrypted in and a piece's bytes in their order, and
\* nothing that went through the cipher is dropped (WritesIntact).
THEOREM WritesAreIntact == WriteSpec => []WritesIntact
<1>1. WriteInit => WriteInvHolds
  <2> SUFFICES ASSUME WriteInit PROVE WriteInvHolds
    OBVIOUS
  <2>1. <<>> \in Bytes /\ Len(<<>>) = 0 /\ InCipher(<<>>, 0)
    BY DEF Bytes, InCipher
  <2>2. ws \in WriteState
    BY <2>1, WriteAssumption DEF WriteInit, WriteState
  <2>3. BufferInv(ws)
    BY <2>1, WriteAssumption DEF WriteInit, BufferInv
  <2>4. ~ws.misread /\ ~ws.thrown
    BY DEF WriteInit
  <2> QED BY <2>2, <2>3, <2>4 DEF WriteInvHolds, WriteInv
<1>2. WriteInvHolds /\ [WriteNext]_ws => WriteInvHolds'
  <2> SUFFICES ASSUME WriteInv(ws), [WriteNext]_ws PROVE WriteInv(ws')
    BY DEF WriteInvHolds
  <2>1. CASE Fill
    BY <2>1, FillPreserves
  <2>2. CASE \E n \in 1..(Budget + 1) : Flush(n)
    BY <2>2, FlushPreserves, WriteAssumption
  <2>3. CASE \E quota \in 1..PieceLen, n \in 0..PieceLen : UpChunk(quota, n)
    BY <2>3, UpChunkPreserves, WriteAssumption
  <2>4. CASE \E n \in 0..ExtLen : UpExtension(n)
    BY <2>4, UpExtensionPreserves, WriteAssumption
  <2>5. CASE Keepalive
    BY <2>5, KeepalivePreserves
  <2>6. CASE ReceiveUploadChoke \/ ReadRequestPiece \/ ExtensionPending
    BY <2>6, EventsPreserve
  <2>7. CASE UNCHANGED ws
    BY <2>7
  <2> QED BY <2>1, <2>2, <2>3, <2>4, <2>5, <2>6, <2>7 DEF WriteNext
<1>3. WriteInvHolds => WritesIntact
  BY DEF WriteInvHolds, WriteInv, BufferInv, WritesIntact, CipherInOrder, NothingEncryptedIsDropped
<1> QED BY <1>1, <1>2, <1>3, PTL DEF WriteSpec
=============================================================================
