----------------------------- MODULE Handshake ------------------------------
(***************************************************************************)
(* Two Handshake objects on the two ends of a TCP connection: the one      *)
(* HandshakeManager::create_outgoing() made and the one add_incoming()     *)
(* took over, each driven by the events of its poll, with the two managers *)
(* that receive the outcome.                                               *)
(*                                                                         *)
(* The streams carry tokens, the units the handshake reads and writes      *)
(* whole.  A token knows the RC4 keystream position it was encrypted at    *)
(* (0 when it is in the clear); decrypting it at another position, or when *)
(* it was never encrypted, makes it Junk.  The kernel hands over and takes *)
(* any number of tokens at a time.                                         *)
(***************************************************************************)
EXTENDS Integers, Sequences, SequencesExt

CONSTANTS
  Scenes,          \* policies, bitfields, pads and faults of a behaviour
  BitfieldSize     \* tokens of a bitfield

VARIABLE s

Ends == {"out", "in"}
Other(e) == IF e = "out" THEN "in" ELSE "out"
Junk == -1

Tok(t) == [t |-> t, v |-> {}, pos |-> 0]
Toks(ts) == [i \in DOMAIN ts |-> Tok(ts[i])]
Offer(v) == [t |-> "NEG", v |-> v, pos |-> 0]

(* EncryptionPolicy: what the two modes allow.                              *)
Policy(h, st) == [h |-> h, s |-> st, retrying |-> FALSE, retry |-> "ALLOW"]
PreferEncryptedHandshake(p) == p.h \in {"PREFER", "REQUIRE"}
PreferEncryptedStream(p)    == p.s \in {"PREFER", "REQUIRE"}
StreamsAllowed(p) == {c \in {"plain", "enc"} : p.s # (IF c = "plain" THEN "REQUIRE" ELSE "DENY")}

(* The members of Handshake and of its HandshakeEncryption.  `net' and      *)
(* `eof' are what the socket holds during an event, `room' what it takes,   *)
(* `res' the exception an event ended with and `go' that the switch of      *)
(* event_read() goes round again.                                           *)
NewEnd(e, p) ==
  [st |-> IF e = "out" THEN "CONNECTING" ELSE IF p.h = "DENY" THEN "READ_INFO" ELSE "READ_ENC_KEY",
   inc |-> e = "in", pol |-> p, rb |-> <<>>, wb |-> <<>>,
   enc |-> FALSE, dec |-> FALSE, ep |-> 1, dp |-> 1, crypto |-> {},
   bits |-> -1, own |-> s.scene.bits[e], wpos |-> 0, rdone |-> FALSE, wdone |-> FALSE,
   pr |-> e = "in", pw |-> e = "out", ext |-> TRUE, peer |-> e = "out", junk |-> FALSE,
   blk |-> <<>>, dup |-> FALSE,
   net |-> <<>>, eof |-> FALSE, room |-> 0, res |-> "", go |-> FALSE]

Closed == [st |-> "INACTIVE"]

Fail(h)  == [h EXCEPT !.res = "fail", !.go = FALSE]
Throw(h) == [h EXCEPT !.res = "throw", !.go = FALSE]
Stop(h)  == [h EXCEPT !.go = FALSE]
Enter(h, st) == [h EXCEPT !.st = st]

-----------------------------------------------------------------------------
(* Reading.                                                                 *)
Decrypt(ts, dp) == [i \in DOMAIN ts |-> [ts[i] EXCEPT !.pos = IF @ = dp + i - 1 THEN 0 ELSE Junk]]
Least(a, b) == IF a < b THEN a ELSE b

(* read_unthrottled() of k tokens with the decryption that follows it.      *)
Receive(h, k) ==
  IF k > 0 /\ h.net = <<>> /\ h.eof THEN Fail(h)
  ELSE LET got == SubSeq(h.net, 1, k)
       IN [h EXCEPT !.net = SubSeq(@, k + 1, Len(@)),
                    !.rb = @ \o (IF h.dec THEN Decrypt(got, h.dp) ELSE got),
                    !.dp = IF h.dec THEN @ + k ELSE @]

(* fill_read_buffer(): at most until the buffer holds n tokens.             *)
Fill(h, n) ==
  IF n <= Len(h.rb) THEN h
  ELSE IF h.net = <<>> THEN (IF h.eof THEN Fail(h) ELSE h)
  ELSE Receive(h, Least(n - Len(h.rb), Len(h.net)))

FillAll(h) == Fill(h, Len(h.rb) + 1 + Len(h.net))
Short(h, n) == h.res # "" \/ Len(h.rb) < n
At(h, i) == IF h.rb[i].pos = 0 THEN h.rb[i].t ELSE "JUNK"
Consume(h, n) == [h EXCEPT !.rb = SubSeq(@, n + 1, Len(@))]

(* The write buffer: tokens are encrypted as they are put into it.          *)
Encrypt(ts, ep) == [i \in DOMAIN ts |-> [ts[i] EXCEPT !.pos = ep + i - 1]]
Put(h, ts) ==
  [h EXCEPT !.wb = @ \o (IF h.enc THEN Encrypt(ts, h.ep) ELSE ts),
            !.ep = IF h.enc THEN @ + Len(ts) ELSE @]

SetObfuscated(h) == [h EXCEPT !.enc = FALSE, !.dec = FALSE]
InitializeEncrypt(h) == [h EXCEPT !.enc = TRUE, !.ep = 1]
DecryptHeld(h, n) ==
  [h EXCEPT !.rb = Decrypt(SubSeq(@, 1, n), h.dp) \o SubSeq(@, n + 1, Len(@)), !.dp = @ + n]
InitializeDecrypt(h) == [h EXCEPT !.dec = TRUE, !.dp = 1]

PrepareHandshake(h) == Put(h, Toks(<<"HSP", "HSI", "HID">>))
PrepareKeyPlusPad(h) ==
  Put(h, Toks(IF s.scene.pad THEN <<"KEY1", "KEY2", "PAD">> ELSE <<"KEY1", "KEY2">>))
PrepareEncNegotiation(h) ==
  PrepareHandshake(Put(InitializeEncrypt(Put(h, Toks(<<"REQ1", "SKEY">>))),
                       <<Tok("VC"), Offer(StreamsAllowed(h.pol)), Tok("IALEN")>>))

(* validate_download(): the listening end looks its download up.            *)
ValidateDownload(h) == IF h.inc /\ ~s.active THEN Fail(h) ELSE h

(* write_done(), prepare_post_handshake() and read_done().                  *)
WriteDone(h) ==
  [h EXCEPT !.wdone = TRUE, !.pw = FALSE, !.res = IF h.rdone THEN "ok" ELSE @]
PostTokens(must) ==
  IF s.scene.dht THEN Toks(<<"PORT1", "PORT2">>) ELSE IF must THEN <<Tok("KA")>> ELSE <<>>
PreparePostHandshake(h, must) ==
  IF h.wpos # BitfieldSize THEN Throw(h)
  ELSE LET h1 == Put(Enter(h, "POST_HANDSHAKE"), PostTokens(must))
       IN IF h1.wb = <<>> THEN WriteDone(h1) ELSE h1

ReadDoneSkipsPost(h) ==
  IF h.rdone THEN Throw(h)
  ELSE [h EXCEPT !.rdone = TRUE, !.pr = FALSE, !.go = FALSE, !.bits = IF @ = -1 THEN 0 ELSE @,
                 !.res = IF h.wdone THEN "ok" ELSE @]
ReadDone(h) ==
  IF h.rdone THEN Throw(h)
  ELSE LET h1 == [h EXCEPT !.rdone = TRUE, !.pr = FALSE, !.go = FALSE,
                           !.bits = IF @ = -1 THEN 0 ELSE @]
           h2 == IF h.wpos = BitfieldSize THEN PreparePostHandshake(h1, ~h.own) ELSE h1
       IN IF h2.wdone /\ h2.res = "" THEN [h2 EXCEPT !.res = "ok"] ELSE h2

-----------------------------------------------------------------------------
(* One case of the switch in event_read() each.                             *)

(* read_encryption_key(): a plaintext handshake shows in its first bytes.   *)
KeyRead(h) ==
  LET h1 == [h EXCEPT !.pol.retry = "PREFER"]
      h2 == Consume(IF h.inc THEN PrepareKeyPlusPad(h1) ELSE h1, 2)
  IN Enter(IF h.inc THEN h2 ELSE PrepareEncNegotiation(h2), "READ_ENC_SYNC")
ReadKeyRest(h) == IF Short(h, 2) THEN Stop(h) ELSE KeyRead(h)
ReadKeyFirst(h) ==
  IF Short(h, 1) THEN Stop(h)
  ELSE IF At(h, 1) = "HSP"
       THEN IF h.pol.h = "REQUIRE" THEN Fail(h) ELSE Enter(h, "READ_INFO")
       ELSE ReadKeyRest(FillAll(h))
ReadEncryptionKey(h) == IF h.inc THEN ReadKeyFirst(Fill(h, 1)) ELSE ReadKeyRest(FillAll(h))

(* read_encryption_sync(): HASH('req1' + S), or the verification constant   *)
(* as the other end encrypts it.                                            *)
IsSync(h, k) == IF h.inc THEN k.t = "REQ1" /\ k.pos = 0 ELSE k.t = "VC" /\ k.pos = 1
SyncAt(h) == SelectInSeq(h.rb, LAMBDA k : IsSync(h, k))
SyncFound(h) ==
  IF h.inc THEN Enter(Consume(h, SyncAt(h)), "READ_ENC_SKEY")
  ELSE Enter(Consume(h, SyncAt(h) - 1), "READ_ENC_NEGOT")
SyncRead(h) == IF h.res # "" \/ SyncAt(h) = 0 THEN Stop(h) ELSE SyncFound(h)
ReadEncryptionSync(h) ==
  IF SyncAt(h) # 0 THEN SyncFound(h)
  ELSE IF Len(h.rb) >= 2 THEN Fail(h) ELSE SyncRead(FillAll(h))

(* read_encryption_skey(): decrypts all it has read so far.                 *)
SkeyRead(h) ==
  LET h1 == InitializeDecrypt(InitializeEncrypt(Consume(h, 1)))
  IN Enter(Put(DecryptHeld(h1, Len(h1.rb)), <<Tok("VC")>>), "READ_ENC_NEGOT")
ReadSkey(h) == IF h.res # "" THEN h ELSE SkeyRead(h)
SkeyFilled(h) == IF Short(h, 1) THEN Stop(h) ELSE ReadSkey(ValidateDownload(h))
ReadEncryptionSkey(h) == SkeyFilled(Fill(h, 1))

(* read_encryption_negotiation(): one end selects, the other verifies.      *)
Selected(h, offer) ==
  IF offer = {"plain", "enc"} THEN (IF PreferEncryptedStream(h.pol) THEN {"enc"} ELSE {"plain"})
  ELSE offer \cap StreamsAllowed(h.pol)
SelectMode(h, offer) ==
  IF Selected(h, offer) = {} THEN Fail(h)
  ELSE Put([h EXCEPT !.crypto = Selected(h, offer)], <<Offer(Selected(h, offer))>>)
VerifyMode(h, offer) ==
  IF offer \notin {{"plain"}, {"enc"}} \/ offer \cap StreamsAllowed(h.pol) = {} THEN Fail(h)
  ELSE IF offer = {"plain"} THEN [h EXCEPT !.crypto = offer]
  ELSE DecryptHeld([h EXCEPT !.crypto = offer], Len(h.rb))
Negotiated(h) ==
  IF At(h, 1) # "VC" \/ At(h, 2) # "NEG" THEN Fail(h)
  ELSE LET h1 == Enter(Consume(h, 2), "READ_ENC_PAD")
       IN IF h.inc THEN SelectMode(h1, h.rb[2].v) ELSE VerifyMode(h1, h.rb[2].v)
NegotiationFilled(h) ==
  IF Short(h, 2) THEN Stop(h)
  ELSE Negotiated(IF h.inc THEN h ELSE DecryptHeld(InitializeDecrypt(h), 2))
ReadEncryptionNegotiation(h) == NegotiationFilled(Fill(h, 2))

(* read_negotiation_reply() and the initial payload.                        *)
Agreed(h) == Enter(IF h.crypto = {"plain"} THEN SetObfuscated(h) ELSE h, "READ_INFO")
LengthFilled(h) == IF Short(h, 1) THEN Stop(h) ELSE Enter(Consume(h, 1), "READ_ENC_IA")
ReadNegotiationReply(h) == IF h.inc THEN LengthFilled(Fill(h, 1)) ELSE Agreed(h)
PayloadFilled(h) ==
  IF Short(h, 3) THEN Stop(h) ELSE IF Len(h.rb) > 3 THEN Fail(h) ELSE Agreed(h)
ReadInitialPayload(h) == PayloadFilled(Fill(h, 3))

(* read_info(): the part of the BitTorrent handshake before the peer id.    *)
InfoRead(h) ==
  IF h.res # "" THEN h
  ELSE IF At(h, 2) # "HSI" THEN Fail(h)
  ELSE Enter(Consume(IF h.inc THEN PrepareHandshake(h)
                     ELSE [h EXCEPT !.pol.retry = "PREFER"], 2), "READ_PEER")
InfoFilled(h) ==
  IF h.res # "" THEN h
  ELSE IF h.rb # <<>> /\ At(h, 1) # "HSP" THEN Fail(h)
  ELSE IF Len(h.rb) < 2 THEN Stop(h) ELSE InfoRead(ValidateDownload(h))
ReadInfo(h) == InfoFilled(Fill(h, 3))

(* read_peer(): with the extension handshake and the start of the bitfield. *)
PeerRead(h) ==
  LET h1 == Put([Consume(h, 1) EXCEPT !.peer = TRUE, !.pw = TRUE], Toks(<<"EXT1", "EXT2">>))
      h2 == IF h.own THEN Put([h1 EXCEPT !.wpos = 0], <<Tok("BFH")>>)
            ELSE Put([h1 EXCEPT !.wpos = BitfieldSize], <<Tok("KA")>>)
  IN Enter(h2, "READ_MESSAGE")
PeerFilled(h) == IF Short(h, 1) THEN Stop(h) ELSE IF At(h, 1) # "HID" THEN Fail(h) ELSE PeerRead(h)
ReadPeer(h) == PeerFilled(Fill(h, 1))

(* The messages that may come before the handshake is over.                 *)
BitfieldStart(h) ==
  LET k == Least(BitfieldSize, Len(h.rb) - 1)
  IN [Consume(h, 1 + k) EXCEPT !.bits = k, !.st = "READ_BITFIELD",
        !.junk = @ \/ \E i \in 2..k + 1 : At(h, i) # "BITS"]
MessageFilled(h) ==
  IF Short(h, 1) THEN Stop(h)
  ELSE CASE At(h, 1) = "KA"    -> ReadDone(Consume(h, 1))
         [] At(h, 1) = "BFH"   -> IF h.bits # -1 THEN Fail(h) ELSE BitfieldStart(h)
         [] At(h, 1) = "EXT1" /\ h.ext -> Enter(h, "READ_EXT")
         [] At(h, 1) = "PORT1" -> Enter(h, "READ_PORT")
         [] OTHER -> ReadDone(h)
ReadMessage(h) == MessageFilled(Fill(h, 1))

MessageRead(h) ==
  IF h.bits # -1 /\ ~h.ext THEN ReadDone(Enter(h, "READ_MESSAGE")) ELSE Enter(h, "READ_MESSAGE")
BitfieldReceived(h, n) ==
  LET h1 == [h EXCEPT !.rb = SubSeq(@, 1, n), !.bits = @ + Len(h.rb) - n,
                      !.junk = @ \/ \E i \in n + 1..Len(h.rb) : At(h, i) # "BITS"]
  IN IF h1.res # "" \/ h1.bits < BitfieldSize THEN Stop(h1) ELSE MessageRead(h1)
ReadBitfieldUndecrypted(h) ==
  BitfieldReceived([Fill([h EXCEPT !.dec = FALSE], Len(h.rb) + BitfieldSize - h.bits) EXCEPT !.dec = h.dec],
                   Len(h.rb))
ReadBitfield(h) ==
  BitfieldReceived(Fill(h, Len(h.rb) + BitfieldSize - h.bits), Len(h.rb))
ExtensionFilled(h) ==
  IF Short(h, 2) THEN Stop(h) ELSE MessageRead([Consume(h, 2) EXCEPT !.ext = FALSE])
ReadExtension(h) == ExtensionFilled(Fill(h, 2))
PortFilled(h) == IF Short(h, 2) THEN Stop(h) ELSE MessageRead(Consume(h, 2))
ReadPort(h) == PortFilled(Fill(h, 2))

ReadCase(h) ==
  CASE h.st = "READ_ENC_KEY"   -> ReadEncryptionKey(h)
    [] h.st = "READ_ENC_SYNC"  -> ReadEncryptionSync(h)
    [] h.st = "READ_ENC_SKEY"  -> ReadEncryptionSkey(h)
    [] h.st = "READ_ENC_NEGOT" -> ReadEncryptionNegotiation(h)
    [] h.st = "READ_ENC_PAD"   -> ReadNegotiationReply(h)
    [] h.st = "READ_ENC_IA"    -> ReadInitialPayload(h)
    [] h.st = "READ_INFO"      -> ReadInfo(h)
    [] h.st = "READ_PEER"      -> ReadPeer(h)
    [] h.st \in {"READ_MESSAGE", "POST_HANDSHAKE"} -> ReadMessage(h)
    [] h.st = "READ_BITFIELD"  -> ReadBitfield(h)
    [] h.st = "READ_EXT"       -> ReadExtension(h)
    [] h.st = "READ_PORT"      -> ReadPort(h)
    [] OTHER -> Throw(h)

(* The loop around the switch, until a case returns or throws.              *)
RECURSIVE ReadCases(_)
ReadCases(h) == IF h.go /\ h.res = "" THEN ReadCases(ReadCase(h)) ELSE h
ReadLoop(h) == ReadCases([h EXCEPT !.go = TRUE])

-----------------------------------------------------------------------------
(* Writing: Send() moves what the socket takes out of the buffer.           *)
Send(h) ==
  LET k == Least(h.room, Len(h.wb))
  IN [h EXCEPT !.room = @ - k, !.net = @ \o SubSeq(h.wb, 1, k), !.wb = SubSeq(@, k + 1, Len(@))]

Bits(n) == [i \in 1..n |-> Tok("BITS")]

(* The rest of the bitfield.  When it is encrypted it goes through the      *)
(* buffer, which still begins with what an earlier write left of its block. *)
SendBlock(h, ts, k) ==
  [h EXCEPT !.net = @ \o SubSeq(ts, 1, k), !.wpos = @ + k, !.room = @ - k,
            !.wb = SubSeq(ts, k + 1, Len(ts)), !.blk = SubSeq(ts, k + 1, Len(ts))]
SendEncrypted(h, ts) ==
  SendBlock([h EXCEPT !.ep = @ + Len(ts) - Len(h.blk)], ts,
            IF s.scene.whole THEN Len(ts) ELSE Least(h.room, Len(ts)))
SendBitfield(h) ==
  IF h.enc
  THEN LET held == IF h.wpos = 0 THEN <<>> ELSE h.blk
       IN SendEncrypted([h EXCEPT !.blk = held, !.dup = h.blk # <<>>],
                        held \o Encrypt(Bits(BitfieldSize - h.wpos - Len(held)), h.ep))
  ELSE LET k == Least(h.room, BitfieldSize - h.wpos)
       IN [h EXCEPT !.room = @ - k, !.net = @ \o Bits(k), !.wpos = @ + k]
BitfieldWritten(h) ==
  IF h.wpos # BitfieldSize THEN h
  ELSE IF ~h.rdone THEN [h EXCEPT !.pw = FALSE] ELSE PreparePostHandshake(h, FALSE)
BufferWritten(h) ==
  IF h.wb # <<>> THEN h ELSE BitfieldWritten(IF h.wpos = BitfieldSize THEN h ELSE SendBitfield(h))
WriteBitfield(h) == IF h.wdone THEN Throw(h) ELSE BufferWritten(Send(h))

(* CONNECTING and PROXY_DONE: the first message and what a retry would try. *)
MayRetry(h, other) == ~h.pol.retrying /\ h.pol.h # other
StartHandshake(h) ==
  IF PreferEncryptedHandshake(h.pol)
  THEN [PrepareKeyPlusPad(h) EXCEPT !.st = "READ_ENC_KEY", !.pr = TRUE,
          !.pol.retry = IF MayRetry(h, "REQUIRE") THEN "DENY" ELSE @]
  ELSE [PrepareHandshake(h) EXCEPT !.st = "READ_INFO", !.pr = TRUE,
          !.pol.retry = IF MayRetry(h, "DENY") THEN "REQUIRE" ELSE @]

BufferSent(h) ==
  IF h.wb # <<>> THEN h
  ELSE IF h.st = "POST_HANDSHAKE" THEN WriteDone(h) ELSE [h EXCEPT !.pw = FALSE]
WriteBuffer(h) == IF h.wb = <<>> THEN Throw(h) ELSE BufferSent(Send(h))
WriteCase(h) ==
  CASE h.st = "CONNECTING" -> WriteBuffer(StartHandshake(h))
    [] h.st \in {"READ_MESSAGE", "READ_BITFIELD", "READ_EXT"} -> WriteBitfield(h)
    [] OTHER -> WriteBuffer(h)

(* event_read() ends with event_write() when it left something to write.    *)
AfterRead(h) ==
  IF h.res = "" /\ h.wb # <<>> /\ ~h.pw
  THEN WriteCase([h EXCEPT !.pw = TRUE, !.net = <<>>]) ELSE [h EXCEPT !.net = <<>>]

-----------------------------------------------------------------------------
(* HandshakeManager.                                                        *)
Idle(h) == [h EXCEPT !.net = <<>>, !.eof = FALSE, !.room = 0]

Destroy(t, e) == [t EXCEPT ![e] = Closed, !.gone = @ \cup {e}]

(* receive_succeeded(): the connection goes to the ConnectionList.          *)
ReceiveSucceeded(t, e, h) ==
  IF e = "in" /\ ~s.active THEN Destroy(t, e)
  ELSE [t EXCEPT ![e] = [h EXCEPT !.st = "CONNECTED", !.res = ""]]

(* receive_failed(): an outgoing handshake is tried once more, in the other *)
(* mode, when its policy says that may help.                                *)
RetryMode(p) == IF p.retry \in {"DENY", "REQUIRE"} THEN {p.retry} ELSE {}
ReceiveFailed(t, e, p) ==
  IF e = "in" \/ RetryMode(p) = {} THEN Destroy(t, e)
  ELSE [Destroy(t, e) EXCEPT
          !.next = {[Policy(m, p.s) EXCEPT !.retrying = TRUE] : m \in RetryMode(p)},
          !.thrown = @ \/ (p.s = "REQUIRE" /\ "DENY" \in RetryMode(p))]

Finish(t, e, h) ==
  CASE h.res = ""     -> [t EXCEPT ![e] = Idle(h)]
    [] h.res = "ok"   -> ReceiveSucceeded(t, e, Idle(h))
    [] h.res = "fail" -> ReceiveFailed(t, e, h.pol)
    [] OTHER -> [t EXCEPT !.thrown = TRUE]

Open(e) == s[e].st \notin {"INACTIVE", "CONNECTED"}
Some == 99

-----------------------------------------------------------------------------
Init ==
  \E scene \in Scenes :
    s = [scene |-> scene, active |-> TRUE, out |-> Closed, in |-> Closed,
         next |-> {Policy(scene.out[1], scene.out[2])}, accepted |-> FALSE,
         pipe |-> [e \in Ends |-> <<>>], gone |-> {}, faults |-> 0, thrown |-> FALSE]

(* create_outgoing(), for add_outgoing() and for a retry.                   *)
CreateOutgoing ==
  /\ ~s.thrown /\ s.out.st = "INACTIVE" /\ s.in.st = "INACTIVE"
  /\ \E p \in s.next :
       s' = [s EXCEPT !.out = NewEnd("out", p), !.next = {}, !.accepted = FALSE,
                      !.pipe = [e \in Ends |-> <<>>], !.gone = {}]

(* add_incoming() takes the connection the listen socket accepted.          *)
AddIncoming ==
  /\ ~s.thrown /\ ~s.accepted /\ (Open("out") \/ "out" \in s.gone) /\ s.in.st = "INACTIVE"
  /\ s' = [s EXCEPT !.in = NewEnd("in", Policy(s.scene.in[1], s.scene.in[2])), !.accepted = TRUE]

(* event_read() when k of the tokens sent have arrived.                     *)
ReadFinished(e, r, k) ==
  LET w == AfterRead(r)
  IN s' = Finish([s EXCEPT !.pipe[Other(e)] = r.net \o SubSeq(@, k + 1, Len(@)),
                           !.pipe[e] = @ \o w.net], e, w)
EventRead(e) ==
  /\ ~s.thrown /\ Open(e) /\ s[e].pr
  /\ \E k \in 0..Len(s.pipe[Other(e)]), room \in {1, Some} :
       /\ k > 0 \/ (Other(e) \in s.gone /\ s.pipe[Other(e)] = <<>>)
       /\ ReadFinished(e, ReadLoop([s[e] EXCEPT !.net = SubSeq(s.pipe[Other(e)], 1, k), !.room = room,
                             !.eof = Other(e) \in s.gone /\ k = Len(s.pipe[Other(e)])]), k)

(* event_write() when the socket takes `room' tokens; a socket whose other  *)
(* end is closed may refuse.                                                *)
WriteFinished(e, w) == s' = Finish([s EXCEPT !.pipe[e] = @ \o w.net], e, w)
EventWrite(e) ==
  /\ ~s.thrown /\ Open(e) /\ s[e].pw
  /\ \/ \E room \in {1, Some} : WriteFinished(e, WriteCase([s[e] EXCEPT !.room = room]))
     \/ Other(e) \in s.gone /\ s' = ReceiveFailed(s, e, s[e].pol)

(* receive_timeout() and event_error(), and a connect() that fails.         *)
TimeoutOrError(e) ==
  /\ ~s.thrown /\ Open(e) /\ s.faults < s.scene.faults
  /\ s' = [ReceiveFailed(s, e, s[e].pol) EXCEPT !.faults = @ + 1]

(* The download of one end stops: erase_download() destroys the handshakes  *)
(* that know it.                                                            *)
KnowsDownload(e) ==
  \/ e = "out"
  \/ s.in.st \notin {"READ_ENC_KEY", "READ_ENC_SYNC", "READ_ENC_SKEY"} /\ (s.in.st = "READ_INFO" => s.in.crypto # {})
StopDownload(e) ==
  /\ ~s.thrown /\ s.faults < s.scene.faults /\ s.active
  /\ LET t == [s EXCEPT !.active = @ /\ e = "out", !.faults = @ + 1, !.next = IF e = "out" THEN {} ELSE @]
     IN s' = IF Open(e) /\ KnowsDownload(e) THEN Destroy(t, e) ELSE t

(* A connection of the end that is left alone is closed by its own reader.  *)
ConnectionCloses(e) ==
  /\ ~s.thrown /\ s[e].st = "CONNECTED" /\ Other(e) \in s.gone
  /\ s' = Destroy(s, e)

Events == \E e \in Ends : EventRead(e) \/ EventWrite(e) \/ ConnectionCloses(e)
Next ==
  \/ CreateOutgoing \/ AddIncoming \/ Events
  \/ \E e \in Ends : TimeoutOrError(e) \/ StopDownload(e)

Spec == Init /\ [][Next]_s

-----------------------------------------------------------------------------
BothConnected == \A e \in Ends : s[e].st = "CONNECTED"

(* What one end reads is what the other wrote: two connected ends agree on  *)
(* the encryption of both directions, nothing that was read or is on its    *)
(* way is decrypted at the wrong position of the keystream, and each holds  *)
(* the bitfield of the other.                                               *)
InStep(e) ==
  /\ s[e].enc = s[Other(e)].dec /\ ~s[e].junk
  /\ s[e].bits = IF s[Other(e)].own THEN BitfieldSize ELSE 0
  /\ \A i \in DOMAIN s[e].rb : s[e].rb[i].pos = 0
  /\ \A i \in DOMAIN s.pipe[Other(e)] :
       s.pipe[Other(e)][i].pos = IF s[e].dec THEN s[e].dp + i - 1 ELSE 0
EndsAgree == BothConnected => \A e \in Ends : InStep(e)

(* No event ends in an internal_error, that of a retry in modes that        *)
(* EncryptionPolicy refuses included.                                       *)
NothingThrown == ~s.thrown

(* The bitfield is sent once, however often the socket takes only a part.   *)
BitfieldSentOnce == \A e \in Ends : Open(e) => ~s[e].dup

(* Two policies that have a handshake and a stream in common.               *)
Handshakes(p) == {c \in {"plain", "enc"} : p[1] # (IF c = "plain" THEN "REQUIRE" ELSE "DENY")}
Streams(p)    == {c \in {"plain", "enc"} : p[2] # (IF c = "plain" THEN "REQUIRE" ELSE "DENY")}
Compatible(c) == Handshakes(c.out) \cap Handshakes(c.in) # {} /\ Streams(c.out) \cap Streams(c.in) # {}

(* Only the timeouts are left to happen.                                    *)
Ready(e) ==
  \/ Open(e) /\ s[e].pw
  \/ Open(e) /\ s[e].pr /\ (s.pipe[Other(e)] # <<>> \/ Other(e) \in s.gone)
  \/ s[e].st = "CONNECTED" /\ Other(e) \in s.gone
Quiet ==
  /\ ~\E e \in Ends : Ready(e)
  /\ s.next = {} \/ s.out.st # "INACTIVE" \/ s.in.st # "INACTIVE"
  /\ s.accepted \/ s.out.st = "INACTIVE"

(* The two ends never wait for each other: when there is nothing left to    *)
(* read, to write or to retry the handshake is over on both, and without a  *)
(* fault two compatible policies have led to a connection.                  *)
NeverStalls ==
  Quiet /\ ~s.thrown =>
    /\ ~\E e \in Ends : Open(e)
    /\ Compatible(s.scene) /\ s.scene.faults = 0 => BothConnected
=============================================================================
