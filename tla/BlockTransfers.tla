--------------------------- MODULE BlockTransfers ---------------------------
(***************************************************************************)
(* The download of one chunk: its BlockList in the TransferList, the       *)
(* blocks, and the BlockTransfer objects that blocks and the request lists *)
(* of the peers share.  Several peers may send the same block; one of them *)
(* leads and writes, the others compare what they receive with it.         *)
(*                                                                         *)
(* A transfer is held by a peer's RequestList (in one of its queues, or as *)
(* the one being received) and listed by its block; either side may let go *)
(* first.  The buckets of the request queue are one here: a received piece *)
(* may be any of them.  All of it runs on the main thread.                 *)
(***************************************************************************)
EXTENDS Integers, FiniteSets, Sequences, SequencesExt

CONSTANTS
  Peers,
  NumBlocks,       \* the blocks of the chunk
  Length,          \* the length of a block, in units of what one read returns
  MaxTransfers,    \* bound: transfer objects of one peer alive at once
  MaxStalled,      \* bound: how often peers stall
  MaxDissimilar    \* bound: how often a peer sends other data than the leader

ASSUME BlockAssumption ==
  /\ NumBlocks \in Nat \ {0} /\ Length \in Nat \ {0}
  /\ MaxTransfers \in Nat /\ MaxStalled \in Nat /\ MaxDissimilar \in Nat

Blocks == 1..NumBlocks
Ids == Peers \X (1..MaxTransfers)   \* the transfer objects: peer_info and a number
None == <<>>                        \* no transfer
NoBlock == 0

VARIABLES bt, connected, stalls
vars == <<bt, connected, stalls>>

Transfer == [block : Blocks \cup {NoBlock},
             state : {"free", "queued", "leader", "not_leader", "erased"},
             position : 0..Length, stalled : BOOLEAN, held : {"no", "queue", "current"}]

Free == [block |-> NoBlock, state |-> "free", position |-> 0,
         stalled |-> FALSE, held |-> "no"]

Block == [queued : SUBSET Ids, transfers : Seq(Ids), leader : Ids \cup {None},
          notStalled : Int, completed : BOOLEAN]

NewBlock == [queued |-> {}, transfers |-> <<>>, leader |-> None, notStalled |-> 0,
             completed |-> FALSE]

TypeOK ==
  /\ bt \in [x : [Ids -> Transfer], blk : [Blocks -> Block], exists : BOOLEAN,
             finished : 0..NumBlocks, attempt : 0..1, hashing : BOOLEAN,
             dissimilar : 0..MaxDissimilar, thrown : BOOLEAN]
  /\ connected \in SUBSET Peers
  /\ stalls \in 0..MaxStalled

NoList == [x |-> [t \in Ids |-> Free], blk |-> [b \in Blocks |-> NewBlock], exists |-> FALSE,
           finished |-> 0, attempt |-> 0, hashing |-> FALSE, dissimilar |-> 0, thrown |-> FALSE]

Init == bt = NoList /\ connected = {} /\ stalls = 0

-----------------------------------------------------------------------------
Throw(s) == [s EXCEPT !.thrown = TRUE]
Delete(s, t) == [s EXCEPT !.x[t] = Free]

IsFinished(s, b) ==
  LET l == s.blk[b].leader IN l # None /\ s.x[l].position = Length

Listed(s, b) == s.blk[b].queued \cup ToSet(s.blk[b].transfers)

(* Block::invalidate_transfer(): the peer keeps the object, if it has it.   *)
Invalidate(s, b, t) ==
  IF t = s.blk[b].leader \/ (~s.x[t].stalled /\ s.blk[b].notStalled = 0) THEN Throw(s)
  ELSE LET u == [s EXCEPT !.x[t].block = NoBlock,
                          !.blk[b].notStalled = IF s.x[t].stalled THEN @ ELSE @ - 1]
       IN  IF u.x[t].held = "no" THEN Delete(u, t) ELSE u

InvalidateAll(s, b, ts) == FoldLeft(LAMBDA u, t : Invalidate(u, b, t), s, SetToSeq(ts))

(* remove_erased_transfers() and remove_non_leader_transfers().             *)
RemoveTransfers(s, b, Keep(_)) ==
  LET gone == {t \in ToSet(s.blk[b].transfers) : ~Keep(s.x[t])}
      u    == InvalidateAll(s, b, gone)
  IN  [u EXCEPT !.blk[b].transfers = SelectSeq(@, LAMBDA t : t \notin gone)]

(* The non-leading transfer that is furthest, the earliest of them.         *)
NewLeader(s, transfers) ==
  LET rest == {i \in DOMAIN transfers : s.x[transfers[i]].state = "not_leader"}
      best == {i \in rest : \A j \in rest : s.x[transfers[j]].position <= s.x[transfers[i]].position}
  IN  IF rest = {} THEN None ELSE transfers[Min(best)]

(* Mutant: nobody takes over from the leader.                               *)
EraseTransferNoLeader(s, b, t) ==
  [s EXCEPT !.blk[b].transfers = SelectSeq(@, LAMBDA u : u # t),
            !.blk[b].leader = IF t = @ THEN None ELSE @]

(* Block::erase() of a transfer that has started.                           *)
EraseTransfer(s, b, t) ==
  LET rest == [s EXCEPT !.blk[b].transfers = SelectSeq(@, LAMBDA u : u # t)]
      new  == NewLeader(rest, rest.blk[b].transfers)
  IN  IF s.x[t].position = Length \/ t \notin ToSet(s.blk[b].transfers) THEN Throw(s)
      ELSE IF t # s.blk[b].leader THEN rest
      ELSE IF s.blk[b].completed THEN Throw(s)
      ELSE IF new # None THEN [rest EXCEPT !.blk[b].leader = new, !.x[new].state = "leader"]
      ELSE RemoveTransfers([rest EXCEPT !.blk[b].leader = None], b, LAMBDA y : y.state # "erased")

(* Block::erase().                                                          *)
Erase(s, t) ==
  LET b == s.x[t].block
      u == [s EXCEPT !.blk[b].notStalled = IF s.x[t].stalled THEN @ ELSE @ - 1]
  IN  IF s.x[t].state = "erased" THEN Throw(s)
      ELSE IF s.x[t].state = "queued"
      THEN IF t \notin s.blk[b].queued THEN Throw(s)
           ELSE Delete([u EXCEPT !.blk[b].queued = @ \ {t}], t)
      ELSE Delete(EraseTransfer(u, b, t), t)

(* Block::release(), by the request list that holds it.                     *)
Release(s, t) == IF s.x[t].block = NoBlock THEN Delete(s, t) ELSE Erase(s, t)

ReleaseAll(s, ts) == FoldLeft(Release, s, SetToSeq(ts))

(* Block::transfering(): the first to start leads.                          *)
Transfering(s, t) ==
  LET b == s.x[t].block
      first == s.blk[b].leader = None
  IN  IF t \notin s.blk[b].queued THEN Throw(s)
      ELSE [s EXCEPT !.blk[b].queued = @ \ {t},
                     !.blk[b].transfers = Append(@, t),
                     !.blk[b].leader = IF first THEN t ELSE @,
                     !.x[t].state = IF first THEN "leader" ELSE "not_leader",
                     !.x[t].held = "current"]

(* Mutant: the queued transfers stay.                                       *)
CompletedKeepsQueued(s, b, t) ==
  LET u == [s EXCEPT !.finished = @ + 1,
                     !.blk[b].notStalled = IF s.x[t].stalled THEN @ ELSE @ - 1,
                     !.x[t].block = NoBlock, !.x[t].stalled = TRUE, !.x[t].held = "no"]
      v == RemoveTransfers(u, b, LAMBDA y : y.state = "leader")
  IN  [v EXCEPT !.blk[b].completed = TRUE, !.hashing = @ \/ v.finished = NumBlocks]

(* Mutant: the completed transfer stays counted as not stalled.             *)
CompletedStillCounted(s, b, t) ==
  LET u == [s EXCEPT !.finished = @ + 1,
                     !.x[t].block = NoBlock, !.x[t].stalled = TRUE, !.x[t].held = "no"]
      v == RemoveTransfers([InvalidateAll(u, b, u.blk[b].queued) EXCEPT !.blk[b].queued = {}], b,
                           LAMBDA y : y.state = "leader")
  IN  [v EXCEPT !.blk[b].completed = TRUE, !.hashing = @ \/ v.finished = NumBlocks]

(* RequestList::finished() with Block::completed(): everyone else is        *)
(* cancelled, and the last block sends the chunk to the hash queue.         *)
Completed(s, b, t) ==
  LET u == [s EXCEPT !.finished = @ + 1,
                     !.blk[b].notStalled = IF s.x[t].stalled THEN @ ELSE @ - 1,
                     !.x[t].block = NoBlock, !.x[t].stalled = TRUE, !.x[t].held = "no"]
      v == RemoveTransfers([InvalidateAll(u, b, u.blk[b].queued) EXCEPT !.blk[b].queued = {}], b,
                           LAMBDA y : y.state = "leader")
      bad == \/ s.x[t].state # "leader" \/ ~IsFinished(s, b) \/ t # s.blk[b].leader
             \/ Cardinality({c \in Blocks : IsFinished(u, c)}) < u.finished
             \/ v.thrown \/ v.blk[b].transfers = <<>> \/ Last(v.blk[b].transfers) # t
  IN  IF bad THEN Throw(s)
      ELSE [v EXCEPT !.blk[b].completed = TRUE, !.hashing = @ \/ v.finished = NumBlocks]

(* down_chunk_finished(), if the transfer has all of its piece.             *)
Finish(s, t) ==
  IF s.x[t].position < Length THEN s
  ELSE IF s.x[t].state = "leader" THEN Completed(s, s.x[t].block, t)
  ELSE Release(s, t)

(* Block::transfer_dissimilar(): the transfer stays listed, and the request *)
(* list goes on with a dummy, here the object t0.                           *)
Dissimilar(s, t, t0, length) ==
  LET b == s.x[t].block
  IN  IF s.x[t].state # "not_leader" THEN Throw(s)
      ELSE [s EXCEPT !.blk[b].notStalled = IF s.x[t].stalled THEN @ ELSE @ - 1,
                     !.x[t].state = "erased", !.x[t].position = 0, !.x[t].block = NoBlock,
                     !.x[t].held = "no", !.dissimilar = @ + 1,
                     !.x[t0] = [Free EXCEPT !.state = "erased", !.held = "current",
                                              !.position = s.x[t].position + length]]

(* Block::change_leader().                                                  *)
ChangeLeader(s, b, t) ==
  LET old == s.blk[b].leader
  IN  IF old = t \/ IsFinished(s, b) THEN Throw(s)
      ELSE LET u == IF old = None THEN s ELSE [s EXCEPT !.x[old].state = "not_leader"]
           IN  [u EXCEPT !.blk[b].leader = t, !.x[t].state = "leader"]

Least(a, b) == IF a < b THEN a ELSE b

(* down_chunk_skip_process() of a transfer that does not lead and whose     *)
(* data matches: it takes over once it is ahead.                            *)
Compared(s, t, length) ==
  LET b == s.x[t].block
      compareLength == Least(length, s.x[s.blk[b].leader].position - s.x[t].position)
      ahead == IF compareLength = length THEN s ELSE ChangeLeader(s, b, t)
  IN  [ahead EXCEPT !.x[t].position = @ + length]

-----------------------------------------------------------------------------
(* Delegator::delegate() starts the chunk: TransferList::insert().          *)
InsertList ==
  /\ ~bt.thrown /\ ~bt.exists
  /\ connected # {}
  /\ bt' = [bt EXCEPT !.exists = TRUE]
  /\ UNCHANGED <<connected, stalls>>

(* The delegator takes a block nobody is working on, and in aggressive mode *)
(* one with fewer than five transfers.  Block::insert() refuses a peer that *)
(* the block has listed.                                                    *)
MayInsert(p, b) ==
  /\ ~IsFinished(bt, b)
  /\ bt.blk[b].notStalled < 5
  /\ \A t \in Listed(bt, b) : t[1] # p

(* The object a `new BlockTransfer' gives the peer, if the bound allows.    *)
NewTransfer(p) ==
  LET free == {i \in 1..MaxTransfers : bt.x[<<p, i>>] = Free}
  IN  IF free = {} THEN {} ELSE {<<p, Min(free)>>}

Insert(p, b) ==
  /\ ~bt.thrown /\ bt.exists
  /\ p \in connected
  /\ MayInsert(p, b)
  /\ \E t \in NewTransfer(p) :
          bt' = [bt EXCEPT !.x[t] = [Free EXCEPT !.block = b, !.state = "queued", !.held = "queue"],
                           !.blk[b].queued = @ \cup {t},
                           !.blk[b].notStalled = @ + 1]
  /\ UNCHANGED <<connected, stalls>>

Current(p) == {t \in Ids : t[1] = p /\ bt.x[t].held = "current"}
Queue(p) == {t \in Ids : t[1] = p /\ bt.x[t].held = "queue"}

(* A PIECE message: RequestList::downloading().  A piece nobody wants any   *)
(* more is received all the same.                                           *)
Downloading(p) ==
  /\ ~bt.thrown
  /\ Current(p) = {}
  /\ \E t \in Queue(p) :
       bt' = IF bt.x[t].block = NoBlock THEN [bt EXCEPT !.x[t].held = "current"]
             ELSE Transfering(bt, t)
  /\ UNCHANGED <<connected, stalls>>

(* A PIECE message of length zero: the request is refused.                  *)
DownloadingEmpty(p) ==
  /\ ~bt.thrown
  /\ Current(p) = {}
  /\ \E t \in Queue(p) : bt' = Release(bt, t)
  /\ UNCHANGED <<connected, stalls>>

(* Data of the piece arrives: down_chunk() of the leader,                   *)
(* down_chunk_skip_process() of the others.                                 *)
Receive(p) ==
  /\ ~bt.thrown
  /\ \E t \in Current(p) : \E length \in 1..(Length - bt.x[t].position) :
       LET b == bt.x[t].block IN
       \/ /\ b = NoBlock \/ bt.x[t].state = "leader"
          /\ bt' = Finish([bt EXCEPT !.x[t].position = @ + length], t)
       \/ /\ b # NoBlock /\ bt.x[t].state # "leader"
          /\ LET l == bt.blk[b].leader IN
             IF l = None \/ IsFinished(bt, b) \/ bt.x[t].position > bt.x[l].position
             THEN bt' = Throw(bt)
             ELSE \/ bt' = Finish(Compared(bt, t, length), t)
                  \/ /\ bt.dissimilar < MaxDissimilar
                     /\ bt.x[l].position > bt.x[t].position
                     /\ \E t0 \in NewTransfer(p) :
                          bt' = Finish(Dissimilar(bt, t, t0, length), t0)
  /\ UNCHANGED <<connected, stalls>>

(* RequestList::stall_prolonged(): Block::stalled() for what the peer has.  *)
Stall(p) ==
  LET ts == {t \in Current(p) \cup Queue(p) : bt.x[t].block # NoBlock}
      stall(s, t) ==
        IF s.x[t].stalled THEN s
        ELSE IF s.blk[s.x[t].block].notStalled = 0 THEN Throw(s)
        ELSE [s EXCEPT !.blk[s.x[t].block].notStalled = @ - 1, !.x[t].stalled = TRUE]
  IN  /\ ~bt.thrown
      /\ stalls < MaxStalled
      /\ ts # {}
      /\ bt' = FoldLeft(stall, bt, SetToSeq(ts))
      /\ stalls' = stalls + 1
      /\ UNCHANGED connected

(* delay_remove_choked() and delay_process_unordered() let go of requests   *)
(* the peer did not answer.                                                 *)
RemoveRequests(p) ==
  /\ ~bt.thrown
  /\ \E ts \in SUBSET Queue(p) : ts # {} /\ bt' = ReleaseAll(bt, ts)
  /\ UNCHANGED <<connected, stalls>>

Connect(p) ==
  /\ ~bt.thrown
  /\ p \notin connected
  /\ connected' = connected \cup {p}
  /\ UNCHANGED <<bt, stalls>>

(* PeerConnectionBase::cleanup(): RequestList::clear().                     *)
ClearRequests(s, p) ==
  LET cur == {t \in Ids : t[1] = p /\ s.x[t].held = "current"}
      que == {t \in Ids : t[1] = p /\ s.x[t].held = "queue"}
  IN  ReleaseAll(ReleaseAll(s, cur), que)

Disconnect(p) ==
  /\ ~bt.thrown
  /\ p \in connected
  /\ bt' = ClearRequests(bt, p)
  /\ connected' = connected \ {p}
  /\ UNCHANGED stalls

(* Block::~Block() of every block.                                          *)
DeleteList(s) ==
  LET bad(b) == s.blk[b].completed /\ s.blk[b].leader = None
      cleared == [s EXCEPT !.blk = [b \in Blocks |-> [@[b] EXCEPT !.leader = None]]]
      u == FoldLeft(LAMBDA r, b : InvalidateAll(r, b, Listed(r, b)), cleared, [b \in Blocks |-> b])
  IN  IF u.thrown \/ \E b \in Blocks : bad(b) \/ u.blk[b].notStalled # 0 THEN Throw(s)
      ELSE [NoList EXCEPT !.x = u.x, !.dissimilar = u.dissimilar]

(* Mutant: the blocks keep their leaders.                                   *)
DoAllFailedKeepsLeader(s) == [s EXCEPT !.finished = 0, !.attempt = 0, !.hashing = FALSE]

(* BlockList::do_all_failed(): failed_leader() and retry_transfer() of each *)
(* block.  The transfers that failed stay listed.                           *)
DoAllFailed(s) ==
  IF \E b \in Blocks : ~IsFinished(s, b) THEN Throw(s)
  ELSE [s EXCEPT !.finished = 0, !.attempt = 0, !.hashing = FALSE,
                 !.blk = [b \in Blocks |-> [@[b] EXCEPT !.leader = None, !.completed = FALSE]]]

(* The peer mark_and_disconnect_if_single_peer() finds, if any: that of the *)
(* first transfer, unless a later block has another.                        *)
SinglePeer(s) ==
  LET some  == {b \in Blocks : s.blk[b].transfers # <<>>}
      first == Min(some)
      peer  == s.blk[first].transfers[1][1]
      other == \E b \in some : b > first /\ \E t \in ToSet(s.blk[b].transfers) : t[1] # peer
  IN  IF some = {} \/ other THEN {} ELSE {peer}

(* receive_hash_done() of a chunk that is right: hash_succeeded().          *)
HashSucceeded ==
  /\ ~bt.thrown /\ bt.hashing
  /\ bt' = IF \E b \in Blocks : ~IsFinished(bt, b) THEN Throw(bt) ELSE DeleteList(bt)
  /\ UNCHANGED <<connected, stalls>>

(* hash_failed(): a peer that sent all of it may be disconnected; the first *)
(* time the most popular data is hashed, then the chunk is downloaded       *)
(* again.                                                                   *)
HashFailed ==
  /\ ~bt.thrown /\ bt.hashing
  /\ \E drop \in SUBSET (SinglePeer(bt) \cap connected) :
       LET s == FoldLeft(ClearRequests, bt, SetToSeq(drop))
       IN  /\ connected' = connected \ drop
           /\ bt' = IF \E b \in Blocks : ~IsFinished(bt, b) THEN Throw(bt)
                    ELSE IF s.attempt = 0 THEN [s EXCEPT !.attempt = 1]
                    ELSE DoAllFailed(s)
  /\ UNCHANGED stalls

(* TransferList::clear() when the download is closed, its peers gone and    *)
(* its hash queue emptied.                                                  *)
ClearList ==
  /\ ~bt.thrown /\ bt.exists
  /\ connected = {}
  /\ bt' = DeleteList(bt)
  /\ UNCHANGED <<connected, stalls>>

Next ==
  \/ InsertList
  \/ \E p \in Peers, b \in Blocks : Insert(p, b)
  \/ \E p \in Peers : \/ Downloading(p) \/ DownloadingEmpty(p) \/ Receive(p)
                      \/ Stall(p) \/ RemoveRequests(p) \/ Connect(p) \/ Disconnect(p)
  \/ HashSucceeded \/ HashFailed
  \/ ClearList

Spec == Init /\ [][Next]_vars

-----------------------------------------------------------------------------
Attached(b) == {t \in Ids : bt.x[t].block = b}

(* Everything has its type; every transfer that names a block is listed by  *)
(* it, and a peer never has two of one block.  m_notStalled, by which the   *)
(* delegator decides whether a block needs another peer, counts those that  *)
(* have not stalled, whichever side let go of the others first, as long as  *)
(* no peer sent data that differs from the leader's.                        *)
TransfersMatch ==
  /\ TypeOK
  /\ \A b \in Blocks :
       /\ Attached(b) \subseteq Listed(bt, b)
       /\ \A t, u \in Attached(b) : t[1] = u[1] => t = u
       /\ bt.dissimilar = 0 =>
            bt.blk[b].notStalled = Cardinality({t \in Attached(b) : ~bt.x[t].stalled})

(* A block with a transfer that does not lead has a leader, which is at     *)
(* least as far as every other, as PeerConnectionBase assumes.              *)
LeaderLeads ==
  \A b \in Blocks : \A t \in ToSet(bt.blk[b].transfers) :
    LET l == bt.blk[b].leader IN
    bt.x[t].state = "not_leader" =>
      l # None /\ bt.x[l].state = "leader" /\ bt.x[t].position <= bt.x[l].position

(* A chunk is in the hash queue exactly while all of its blocks are         *)
(* finished: none is stuck complete, none is hashed with a block missing.   *)
HashedWhenFinished ==
  ~bt.thrown => (bt.hashing <=> bt.exists /\ \A b \in Blocks : IsFinished(bt, b))

(* No internal_error of Block, TransferList or PeerConnectionBase's receive *)
(* path is thrown and no assertion of ~Block() fails, as long as no peer    *)
(* sent data that differs from the leader's.                                *)
NothingThrown == bt.dissimilar = 0 => ~bt.thrown
=============================================================================
