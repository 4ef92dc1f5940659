----------------------------- MODULE ChokeQueue -----------------------------
(***************************************************************************)
(* Who may transfer: the choke queues of one direction and the slots       *)
(* ResourceManager hands them.  A connection waits in, or is unchoked in,  *)
(* the group_entry of its download; the entries of the downloads of a      *)
(* choke group make that group's choke_queue; ResourceManager counts the   *)
(* unchoked of all groups against one maximum.  IsUp chooses between the   *)
(* upload and the download queues, which differ in what a choke does to    *)
(* the connection and in who asks to be queued.                            *)
(*                                                                         *)
(* The heuristics only rank connections: every operation that sorts takes  *)
(* a ranking w of the peers as an input.  The time of the last choke is    *)
(* left out: whether a connection has rested for ten seconds is an input.  *)
(***************************************************************************)
EXTENDS Integers, FiniteSets, Sequences, SequencesExt, FiniteSetsExt

CONSTANTS
  Peers, Downloads, Groups,
  DownloadOf,      \* the download each peer connects to
  SlotLimits,      \* inputs of set_uploads_max() and set_downloads_max(), 0 for unlimited
  SlotMinimums,    \* inputs of set_uploads_min() and set_downloads_min()
  GroupLimits,     \* inputs of choke_queue::set_max_unchoked(), by direction
  GlobalLimits     \* inputs of set_max_upload_unchoked(), 0 for unlimited

ASSUME ChokeAssumption ==
  /\ DownloadOf \in [Peers -> Downloads]
  /\ SlotLimits \subseteq Nat /\ SlotMinimums \subseteq Nat
  /\ GroupLimits \in [BOOLEAN -> SUBSET Nat] /\ GlobalLimits \subseteq Nat

(* Bound: uint32_t is narrowed to 24 bits, far above any count reached.     *)
UIntSize == 16777216
Unlimited == UIntSize - 1
Slots(v) == IF v = 0 THEN Unlimited ELSE v

VARIABLES
  IsUp,            \* the upload queues, not the download ones: never changes
  s,               \* connections, entries, queues and the manager's counter
  maxGlobal,       \* m_maxUploadUnchoked or m_maxDownloadUnchoked
  ticked           \* history: the last step was a tick of the manager

vars == <<IsUp, s, maxGlobal, ticked>>

(* queued, unchoked and snubbed are the flags of choke_status; inQueued and *)
(* inUnchoked the members of the group entries.                             *)
TypeOK ==
  /\ IsUp \in BOOLEAN
  /\ s \in [connected : SUBSET Peers, queued : SUBSET Peers, unchoked : SUBSET Peers,
            snubbed : SUBSET Peers, inQueued : SUBSET Peers, inUnchoked : SUBSET Peers,
            remote : SUBSET Peers, interested : SUBSET Peers,
            curQueued : [Groups -> Nat], curUnchoked : [Groups -> Nat], total : Nat,
            info : [Downloads -> Nat], group : [Downloads -> Groups],
            maxSlots : [Downloads -> Nat], minSlots : [Downloads -> Nat],
            maxUnchoked : [Groups -> Nat], thrown : BOOLEAN]
  /\ maxGlobal \in GlobalLimits
  /\ ticked \in BOOLEAN

Init ==
  /\ IsUp \in BOOLEAN
  /\ ticked = FALSE
  /\ \E g \in Groups, v \in GlobalLimits :
       /\ maxGlobal = v
       /\ s = [connected |-> {}, queued |-> {}, unchoked |-> {}, snubbed |-> {},
               inQueued |-> {}, inUnchoked |-> {}, remote |-> {}, interested |-> {},
               curQueued |-> [h \in Groups |-> 0], curUnchoked |-> [h \in Groups |-> 0],
               total |-> 0, info |-> [d \in Downloads |-> 0],
               group |-> [d \in Downloads |-> g],
               maxSlots |-> [d \in Downloads |-> Unlimited],
               minSlots |-> [d \in Downloads |-> 0],
               maxUnchoked |-> [h \in Groups |-> Unlimited], thrown |-> FALSE]

Throw(r) == [r EXCEPT !.thrown = TRUE]

Least(a, b) == IF a < b THEN a ELSE b
Most(a, b) == IF a < b THEN b ELSE a
GroupOf(r, p) == r.group[DownloadOf[p]]
InGroup(r, S, g) == {p \in S : GroupOf(r, p) = g}
InEntry(S, d) == {p \in S : DownloadOf[p] = d}
Fold(op(_, _), r, S) == FoldSet(LAMBDA p, acc : op(acc, p), r, S)

(* The orders by weight of the peers in the queues, and the n peers of S    *)
(* that a sort puts last.                                                   *)
Rankings ==
  LET W == s.inQueued \cup s.inUnchoked
  IN  {w \in [W -> 1..Cardinality(W)] : \A p, q \in W : w[p] = w[q] => p = q}

Highest(S, n, w) == {p \in S : Cardinality({q \in S : w[q] > w[p]}) < n}

-----------------------------------------------------------------------------
(* group_entry::connection_queued() and connection_unqueued() with the      *)
(* queue's counter, which every caller adjusts next.                        *)
ConnectionQueued(r, p) ==
  IF p \in r.inQueued THEN Throw(r)
  ELSE [r EXCEPT !.inQueued = @ \cup {p}, !.curQueued[GroupOf(r, p)] = @ + 1]

ConnectionUnqueued(r, p) ==
  IF p \notin r.inQueued THEN Throw(r)
  ELSE [r EXCEPT !.inQueued = @ \ {p}, !.curQueued[GroupOf(r, p)] = @ - 1]

ConnectionUnchoked(r, p) ==
  IF p \in r.inUnchoked THEN Throw(r)
  ELSE [r EXCEPT !.inUnchoked = @ \cup {p}, !.curUnchoked[GroupOf(r, p)] = @ + 1]

ConnectionChoked(r, p) ==
  IF p \notin r.inUnchoked THEN Throw(r)
  ELSE [r EXCEPT !.inUnchoked = @ \ {p}, !.curUnchoked[GroupOf(r, p)] = @ - 1]

(* receive_upload_choke(true) and receive_download_choke(true): a download  *)
(* connection that the remote peer still allows tells it that it is no      *)
(* longer interested, any other leaves the queue through set_not_queued().  *)
Choke(r, p) ==
  LET c == ConnectionQueued(
             ConnectionChoked([r EXCEPT !.unchoked = @ \ {p}, !.info[DownloadOf[p]] = @ - 1], p), p)
  IN  IF p \notin r.unchoked THEN Throw(r)
      ELSE IF IsUp THEN c
      ELSE IF p \in r.remote THEN [c EXCEPT !.interested = @ \ {p}]
      ELSE IF p \in r.queued THEN ConnectionUnqueued([c EXCEPT !.queued = @ \ {p}], p)
      ELSE c

(* What those handlers return: false after a choke left the queue.          *)
ChokeReturns(r, p) == IsUp \/ p \in r.remote

Unchoke(r, p) ==
  LET c == ConnectionUnchoked(
             ConnectionUnqueued([r EXCEPT !.unchoked = @ \cup {p}, !.info[DownloadOf[p]] = @ + 1], p), p)
  IN  IF p \in r.unchoked THEN Throw(r)
      ELSE IF IsUp THEN c ELSE [c EXCEPT !.interested = @ \cup {p}]

(* ResourceManager::receive_*_unchoke() and retrieve_*_can_unchoke().       *)
SlotUnchoke(r, n) == IF r.total + n < 0 THEN Throw(r) ELSE [r EXCEPT !.total = @ + n]
CanUnchoke(r) == IF maxGlobal = 0 THEN Unlimited ELSE maxGlobal - r.total

IsFull(r, g) == r.maxUnchoked[g] # Unlimited /\ r.curUnchoked[g] >= r.maxUnchoked[g]

(* Mutant: one connection more than there are slots.                        *)
ShouldConnectionUnchokeOneMore(r, p) == r.info[DownloadOf[p]] <= r.maxSlots[DownloadOf[p]]

ShouldConnectionUnchoke(r, p) == r.info[DownloadOf[p]] < r.maxSlots[DownloadOf[p]]

(* Joining the queue; the download queues have flag_unchoke_all_new.        *)
Enqueue(r, p, rested) ==
  LET q == ConnectionQueued(r, p)
  IN  IF /\ ~IsFull(q, GroupOf(q, p))
         /\ ~IsUp \/ CanUnchoke(q) > 0
         /\ ShouldConnectionUnchoke(q, p)
         /\ rested
      THEN SlotUnchoke(Unchoke(q, p), 1)
      ELSE q

SetQueued(r, p, rested) ==
  LET q == [r EXCEPT !.queued = @ \cup {p}]
  IN  IF p \in r.queued \cup r.unchoked THEN r
      ELSE IF p \in r.snubbed THEN q
      ELSE Enqueue(q, p, rested)

(* Mutant: a snubbed connection is taken from the entry it is not in.       *)
SetNotQueuedSnubbed(r, p) ==
  LET q == [r EXCEPT !.queued = @ \ {p}]
  IN  IF p \notin r.queued THEN r
      ELSE ConnectionUnqueued(IF p \in q.unchoked THEN SlotUnchoke(Choke(q, p), -1) ELSE q, p)

SetNotQueued(r, p) ==
  LET q == [r EXCEPT !.queued = @ \ {p}]
  IN  IF p \notin r.queued THEN r
      ELSE IF p \in r.snubbed THEN q
      ELSE ConnectionUnqueued(IF p \in q.unchoked THEN SlotUnchoke(Choke(q, p), -1) ELSE q, p)

SetSnubbed(r, p) ==
  LET q == [r EXCEPT !.snubbed = @ \cup {p}]
      c == IF p \in q.unchoked THEN SlotUnchoke(Choke(q, p), -1) ELSE q
  IN  IF p \in r.snubbed THEN r
      ELSE IF p \notin r.unchoked \cup r.queued THEN q
      ELSE [ConnectionUnqueued(c, p) EXCEPT !.queued = @ \ {p}]

SetNotSnubbed(r, p, rested) ==
  LET q == [r EXCEPT !.snubbed = @ \ {p}]
  IN  IF p \notin r.snubbed THEN r
      ELSE IF p \notin r.queued THEN q
      ELSE IF p \in r.unchoked THEN Throw(q)
      ELSE Enqueue(q, p, rested)

(* PeerConnectionBase::cleanup() with choke_queue::disconnected().          *)
Disconnected(r, p) ==
  LET c == IF p \in r.unchoked THEN [r EXCEPT !.info[DownloadOf[p]] = @ - 1] ELSE r
      q == IF p \in r.snubbed THEN c
           ELSE IF p \in r.unchoked THEN ConnectionChoked(SlotUnchoke(c, -1), p)
           ELSE IF p \in r.queued THEN ConnectionUnqueued(c, p)
           ELSE c
  IN  [q EXCEPT !.connected = @ \ {p}, !.queued = @ \ {p}, !.unchoked = @ \ {p},
                !.snubbed = @ \ {p}, !.remote = @ \ {p}, !.interested = @ \ {p}]

-----------------------------------------------------------------------------
(* prepare_weights() and retrieve_connections(): fill the minimum of every  *)
(* entry, and collect those that may be choked and those that may be        *)
(* unchoked.                                                                *)
RetrieveEntry(a, d, w) ==
  LET U == InEntry(a.r.inUnchoked, d)
      Q == InEntry(a.r.inQueued, d)
      min == Least(a.r.minSlots[d], a.r.maxSlots[d])
      fill == IF Cardinality(U) < min THEN Highest(Q, min - Cardinality(U), w) ELSE {}
      size == Cardinality(U) + Cardinality(fill)
      room == a.r.maxSlots[d] - size
  IN  [r |-> Fold(Unchoke, a.r, fill),
       queued |-> a.queued \cup (IF room > 0 THEN Highest(Q \ fill, room, w) ELSE {}),
       unchoked |-> a.unchoked \cup
                    (IF Cardinality(U) < min THEN {} ELSE Highest(U, Cardinality(U) - min, w)),
       now |-> a.now + (IF Cardinality(U) < min THEN size ELSE min),
       changed |-> a.changed + Cardinality(fill)]

RetrieveConnections(r, g, w) ==
  Fold(LAMBDA a, d : RetrieveEntry(a, d, w),
       [r |-> r, queued |-> {}, unchoked |-> {}, now |-> 0, changed |-> 0],
       {d \in Downloads : r.group[d] = g})

(* The change of slots that brings a group to its maximum, the manager      *)
(* having told b how many there are.                                        *)
Adjustment(r, g, a, b) ==
  Least(Least(r.maxUnchoked[g], 1048576) - (Cardinality(a.unchoked) + a.now), CanUnchoke(b))

(* adjust_choke_range() gives min(max, size) connections their slot: the    *)
(* module AllocateSlots shows it of the allocation, no weight being zero.   *)
AdjustBy(b, a, adjust, w) ==
  LET up == Highest(a.queued, adjust, w)
      down == Highest(a.unchoked, -adjust, w)
  IN  IF adjust > 0 THEN SlotUnchoke(Fold(Unchoke, b, up), Cardinality(up))
      ELSE IF adjust < 0 THEN SlotUnchoke(Fold(Choke, b, down), -Cardinality(down))
      ELSE b

Adjusted(r, g, w, a, b) == AdjustBy(b, a, Adjustment(r, g, a, b), w)

(* Mutant: the manager is not told of the slots that fill the minimum.      *)
BalanceRetrievedUntold(r, g, w, a) == Adjusted(r, g, w, a, a.r)

BalanceRetrieved(r, g, w, a) == Adjusted(r, g, w, a, SlotUnchoke(a.r, a.changed))

BalanceQueue(r, g, w) ==
  IF r.curUnchoked[g] = r.maxUnchoked[g] THEN r
  ELSE BalanceRetrieved(r, g, w, RetrieveConnections(r, g, w))

BalanceEntry(r, d, w) ==
  LET U == InEntry(r.inUnchoked, d)
      min == Least(r.minSlots[d], r.maxSlots[d])
      down == Highest(U, Cardinality(U) - r.maxSlots[d], w)
      up == Highest(InEntry(r.inQueued, d), min - Cardinality(U), w)
  IN  SlotUnchoke(Fold(Unchoke, Fold(Choke, r, down), up),
                  Cardinality(up) - Cardinality({p \in down : ChokeReturns(r, p)}))

MaxAlternate(n) == IF n < 31 THEN (n + 7) \div 8 ELSE (n + 9) \div 10

(* cycle() after retrieve_connections() returned a: the new state and the   *)
(* change in the number of unchoked.                                        *)
CycleResult(r, c, g, over) ==
  [r |-> IF over THEN Throw(c) ELSE c,
   change |-> Cardinality(InGroup(c, c.inUnchoked, g)) - Cardinality(InGroup(r, r.inUnchoked, g))]

CycleRetrieved(r, g, w, a, quota) ==
  LET size == Cardinality(a.unchoked)
      adjust == Least(Most(quota - size, MaxAlternate(r.curUnchoked[g])), quota)
      up == Highest(a.queued, adjust, w)
      down == Highest(a.unchoked, size + Cardinality(up) - quota, w)
  IN  CycleResult(r, Fold(Choke, Fold(Unchoke, a.r, up), down), g,
                  size + Cardinality(up) - Cardinality(down) > quota)

Quota(max, now) == max - Least(max, now)

Cycle(r, g, limit, w) ==
  LET a == RetrieveConnections(r, g, w)
  IN  CycleRetrieved(r, g, w, a, Quota(Least(limit, r.maxUnchoked[g]), a.now))

Requested(r, g) == Least(r.curQueued[g] + r.curUnchoked[g], r.maxUnchoked[g])

(* The orders std::sort may leave the groups in.                            *)
GroupOrders(r) ==
  {o \in [1..Cardinality(Groups) -> Groups] :
     /\ \A i, j \in DOMAIN o : o[i] = o[j] => i = j
     /\ \A i, j \in DOMAIN o : i < j => Requested(r, o[i]) <= Requested(r, o[j])}

(* Mutant: the slots a group uses are not taken from those of the next.     *)
AddCycleKeepsQuota(a, g, c) ==
  [r |-> c.r, change |-> a.change + c.change, quota |-> a.quota, weight |-> a.weight - 1]

AddCycle(a, g, c) ==
  [r |-> c.r, change |-> a.change + c.change,
   quota |-> (a.quota - c.r.curUnchoked[g]) % UIntSize, weight |-> a.weight - 1]

CycleGroup(a, g, w) ==
  AddCycle(a, g, Cycle(a.r, g, IF maxGlobal = 0 THEN Unlimited ELSE a.quota \div a.weight, w))

(* The manager's counter has to be the sum of the groups'.                  *)
Validated(r, order) ==
  IF r.total # FoldLeft(LAMBDA n, g : n + r.curUnchoked[g], 0, order) THEN Throw(r) ELSE r

AddChange(a) == [a.r EXCEPT !.total = @ + a.change]

(* ResourceManager::receive_tick() of this direction.                       *)
ReceiveTick(r, order, w) ==
  Validated(AddChange(FoldLeft(LAMBDA acc, g : CycleGroup(acc, g, w),
                               [r |-> r, change |-> 0, quota |-> maxGlobal, weight |-> Len(order)],
                               order)),
            order)

-----------------------------------------------------------------------------
Steps(r) == s' = r /\ ticked' = FALSE /\ UNCHANGED <<IsUp, maxGlobal>>

(* PeerConnectionBase::initialize(), of a download that is not done when    *)
(* it is the download queue that matters: the connection begins interested. *)
Connect(p) ==
  /\ ~s.thrown /\ p \notin s.connected
  /\ Steps([s EXCEPT !.connected = @ \cup {p},
                     !.interested = IF IsUp THEN @ ELSE @ \cup {p}])

Disconnect(p) ==
  /\ ~s.thrown /\ p \in s.connected
  /\ Steps(Disconnected(s, p))

(* read_message(), INTERESTED and NOT_INTERESTED.                           *)
ReadInterested(p) ==
  /\ ~s.thrown /\ IsUp /\ p \in s.connected
  /\ \E rested \in BOOLEAN : Steps(SetQueued(s, p, rested))

ReadNotInterested(p) ==
  /\ ~s.thrown /\ IsUp /\ p \in s.connected
  /\ Steps(SetNotQueued(s, p))

(* should_upload() of an initial seed that has nothing left to upload.      *)
ShouldUpload(p) ==
  /\ ~s.thrown /\ IsUp /\ p \in s.unchoked
  /\ Steps(SetQueued(SetNotQueued(s, p), p, FALSE))

(* PeerConnectionBase::set_upload_snubbed().                                *)
Snub(p) ==
  /\ ~s.thrown /\ IsUp /\ p \in s.connected
  /\ Steps(SetSnubbed(s, p))

Unsnub(p) ==
  /\ ~s.thrown /\ IsUp /\ p \in s.connected
  /\ \E rested \in BOOLEAN : Steps(SetNotSnubbed(s, p, rested))

(* read_message(), CHOKE and UNCHOKE.                                       *)
ReadChoke(p) ==
  /\ ~s.thrown /\ ~IsUp /\ p \in s.connected
  /\ Steps(SetNotQueued([s EXCEPT !.remote = @ \ {p}], p))

ReadUnchoke(p) ==
  /\ ~s.thrown /\ ~IsUp /\ p \in s.connected
  /\ LET r == [s EXCEPT !.remote = @ \cup {p}]
     IN  \E rested \in BOOLEAN : Steps(IF p \in r.interested THEN SetQueued(r, p, rested) ELSE r)

(* Mutant: a connection the remote peer chokes is queued too.               *)
ReadHaveChunkQueues(p) ==
  /\ ~s.thrown /\ ~IsUp /\ p \in s.connected \ s.interested
  /\ \E rested \in BOOLEAN :
       Steps(SetQueued([s EXCEPT !.interested = @ \cup {p}], p, rested))

(* read_have_chunk() of a chunk worth having.                               *)
ReadHaveChunk(p) ==
  /\ ~s.thrown /\ ~IsUp /\ p \in s.connected \ s.interested
  /\ LET r == [s EXCEPT !.interested = @ \cup {p}]
     IN  \E rested \in BOOLEAN : Steps(IF p \in r.remote THEN SetQueued(r, p, rested) ELSE r)

(* fill_write_buffer(): should_request(), and nothing left to request.      *)
NothingToRequest(p) ==
  /\ ~s.thrown /\ ~IsUp /\ p \in s.unchoked \cap s.interested \cap s.remote
  /\ Steps(SetNotQueued([s EXCEPT !.interested = @ \ {p}], p))

(* update_interested() when the priorities of the download change.          *)
UpdateInterested(p) ==
  /\ ~s.thrown /\ ~IsUp /\ p \in s.connected
  /\ Steps([s EXCEPT !.interested = @ \cup {p}])

(* Download::set_*_max() and set_*_min() with their balance_entry().        *)
SetMaxSlots(d) ==
  /\ ~s.thrown
  /\ \E v \in SlotLimits, w \in Rankings :
       Steps(BalanceEntry([s EXCEPT !.maxSlots[d] = Slots(v)], d, w))

SetMinSlots(d) ==
  /\ ~s.thrown
  /\ \E v \in SlotMinimums, w \in Rankings :
       Steps(BalanceEntry([s EXCEPT !.minSlots[d] = v], d, w))

SetMaxUnchoked(g) ==
  /\ ~s.thrown
  /\ \E v \in GroupLimits[IsUp] : Steps([s EXCEPT !.maxUnchoked[g] = Slots(v)])

Balance(g) ==
  /\ ~s.thrown
  /\ \E w \in Rankings : Steps(BalanceQueue(s, g, w))

SetMaxGlobal ==
  /\ ~s.thrown
  /\ maxGlobal' \in GlobalLimits
  /\ ticked' = FALSE
  /\ UNCHANGED <<IsUp, s>>

(* ResourceManager::set_group() with move_connections().                    *)
SetGroup(d, g) ==
  LET src == s.group[d]
      q == Cardinality(InEntry(s.inQueued, d))
      u == Cardinality(InEntry(s.inUnchoked, d))
  IN  /\ ~s.thrown /\ src # g
      /\ Steps([s EXCEPT !.group[d] = g,
                         !.curQueued[src] = @ - q, !.curUnchoked[src] = @ - u,
                         !.curQueued[g] = @ + q, !.curUnchoked[g] = @ + u])

Tick ==
  /\ ~s.thrown
  /\ \E w \in Rankings :
       \E order \in IF maxGlobal = 0 THEN {SetToSeq(Groups)} ELSE GroupOrders(s) :
         s' = ReceiveTick(s, order, w)
  /\ ticked' = TRUE
  /\ UNCHANGED <<IsUp, maxGlobal>>

Next ==
  \/ \E p \in Peers : \/ Connect(p) \/ Disconnect(p)
                      \/ ReadInterested(p) \/ ReadNotInterested(p) \/ ShouldUpload(p)
                      \/ Snub(p) \/ Unsnub(p)
                      \/ ReadChoke(p) \/ ReadUnchoke(p) \/ ReadHaveChunk(p)
                      \/ NothingToRequest(p) \/ UpdateInterested(p)
  \/ \E d \in Downloads : SetMaxSlots(d) \/ SetMinSlots(d)
  \/ \E g \in Groups : SetMaxUnchoked(g) \/ Balance(g)
  \/ SetMaxGlobal
  \/ \E d \in Downloads, g \in Groups : SetGroup(d, g)
  \/ Tick

Spec == Init /\ [][Next]_vars

-----------------------------------------------------------------------------
(* Everything has its type, and the copies of one fact agree.  The flags of *)
(* a connection and the entry's lists tell the same: unchoked by its flag   *)
(* and by the list, waiting when it asked for a slot and is neither         *)
(* unchoked nor snubbed.  The counters kept apart from the lists, by each   *)
(* queue, by each download and by the manager, agree with them, whoever     *)
(* choked and was told of it.                                               *)
CountersMatch ==
  /\ TypeOK
  /\ s.inUnchoked = s.unchoked
  /\ s.inQueued = s.queued \ (s.unchoked \cup s.snubbed)
  /\ s.unchoked \subseteq (s.queued \cap s.connected) \ s.snubbed
  /\ \A g \in Groups :
       /\ s.curQueued[g] = Cardinality(InGroup(s, s.inQueued, g))
       /\ s.curUnchoked[g] = Cardinality(InGroup(s, s.inUnchoked, g))
  /\ \A d \in Downloads : s.info[d] = Cardinality(InEntry(s.inUnchoked, d))
  /\ s.total = Cardinality(s.inUnchoked)

(* No download has more unchoked than its slots, although unchoking is done *)
(* in four places that check different counters.                            *)
SlotsRespected ==
  \A d \in Downloads : Cardinality(InEntry(s.inUnchoked, d)) <= s.maxSlots[d]

(* A connection holds a place in the download queue only while the remote   *)
(* peer has it unchoked: what balance_entry()'s counting depends on, since  *)
(* receive_download_choke() returns false for any other.                    *)
QueuedWhileRemoteUnchoked == ~IsUp => s.inQueued \cup s.inUnchoked \subseteq s.remote

(* No internal_error of choke_queue, group_entry, PeerConnectionBase or     *)
(* ResourceManager::receive_tick() is thrown.                               *)
NothingThrown == ~s.thrown

(* After a tick no more are unchoked than the maximum allows, when no       *)
(* download claims a minimum, and every download has its minimum if enough  *)
(* of its peers ask.                                                        *)
TickKeepsLimits ==
  ticked =>
    /\ maxGlobal # 0 /\ (\A d \in Downloads : s.minSlots[d] = 0) => s.total <= maxGlobal
    /\ \A d \in Downloads :
         LET U == Cardinality(InEntry(s.inUnchoked, d))
             Q == Cardinality(InEntry(s.inQueued, d))
         IN  U >= Least(U + Q, Least(s.minSlots[d], s.maxSlots[d]))
=============================================================================
