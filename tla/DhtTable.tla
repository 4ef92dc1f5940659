------------------------------ MODULE DhtTable ------------------------------
(***************************************************************************)
(* The routing table of the DHT: DhtRouter with its DhtBuckets and         *)
(* DhtNodes, and the DhtTrackers that hold the peers other nodes announce  *)
(* to us.  Node ids are the numbers 0..2^Bits-1 in the order the code      *)
(* compares them in; a bucket is named by the end of its range, which is   *)
(* its key in m_routingTable.  Time passes in steps of the fifteen minutes *)
(* between two receive_timeout()s.                                         *)
(*                                                                         *)
(* The queries themselves (pings and searches) are the subject of          *)
(* DhtSearches; here a reply, a query or a failed query of any node may    *)
(* arrive at any time.  The cache of the compact node list and the mtime   *)
(* of a bucket only decide how often lists and searches are made, and are  *)
(* left out.                                                               *)
(***************************************************************************)
EXTENDS Integers, FiniteSets, SequencesExt, TLC

CONSTANTS
  Bits,               \* ids have this many bits (160 in the code)
  Own,                \* our id
  Ids,                \* the ids of the other nodes
  NumNodes,           \* DhtBucket::num_nodes
  MaxFailed,          \* DhtNode::max_failed_replies
  RemoveAge,          \* timeout_remove_node, in steps of 15 minutes
  BootstrapComplete,  \* num_bootstrap_complete
  MaxContacts,        \* num_bootstrap_contacts
  MaxPeers,           \* DhtTracker::max_size
  Scenes,             \* which of the two parts, "table" and "peers", moves
  RestartLate         \* whether the server is started again after it has
                      \* dropped its contacts

VARIABLE s

NoBucket == -1
NoContacts == -1
Gone == [here |-> FALSE]
Top == 2 ^ Bits - 1
\* Whole periods of 15 minutes; an age past the last one that matters is old.
Older(a) == IF a > RemoveAge THEN a ELSE a + 1

-----------------------------------------------------------------------------
(* DhtNode *)

NewNode == [here |-> TRUE, age |-> 0, active |-> FALSE, inact |-> 0, b |-> NoBucket]
IsGood(n) == n.active
IsBad(n) == n.inact >= MaxFailed
UpdateNode(n) == [n EXCEPT !.active = n.age < 1]

Known(t) == {i \in Ids : t.node[i].here}

-----------------------------------------------------------------------------
(* DhtBucket *)

EmptyBucket(lo, hi) == [lo |-> lo, hi |-> hi, m |-> <<>>, good |-> 0, bad |-> 0,
                        parent |-> NoBucket, child |-> NoBucket]
InRange(b, i) == b.lo <= i /\ i <= b.hi
IsFull(b) == Len(b.m) >= NumNodes
HasSpace(b) == ~IsFull(b) \/ b.bad > 0

AddTo(b, i, n) ==
  [b EXCEPT !.m = Append(@, i),
            !.good = IF IsGood(n) THEN @ + 1 ELSE @,
            !.bad = IF ~IsGood(n) /\ IsBad(n) THEN @ + 1 ELSE @]

RemoveFromKeepsGood(b, i, n) ==
  [b EXCEPT !.m = SelectSeq(@, LAMBDA j : j # i),
            !.bad = IF IsBad(n) THEN @ - 1 ELSE @]
RemoveFrom(b, i, n) ==
  [b EXCEPT !.m = SelectSeq(@, LAMBDA j : j # i),
            !.good = IF IsGood(n) THEN @ - 1 ELSE @,
            !.bad = IF ~IsGood(n) /\ IsBad(n) THEN @ - 1 ELSE @]

Count(b, node) ==
  [b EXCEPT !.good = Cardinality({i \in ToSet(b.m) : IsGood(node[i])}),
            !.bad = Cardinality({i \in ToSet(b.m) : IsBad(node[i])})]

\* find_replacement_candidate: the first bad node, or else the one that has
\* been silent longest (the first of them).
Candidate(b, node) ==
  IF \E k \in DOMAIN b.m : IsBad(node[b.m[k]])
  THEN b.m[CHOOSE k \in DOMAIN b.m : /\ IsBad(node[b.m[k]])
                                     /\ \A j \in 1..(k - 1) : ~IsBad(node[b.m[j]])]
  ELSE b.m[CHOOSE k \in DOMAIN b.m :
             \A j \in DOMAIN b.m : \/ node[b.m[j]].age < node[b.m[k]].age
                                   \/ node[b.m[j]].age = node[b.m[k]].age /\ j >= k]

\* The two halves of a bucket, with the router's own id in the child.
SplitHalves(b, node, mid) ==
  <<Count([EmptyBucket(b.lo, mid) EXCEPT !.m = SelectSeq(b.m, LAMBDA i : i <= mid)], node),
    Count([b EXCEPT !.lo = mid + 1, !.m = SelectSeq(b.m, LAMBDA i : i > mid)], node)>>

SplitLinkedOneWay(t, other, this) ==
  (other.hi :> [other EXCEPT !.child = IF InRange(other, Own) THEN NoBucket ELSE this.hi])
  @@ (this.hi :> [this EXCEPT !.child = IF InRange(other, Own) THEN other.hi ELSE @])
  @@ t.table
SplitLinked(t, other, this) ==
  IF InRange(other, Own)
  THEN (other.hi :> [other EXCEPT !.parent = this.hi])
       @@ (this.hi :> [this EXCEPT !.child = other.hi]) @@ t.table
  ELSE LET parent == IF this.parent = NoBucket THEN <<>>
                     ELSE this.parent :> [t.table[this.parent] EXCEPT !.child = other.hi]
       IN (other.hi :> [other EXCEPT !.parent = this.parent, !.child = this.hi])
          @@ (this.hi :> [this EXCEPT !.parent = other.hi]) @@ parent @@ t.table

\* DhtBucketChain: the bucket, its children, then its parents.
ChildrenOf(t, b) ==
  FoldSet(LAMBDA h, seen : LET c == t.table[Last(seen)].child
                           IN IF c = NoBucket THEN seen ELSE Append(seen, c),
          <<b>>, DOMAIN t.table)
ParentsOf(t, b) ==
  Tail(FoldSet(LAMBDA h, seen : LET p == t.table[Last(seen)].parent
                                IN IF p = NoBucket THEN seen ELSE Append(seen, p),
               <<b>>, DOMAIN t.table))
Chain(t, b) == ChildrenOf(t, b) \o ParentsOf(t, b)

\* build_full_cache: the nodes a find_node query is answered with.
Usable(t, chain) ==
  FlattenSeq([k \in DOMAIN chain |->
                SelectSeq(t.table[chain[k]].m, LAMBDA i : ~IsBad(t.node[i]))])
Truncated(near) == SubSeq(near, 1, IF Len(near) < NumNodes THEN Len(near) ELSE NumNodes)
FullBucket(t, b) == Truncated(Usable(t, Chain(t, b)))

-----------------------------------------------------------------------------
(* DhtRouter: the table *)

FindBucket(t, i) ==
  CHOOSE h \in DOMAIN t.table : h >= i /\ \A g \in DOMAIN t.table : g >= i => h <= g

WantNode(t, i) ==
  /\ i # Own /\ i # 0
  /\ FindBucket(t, i) = t.own \/ HasSpace(t.table[FindBucket(t, i)])

DeleteNode(t, i) ==
  [t EXCEPT !.node[i] = Gone,
            !.table = IF t.node[i].b = NoBucket THEN @
                      ELSE [@ EXCEPT ![t.node[i].b] = RemoveFrom(@, i, t.node[i])]]

\* The nodes of the lower half follow it; the router moves into the child.
SplitAt(t, this, mid) ==
  LET halves == SplitHalves(t.table[this], t.node, mid)
      table == SplitLinked(t, halves[1], halves[2])
      moved == ToSet(halves[1].m)
  IN [t EXCEPT !.table = table,
               !.node = [i \in Ids |-> IF i \in moved THEN [@[i] EXCEPT !.b = mid] ELSE @[i]],
               !.own = IF table[@].child # NoBucket THEN table[@].child ELSE @]

SplitBucket(t, this) ==
  LET u == SplitAt(t, this, (t.table[this].lo + t.table[this].hi) \div 2)
  IN IF InRange(u.table[u.own], Own) THEN u ELSE [u EXCEPT !.thrown = TRUE]

\* One turn of the while loop of add_node_to_bucket(): <<table, going on>>.
PlaceStep(t, i) ==
  LET h == FindBucket(t, i)
      c == Candidate(t.table[h], t.node)
  IN CASE ~IsFull(t.table[h]) ->
            <<[t EXCEPT !.table[h] = AddTo(@, i, t.node[i]), !.node[i].b = h], FALSE>>
       [] IsFull(t.table[h]) /\ IsBad(t.node[c]) -> <<DeleteNode(t, c), TRUE>>
       [] IsFull(t.table[h]) /\ ~IsBad(t.node[c]) /\ h # t.own -> <<DeleteNode(t, i), FALSE>>
       [] OTHER -> <<SplitBucket(t, h), TRUE>>

\* Each turn removes a bad node or halves the bucket.
AddNodeToBucket(t, i) ==
  LET done == FoldSet(LAMBDA k, r : IF r[2] THEN PlaceStep(r[1], i) ELSE r,
                      <<t, TRUE>>, 0..(Bits + NumNodes))
  IN IF done[2] THEN [t EXCEPT !.thrown = TRUE] ELSE done[1]

NowGood(t, i) ==
  LET n == t.node[i] IN
  [t EXCEPT
     !.table = IF n.b = NoBucket \/ IsGood(n) THEN @
               ELSE [@ EXCEPT ![n.b].good = @ + 1,
                              ![n.b].bad = IF IsBad(n) THEN @ - 1 ELSE @],
     !.node[i].age = 0, !.node[i].inact = 0, !.node[i].active = TRUE]

NowBadKeepsGood(t, i) ==
  LET n == t.node[i] IN
  [t EXCEPT !.table = IF n.b = NoBucket THEN @ ELSE [@ EXCEPT ![n.b].bad = @ + 1],
            !.node[i].inact = MaxFailed, !.node[i].active = FALSE]
NowBad(t, i) ==
  LET n == t.node[i] IN
  [t EXCEPT
     !.table = IF n.b = NoBucket \/ IsBad(n) THEN @
               ELSE [@ EXCEPT ![n.b].bad = @ + 1,
                              ![n.b].good = IF IsGood(n) THEN @ - 1 ELSE @],
     !.node[i].inact = MaxFailed, !.node[i].active = FALSE]

\* The count of failures past the limit is not told apart.
Inactive(t, i) ==
  IF t.node[i].inact + 1 = MaxFailed THEN NowBad(t, i)
  ELSE [t EXCEPT !.node[i].inact = IF @ >= MaxFailed THEN @ ELSE @ + 1]

-----------------------------------------------------------------------------
(* DhtRouter: queries, replies and failures of nodes *)

\* `same` tells whether the sender has the address the node is known by.
RepliedKnown(t, i, same) ==
  IF ~t.node[i].here \/ ~same THEN t ELSE NowGood(t, i)

\* A new node takes the address of the reply.
NodeReplied(t, i, same) ==
  IF t.node[i].here THEN RepliedKnown(t, i, same)
  ELSE IF ~WantNode(t, i) THEN t
  ELSE RepliedKnown(AddNodeToBucket([t EXCEPT !.node[i] = NewNode], i), i, TRUE)

NodeQueried(t, i, same) == RepliedKnown(t, i, same)

NodeInactive(t, i, same) ==
  LET u == Inactive(t, i) IN
  IF ~t.node[i].here \/ ~same THEN t
  ELSE IF IsBad(u.node[i]) /\ u.node[i].age >= RemoveAge THEN DeleteNode(u, i)
  ELSE u

-----------------------------------------------------------------------------
(* DhtTracker: the peers of one torrent, [addr, age] *)

\* The port of a peer is not told apart; an announce with port 0 is ignored.
AddPeer(p, a) ==
  LET known == {k \in DOMAIN p : p[k].addr = a}
      oldest == CHOOSE k \in DOMAIN p :
                  \A j \in DOMAIN p : \/ p[j].age < p[k].age
                                      \/ p[j].age = p[k].age /\ j >= k
  IN CASE known # {} -> [k \in DOMAIN p |-> IF k \in known THEN [p[k] EXCEPT !.age = 0] ELSE p[k]]
       [] known = {} /\ Len(p) < MaxPeers -> Append(p, [addr |-> a, age |-> 0])
       [] OTHER -> [p EXCEPT ![oldest] = [addr |-> a, age |-> 0]]

\* timeout_peer_announce is 30 minutes.
PruneLater(p) == SelectSeq(p, LAMBDA q : q.age <= 3)
Prune(p) == SelectSeq(p, LAMBDA q : q.age <= 2)

-----------------------------------------------------------------------------
(* DhtRouter: start, stop and the timers *)

Passed(t) ==
  [t EXCEPT !.node = [i \in Ids |-> IF @[i].here THEN [@[i] EXCEPT !.age = Older(@)] ELSE @[i]],
            !.peers = [k \in DOMAIN @ |-> [@[k] EXCEPT !.age = IF @ > 3 THEN @ ELSE @ + 1]]]

UpdateAll(t, node) ==
  [t EXCEPT !.node = node,
            !.table = [h \in DOMAIN @ |-> Count(@[h], node)]]

\* m_curToken and m_prevToken: how many changes ago each address was last
\* handed a token.
RotateTokens(t) ==
  [t EXCEPT !.token = [a \in DOMAIN @ |-> IF @[a] > 1 THEN @[a] ELSE @[a] + 1]]

GenerateToken(t, a) == [t EXCEPT !.token[a] = 0]
TokenValid(t, a) == t.token[a] <= 1

ReceiveTimeout(t) ==
  LET u == UpdateAll(RotateTokens(t),
             [i \in Ids |-> IF t.node[i].here THEN UpdateNode(t.node[i]) ELSE Gone])
  IN [u EXCEPT !.peers = Prune(@), !.timer = "update",
               !.refresh = IF @ < 2 THEN @ + 1 ELSE @]

\* bootstrap() takes up to eight contacts from the back of the list.
Bootstrap(t) == [t EXCEPT !.contacts = IF @ > 8 THEN @ - 8 ELSE 0]

ReceiveTimeoutBootstrap(t) ==
  IF Cardinality(Known(t)) < BootstrapComplete
  THEN IF t.contacts = NoContacts THEN [t EXCEPT !.thrown = TRUE]
       ELSE [Bootstrap(t) EXCEPT !.timer = "bootstrap", !.refresh = 1]
  ELSE [(IF t.refresh = 0 THEN ReceiveTimeout(t) ELSE t)
          EXCEPT !.contacts = NoContacts, !.timer = "update", !.refresh = 2]

AddBootstrapContact(t) ==
  [t EXCEPT !.contacts = IF @ = NoContacts \/ @ >= MaxContacts THEN @ ELSE @ + 1]

Start(t) == [t EXCEPT !.active = TRUE, !.timer = "bootstrap"]
Stop(t) == [t EXCEPT !.active = FALSE, !.timer = "off"]

FreshRouter(t) ==
  [t EXCEPT !.node = [i \in Ids |-> Gone],
            !.table = Top :> EmptyBucket(0, Top), !.own = Top,
            !.contacts = NoContacts, !.refresh = 0, !.peers = <<>>,
            !.token = [a \in DOMAIN @ |-> 2]]

\* store_cache() keeps the nodes that are not bad; the constructor puts them
\* back in the order of their ids.
LoadNode(t, old, i) ==
  AddNodeToBucket([t EXCEPT !.node[i] =
                     UpdateNode([NewNode EXCEPT !.age = old[i].age])], i)

LoadNodes(t, old) ==
  FoldLeft(LAMBDA u, i : LoadNode(u, old, i), t,
           SetToSortSeq({i \in Ids : old[i].here /\ ~IsBad(old[i])}, LAMBDA x, y : x < y))

LoadContacts(t, kept) ==
  IF Cardinality(Known(t)) >= BootstrapComplete THEN t
  ELSE [t EXCEPT !.contacts = IF kept = NoContacts THEN 0 ELSE kept]

Reload(t) == LoadContacts(LoadNodes(FreshRouter(t), t.node), t.contacts)

-----------------------------------------------------------------------------
Addrs == {1, 2}

Empty == [node |-> [i \in Ids |-> Gone],
          table |-> Top :> EmptyBucket(0, Top), own |-> Top,
          contacts |-> 0, refresh |-> 0, timer |-> "off", active |-> FALSE,
          peers |-> <<>>, token |-> [a \in Addrs |-> 2], thrown |-> FALSE, scene |-> "table"]

\* The peers are looked at once the table is populated.
Populated == ReceiveTimeoutBootstrap(FoldSet(LAMBDA i, t : NodeReplied(t, i, TRUE),
                                             Start(Empty), Ids))

Init == \E c \in Scenes :
          s = [(IF c = "peers" THEN Populated ELSE Empty) EXCEPT !.scene = c]

Going == ~s.thrown
Table == Going /\ s.active /\ s.scene = "table"
Peers == Going /\ s.active /\ s.scene = "peers"
Replied == \E i \in Ids, same \in BOOLEAN : Table /\ s' = NodeReplied(s, i, same)
Queried == \E i \in Ids, same \in BOOLEAN :
  Table /\ s.node[i].here /\ s' = NodeQueried(s, i, same)
Failed == \E i \in Ids, same \in BOOLEAN :
  Table /\ s.node[i].here /\ s' = NodeInactive(s, i, same)
AskPeers == \E a \in Addrs : Peers /\ s' = GenerateToken(s, a)
AnnouncePeer == \E a \in Addrs :
  Peers /\ TokenValid(s, a) /\ s' = [s EXCEPT !.peers = AddPeer(@, a)]
BootstrapTimer ==
  Going /\ s.timer = "bootstrap" /\ s' = ReceiveTimeoutBootstrap(s)
Tick == Going /\ s.timer = "update" /\ s' = Passed(ReceiveTimeout(s))
AddContact == Going /\ s.scene = "table" /\ s' = AddBootstrapContact(s)
StartServer ==
  /\ Going /\ ~s.active
  /\ RestartLate \/ s.contacts # NoContacts
  /\ s' = Start(s)
StopServer == Going /\ s.active /\ s' = Stop(s)
SaveAndReload == Going /\ ~s.active /\ s' = Reload(s)

Next == Replied \/ Queried \/ Failed \/ AskPeers \/ AnnouncePeer \/ BootstrapTimer
        \/ Tick \/ AddContact \/ StartServer \/ StopServer \/ SaveAndReload

Spec == Init /\ [][Next]_s

-----------------------------------------------------------------------------
(* Properties *)

\* No internal_error of the router: its id never ends up outside its bucket
\* (split_bucket), a full bucket always yields a node or a split
\* (add_node_to_bucket), and the bootstrap timer always finds a contact list.
NothingThrown == ~s.thrown

\* Whatever splits, replacements, removals and reloads have happened, the
\* buckets tile the whole id space, every known node is exactly once in the
\* bucket its id falls in and points back at it, no bucket is overfull, and
\* the router's own bucket holds its own id and is the innermost.
TableTiles ==
  /\ \A i \in 0..Top : Cardinality({h \in DOMAIN s.table : InRange(s.table[h], i)}) = 1
  /\ \A i \in Known(s) : /\ InRange(s.table[s.node[i].b], i)
                         /\ Cardinality({k \in DOMAIN s.table[s.node[i].b].m :
                                           s.table[s.node[i].b].m[k] = i}) = 1
  /\ \A h \in DOMAIN s.table :
       /\ s.table[h].hi = h /\ Len(s.table[h].m) <= NumNodes
       /\ \A i \in ToSet(s.table[h].m) : s.node[i].here /\ s.node[i].b = h
  /\ InRange(s.table[s.own], Own) /\ s.table[s.own].child = NoBucket

\* From every bucket the chain of children and parents visits every bucket
\* once, so that a query is answered with as many usable nodes as fit,
\* however few of them are in the bucket asked for.
ChainVisitsAll ==
  \A h \in DOMAIN s.table :
    /\ Len(Chain(s, h)) = Cardinality(DOMAIN s.table)
    /\ ToSet(Chain(s, h)) = DOMAIN s.table
    /\ LET usable == {i \in Known(s) : ~IsBad(s.node[i])} IN
       Len(FullBucket(s, h)) = IF Cardinality(usable) < NumNodes
                               THEN Cardinality(usable) ELSE NumNodes

\* The counters a bucket keeps by increments agree with its nodes: the good
\* ones exactly, and no bad one is missed, so that a bucket with a node that
\* can be replaced never refuses a new one (want_node).
CountersMatch ==
  \A h \in DOMAIN s.table :
    LET b == s.table[h] IN
    /\ b.good = Cardinality({i \in ToSet(b.m) : IsGood(s.node[i])})
    /\ b.bad >= Cardinality({i \in ToSet(b.m) : IsBad(s.node[i])})

\* A peer is listed at most once, and not for longer than 45 minutes after
\* its last announce while the housekeeping runs; the list stays in bounds.
PeersFresh ==
  /\ Len(s.peers) <= MaxPeers
  /\ \A j, k \in DOMAIN s.peers : s.peers[j].addr = s.peers[k].addr => j = k
  /\ \A k \in DOMAIN s.peers : s.peers[k].age <= 3
=============================================================================
