----------------------------- MODULE PeerLists -----------------------------
(***************************************************************************)
(* The book-keeping of the peers of one download on the main thread.       *)
(*                                                                         *)
(* PeerList keeps a PeerInfo per known host (a multimap: a host that is    *)
(* already connected gets a second one), AvailableList the addresses still *)
(* to be tried, HandshakeManager the handshakes under way and              *)
(* ConnectionList the finished connections.  A handshake or a connection   *)
(* owns its PeerInfo through a raw pointer and the flag flag_connected;    *)
(* the block transfers keep PeerInfo pointers of their own, counted in     *)
(* transfer_counter.  cull_peers() frees the rest once an hour.            *)
(*                                                                         *)
(* Ids are the heap slots a PeerInfo may be allocated in.  A handshake is  *)
(* named by its socket.  Times are reduced to what the code asks of them:  *)
(* whether the last handshake was less than 600 seconds ago and the last   *)
(* connection more than a day.                                             *)
(***************************************************************************)
EXTENDS Integers, Sequences, FiniteSets, SequencesExt

CONSTANTS Hosts,      \* remote hosts, compared by sa_less
          Ids,        \* slots for PeerInfo objects
          Socks,      \* slots for handshakes
          MaxFailed,  \* HandshakeManager::max_failed
          MinSize,    \* ConnectionList::m_minSize
          Sizes,      \* the values given to set_max_size
          MaxAvail,   \* AvailableList::max_size
          Scenes,     \* what happens beside connecting: "transfers", "closing"
          SeedEnds    \* may initial seeding end while a connection starts?

VARIABLE s

Null == 0
Listening == 1        \* the port a host listens on
Ephemeral == 2        \* the port its outgoing connections come from

NoInfo == [host |-> Null, port |-> 0, listen |-> 0, connected |-> FALSE,
           handshake |-> FALSE, link |-> FALSE,
           recent |-> FALSE, old |-> TRUE, failed |-> 0, transfers |-> 0]
NoShake == [up |-> FALSE, host |-> Null, info |-> Null, incoming |-> FALSE, retrying |-> FALSE]

\* infos and order are the multimap: order lists the live slots, and keeps the
\* order of insertion among the PeerInfos of one host.  got is the pointer the
\* last call of connected() returned, forgotten between steps; seeds are the
\* hosts with a complete bitfield.
NewDownload(scene, max, seeds) ==
  [scene |-> scene, info |-> [i \in Ids |-> NoInfo], order |-> <<>>, avail |-> {}, seeds |-> seeds,
   shakes |-> [k \in Socks |-> NoShake], conns |-> <<>>, max |-> max,
   accepting |-> TRUE, active |-> FALSE, done |-> FALSE, queue |-> {}, delayed |-> FALSE,
   transfers |-> {}, got |-> Null, thrown |-> FALSE]

Init == \E scene \in Scenes, m \in Sizes, seeds \in SUBSET Hosts :
  (scene = "transfers" => seeds = {}) /\ m >= MinSize /\ s = NewDownload(scene, m, seeds)

Throw(t) == [t EXCEPT !.thrown = TRUE]
Live(t) == ToSet(t.order)
OfHost(t, h) == SelectSeq(t.order, LAMBDA i : t.info[i].host = h)
Free(t) == Ids \ Live(t)
FreeSocks(t) == {k \in Socks : ~t.shakes[k].up}
\* Handshakes that know their download, as HandshakeManager::size_info counts.
SizeInfo(t) == Cardinality({k \in Socks : t.shakes[k].up /\ t.shakes[k].info # Null})
Settled(t) == [t EXCEPT !.got = Null]
Smallest(S) == CHOOSE x \in S : \A y \in S : x <= y

-----------------------------------------------------------------------------
(* PeerList and AvailableList *)

NewInfo(t, h, p) ==
  LET i == Smallest(Free(t)) IN
  [t EXCEPT !.info[i] = [NoInfo EXCEPT !.host = h, !.port = p],
            !.order = Append(@, i), !.got = i]

\* An entry is created for an unknown host, reused when it is not connected,
\* and duplicated when it is.
FindOrCreate(t, h, p) ==
  LET range == OfHost(t, h) IN
  IF range # <<>> /\ ~t.info[range[1]].connected
  THEN [t EXCEPT !.info[range[1]].port = p, !.got = range[1]]
  ELSE NewInfo(t, h, p)

Claim(t, p, incoming, filter) ==
  IF filter /\ t.info[t.got].recent THEN [t EXCEPT !.got = Null]
  ELSE [t EXCEPT !.info[t.got].connected = TRUE, !.info[t.got].recent = TRUE,
                 !.info[t.got].listen = IF incoming THEN @ ELSE p]
Connected(t, h, p, incoming, filter) == Claim(FindOrCreate(t, h, p), p, incoming, filter)

Disconnected(t, i, setTime) ==
  IF i \notin Live(t) \/ ~t.info[i].connected THEN Throw(t)
  ELSE [t EXCEPT !.info[i].connected = FALSE, !.info[i].port = 0,
                 !.info[i].old = IF setTime THEN FALSE ELSE @]

InsertAddress(t, h) ==
  IF OfHost(t, h) # <<>> THEN t
  ELSE LET u == NewInfo(t, h, Listening) IN
       [u EXCEPT !.info[u.got].listen = Listening, !.avail = @ \cup {h}]

InsertOne(t, h) ==
  LET range == OfHost(t, h)
      i == range[1]
      known == range # <<>>
      u == IF known /\ t.info[i].listen = 0 THEN [t EXCEPT !.info[i].port = Listening] ELSE t IN
  IF Cardinality(t.avail) >= MaxAvail THEN t
  ELSE IF known /\ (t.info[i].link \/ t.info[i].recent) THEN u
  ELSE [u EXCEPT !.avail = @ \cup {h}]
InsertAvailable(t, hosts) == FoldLeft(InsertOne, t, SetToSortSeq(hosts, <))

CullPeersIgnoresTransfers(t) ==
  LET keep(i) == t.info[i].connected \/ ~t.info[i].old \/ t.info[i].failed # 0 IN
  [t EXCEPT !.order = SelectSeq(@, keep),
            !.info = [i \in Ids |-> IF i \in Live(t) /\ keep(i) THEN @[i] ELSE NoInfo]]
CullPeers(t) ==
  LET keep(i) == \/ t.info[i].connected \/ t.info[i].transfers # 0
                 \/ ~t.info[i].old \/ t.info[i].failed # 0 IN
  [t EXCEPT !.order = SelectSeq(@, keep),
            !.info = [i \in Ids |-> IF i \in Live(t) /\ keep(i) THEN @[i] ELSE NoInfo]]

-----------------------------------------------------------------------------
(* ConnectionList *)

SetAccepting(t) == [t EXCEPT !.accepting = Len(t.conns) < t.max]

WantConnection(t, seeder) == t.done => ~seeder

\* initialize() leaves no descriptor when initial seeding ended meanwhile.
ConnectionInsert(t, i, seeder, seedEnds) ==
  IF Len(t.conns) >= t.max THEN [t EXCEPT !.got = Null]
  ELSE LET u == [t EXCEPT !.info[i].link = TRUE, !.info[i].old = FALSE] IN
       IF seedEnds THEN [u EXCEPT !.got = Null]
       ELSE SetAccepting([u EXCEPT !.conns = Append(@, [info |-> i, seeder |-> seeder]), !.got = i])

EraseAtKeepsLink(t, k) ==
  LET c == t.conns[k] IN
  Disconnected(SetAccepting([t EXCEPT !.conns = RemoveAt(@, k)]), c.info, TRUE)
EraseAt(t, k) ==
  LET c == t.conns[k]
      u == SetAccepting([t EXCEPT !.conns = RemoveAt(@, k)]) IN
  Disconnected([u EXCEPT !.info[c.info].link = FALSE], c.info, TRUE)

EraseInfo(t, i) ==
  LET at == {k \in DOMAIN t.conns : t.conns[k].info = i} IN
  IF at = {} THEN t ELSE EraseAt(t, Smallest(at))

EraseDelayed(t, k) == [t EXCEPT !.queue = @ \cup {t.info[t.conns[k].info].host}, !.delayed = TRUE]

\* One connection at a time, the wanted ones having been moved to the front.
EraseRemaining(t, drop) == FoldLeft(EraseInfo, t, Reverse(SelectSeq(t.order, LAMBDA i : i \in drop)))
EraseSeeders(t) == EraseRemaining(t, {c.info : c \in {x \in ToSet(t.conns) : x.seeder}})

\* The queue holds peer ids; the first connection with the id is erased.
DisconnectOne(t, h) ==
  LET at == {k \in DOMAIN t.conns : t.info[t.conns[k].info].host = h} IN
  IF at = {} THEN t ELSE EraseAt(t, Smallest(at))
DisconnectQueued(t) ==
  [FoldLeft(DisconnectOne, t, SetToSortSeq(t.queue, <)) EXCEPT !.queue = {}, !.delayed = FALSE]

SetMaxSize(t, v) == SetAccepting([t EXCEPT !.max = v])

-----------------------------------------------------------------------------
(* HandshakeManager *)

DestroyConnection(t, k) ==
  LET i == t.shakes[k].info
      u == [t EXCEPT !.shakes[k] = NoShake] IN
  IF i = Null THEN u
  ELSE LET v == Disconnected(u, i, FALSE) IN [v EXCEPT !.info[i].handshake = FALSE]

CreateOutgoingKeepsFlag(t, h, retrying, opens) ==
  LET u == Connected(t, h, Listening, FALSE, ~retrying) IN
  IF u.got = Null \/ ~opens THEN u
  ELSE [u EXCEPT !.info[u.got].handshake = TRUE,
                 !.shakes[Smallest(FreeSocks(u))] =
                   [up |-> TRUE, host |-> h, info |-> u.got, incoming |-> FALSE, retrying |-> retrying]]
\* opens: does the socket open and connect?
CreateOutgoing(t, h, retrying, opens) ==
  LET u == Connected(t, h, Listening, FALSE, ~retrying) IN
  IF u.got = Null \/ u.info[u.got].failed > MaxFailed THEN u
  ELSE IF ~opens THEN Disconnected(u, u.got, FALSE)
  ELSE [u EXCEPT !.info[u.got].handshake = TRUE,
                 !.shakes[Smallest(FreeSocks(u))] =
                   [up |-> TRUE, host |-> h, info |-> u.got, incoming |-> FALSE, retrying |-> retrying]]

AddIncoming(t, h) ==
  [t EXCEPT !.shakes[Smallest(FreeSocks(t))] = [NoShake EXCEPT !.up = TRUE, !.host = h, !.incoming = TRUE]]

\* The handshake of an incoming connection has named the download: it is
\* refused, or given a PeerInfo.
PreparePeerInfo(t, k) ==
  LET h == t.shakes[k].host
      u == Connected(t, h, Ephemeral, TRUE, FALSE)
      v == [u EXCEPT !.shakes[k].info = u.got] IN
  IF ~t.active \/ ~t.accepting THEN DestroyConnection(t, k)
  ELSE IF v.info[v.got].failed > MaxFailed THEN DestroyConnection(v, k)
  ELSE [v EXCEPT !.info[v.got].handshake = TRUE]

Transfer(t, i, seeder, seedEnds) ==
  LET u == ConnectionInsert(t, i, seeder, seedEnds) IN
  IF u.got = Null THEN Disconnected(u, i, FALSE) ELSE u
ReceiveSucceeded(t, k, seeder, seedEnds) ==
  LET i == t.shakes[k].info IN
  IF ~t.active \/ ~WantConnection(t, seeder) THEN DestroyConnection(t, k)
  ELSE Transfer([t EXCEPT !.shakes[k] = NoShake, !.info[i].handshake = FALSE], i, seeder, seedEnds)

\* retry: the encryption policy asks for another attempt.
ReceiveFailed(t, k, retry, opens) ==
  LET x == t.shakes[k] IN
  IF x.incoming \/ x.retrying \/ ~retry THEN DestroyConnection(t, k)
  ELSE CreateOutgoing(DestroyConnection(t, k), x.host, TRUE, opens)

EraseDownload(t) ==
  FoldLeft(DestroyConnection, t,
           SetToSortSeq({k \in Socks : t.shakes[k].up /\ t.shakes[k].info # Null}, <))

-----------------------------------------------------------------------------
(* DownloadMain *)

\* A turn of the loop of receive_connect_peers for the host that pop_random
\* picked; fails are the hosts that no socket can be connected to.
ConnectOne(t, h, fails) ==
  IF \/ Len(t.conns) >= MinSize
     \/ Len(t.conns) + SizeInfo(t) >= t.max
     \/ FreeSocks(t) = {} \/ Free(t) = {}
  THEN t
  ELSE LET u == [t EXCEPT !.avail = @ \ {h}] IN
       IF \E c \in ToSet(u.conns) : u.info[c.info].host = h /\ u.info[c.info].port = Listening
       THEN u ELSE CreateOutgoing(u, h, FALSE, h \notin fails)
ConnectIn(t, picks, fails) == FoldLeft(LAMBDA u, h : ConnectOne(u, h, fails), t, picks)
ReceiveConnectPeers(t, picks, fails) == IF ~t.active THEN t ELSE ConnectIn(t, picks, fails)

ReceiveCorruptChunk(t, i) ==
  LET u == [t EXCEPT !.info[i].failed = @ + 1] IN
  IF u.info[i].failed > MaxFailed THEN EraseInfo(u, i) ELSE u

StopKeepsShakes(t) ==
  LET u == [t EXCEPT !.active = FALSE] IN
  [EraseRemaining(u, {c.info : c \in ToSet(u.conns)}) EXCEPT !.delayed = FALSE]
Stop(t) ==
  LET u == EraseDownload([t EXCEPT !.active = FALSE]) IN
  [EraseRemaining(u, {c.info : c \in ToSet(u.conns)}) EXCEPT !.delayed = FALSE]

-----------------------------------------------------------------------------
(* Transitions.  A PeerInfo or a handshake is only created while a slot is   *)
(* left: the bounds Ids and Socks.  A scene bounds what happens beside        *)
(* connecting.                                                               *)

Going == ~s.thrown
Room == Free(s) # {} /\ FreeSocks(s) # {}
Picks == IF Going THEN SetToSeqs(s.avail) ELSE {}

Known == \E h \in Hosts : Going /\ Free(s) # {} /\ s' = Settled(InsertAddress(s, h))
TrackerPeers == \E H \in SUBSET Hosts \ {{}}, fails \in SUBSET Hosts :
  /\ Going
  /\ LET t == InsertAvailable(s, H) IN
     \E picks \in SetToSeqs(t.avail) : s' = Settled(ReceiveConnectPeers(t, picks, fails))
PexPeers == \E H \in SUBSET Hosts \ {{}} : Going /\ s' = InsertAvailable(s, H)
Tick == \E fails \in SUBSET Hosts, picks \in Picks : Going /\ s' = Settled(ReceiveConnectPeers(s, picks, fails))
AddPeer == \E h \in Hosts, opens \in BOOLEAN : Going /\ Room /\ s' = Settled(CreateOutgoing(s, h, FALSE, opens))
Accept == \E h \in Hosts : Going /\ FreeSocks(s) # {} /\ s' = AddIncoming(s, h)
Named == \E k \in Socks :
  /\ Going /\ Free(s) # {} /\ s.shakes[k].up /\ s.shakes[k].info = Null
  /\ s' = Settled(PreparePeerInfo(s, k))
Succeeded == \E k \in Socks, ends \in {FALSE, SeedEnds} :
  /\ Going /\ s.shakes[k].up /\ s.shakes[k].info # Null
  /\ s' = Settled(ReceiveSucceeded(s, k, s.shakes[k].host \in s.seeds, ends))
Failed == \E k \in Socks, retry \in BOOLEAN, opens \in BOOLEAN :
  Going /\ s.shakes[k].up /\ (retry => Free(s) # {}) /\ s' = Settled(ReceiveFailed(s, k, retry, opens))
Closed == \E k \in DOMAIN s.conns : Going /\ s' = EraseAt(s, k)
CloseLater == \E k \in DOMAIN s.conns : Going /\ s.scene = "closing" /\ s' = EraseDelayed(s, k)
DelayedClose == Going /\ s.delayed /\ s' = DisconnectQueued(s)
Finished == Going /\ s.scene = "closing" /\ s.active /\ ~s.done /\ s' = EraseSeeders([s EXCEPT !.done = TRUE])
\* A transfer takes its PeerInfo from a connection and may outlive it.
TransferBegins == \E k \in DOMAIN s.conns :
  LET i == s.conns[k].info IN
  /\ Going /\ s.scene = "transfers" /\ i \notin s.transfers
  /\ s' = [s EXCEPT !.transfers = @ \cup {i}, !.info[i].transfers = 1]
TransferEnds == \E i \in s.transfers, corrupt \in BOOLEAN :
  LET t == [s EXCEPT !.transfers = @ \ {i}, !.info[i].transfers = 0] IN
  /\ Going
  /\ corrupt => s.info[i].failed <= MaxFailed
  /\ s' = IF corrupt THEN ReceiveCorruptChunk(t, i) ELSE t
Cull == Going /\ s.scene = "transfers" /\ s' = CullPeers(s)
Resize == \E v \in Sizes : Going /\ s.scene = "closing" /\ s' = SetMaxSize(s, v)
StartDownload == \E fails \in SUBSET Hosts, picks \in Picks :
  Going /\ ~s.active /\ s' = Settled(ReceiveConnectPeers([s EXCEPT !.active = TRUE], picks, fails))
StopDownload == Going /\ s.active /\ s' = Stop(s)
\* Bound: all handshakes leave their 600 seconds, all connections their day,
\* at once.
TimePasses == \E day \in BOOLEAN :
  /\ Going
  /\ s' = [s EXCEPT !.info = [i \in Ids |->
             [@[i] EXCEPT !.recent = FALSE, !.old = @ \/ (day /\ ~s.info[i].link)]]]

Next == Known \/ TrackerPeers \/ PexPeers \/ Tick \/ AddPeer \/ Accept \/ Named \/ Succeeded
        \/ Failed \/ Closed \/ CloseLater \/ DelayedClose \/ Finished \/ TransferBegins
        \/ TransferEnds \/ Cull \/ Resize \/ StartDownload \/ StopDownload \/ TimePasses

Spec == Init /\ [][Next]_s

-----------------------------------------------------------------------------
(* Properties *)

Owners(t, i) == {<<"shake", k>> : k \in {x \in Socks : t.shakes[x].up /\ t.shakes[x].info = i}}
           \cup {<<"conn", k>> : k \in {x \in DOMAIN t.conns : t.conns[x].info = i}}

\* No internal_error: disconnected() always finds the PeerInfo, in its range
\* and marked connected.
NothingThrown == ~s.thrown

\* However handshakes, connections, retries and culling interleave, a PeerInfo
\* some handshake, connection or transfer points at is alive; handshakes and
\* connections never share one, and the one they own is marked connected, so
\* that cull_peers() leaves it alone.
PointersLive ==
  /\ \A i \in Ids : Cardinality(Owners(s, i)) <= 1
  /\ \A i \in Ids : Owners(s, i) # {} => i \in Live(s) /\ s.info[i].connected
  /\ s.transfers \subseteq Live(s)

\* A PeerInfo marked connected without an owner would never be culled and make
\* every later connection to the host allocate another: that only happens to
\* hosts that failed too often, for which create_outgoing() returns after
\* connected() has set the flag.
ConnectedIsOwned ==
  \A i \in Live(s) : s.info[i].connected /\ Owners(s, i) = {} => s.info[i].failed > MaxFailed

\* PeerInfo::connection(), which the transfer list and the initial seeding
\* dereference, is set exactly while the connection is in the list.
LinkMatches ==
  \A i \in Live(s) : s.info[i].link <=> \E k \in DOMAIN s.conns : s.conns[k].info = i

\* A stopped download has no connection, whatever handshakes finish after it
\* stopped, and no incoming handshake has joined it; and
\* flag_accepting_new_peers, by which incoming handshakes are refused, follows
\* the size of the list.
StoppedIsEmpty ==
  /\ ~s.active => /\ s.conns = <<>>
                  /\ \A k \in Socks : s.shakes[k].up /\ s.shakes[k].incoming => s.shakes[k].info = Null
  /\ s.accepting = (Len(s.conns) < s.max)

\* connected() is said in peer_list.h to return nothing when no more
\* connections are allowed from the host.
OneOfEachHost == \A i, j \in Live(s) : s.info[i].host = s.info[j].host => i = j
=============================================================================
