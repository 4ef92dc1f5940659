----------------------------- MODULE MCAnnounces -----------------------------
(* Where peers come from, trackers, the DHT and other peers, and the lists *)
(* that keep them.  A behaviour is about one of the parts, `part'; the     *)
(* others stay idle.                                                       *)
EXTENDS Trackers

CONSTANTS ht, ud

VARIABLES
  part,
  t       \* the state of the part, unless it is the trackers

mcVars == <<part, vars, t>>

\* A tracker of each kind on its own, both in one group, a group for each,
\* and one that the client adds.
Alone(x) == [group |-> [y \in {x} |-> 0], list |-> <<x>>, families |-> {0, 2},
             commands |-> 2, queued |-> 1]
Two(hg, ug, list) ==
  [group |-> [x \in {ht, ud} |-> IF x = ht THEN hg ELSE ug], list |-> list, families |-> {1},
   commands |-> 2, queued |-> 1]

MCScenes == {Alone(ht), Alone(ud), Two(0, 0, <<ht, ud>>), Two(0, 1, <<ht, ud>>), Two(1, 0, <<ud>>)}

\* Two requests of the UDP tracker protocol, on a bind address that stays.
UR == INSTANCE UdpRouter WITH s <- t, Ids <- 1..2, MaxQueue <- 3, RebindBusy <- FALSE

\* Three ids at different distances; a bucket holds one node.
DT == INSTANCE DhtTable
        WITH s <- t, Bits <- 3, Own <- 5, Ids <- {2, 4, 7}, NumNodes <- 1, MaxFailed <- 2,
             RemoveAge <- 2, BootstrapComplete <- 2, MaxContacts <- 1, MaxPeers <- 1,
             Scenes <- {"table", "peers"}, RestartLate <- FALSE

\* Two nodes, one request at a time and a packet with one reply.
DS == INSTANCE DhtSearches
        WITH s <- t, Nodes <- 1..2, NumGood <- 2, MaxContacts <- 2, MaxAnnounce <- 1,
             Concurrency <- 1, MaxReplies <- 1, Kinds <- {"find", "announce"}

\* Two connections; a third address that was there before.  PU uploads too.
PX == INSTANCE PeerExchange
        WITH s <- t, Peers <- {1, 2}, Listening <- {1, 2, 3}, MinSizes <- {5}, MaxPex <- 1,
             MaxList <- 1, MaxEvents <- 4, Uploading <- FALSE
PU == INSTANCE PeerExchange
        WITH s <- t, Peers <- {1, 2}, Listening <- {1, 2, 3}, MinSizes <- {2}, MaxPex <- 1,
             MaxList <- 1, MaxEvents <- 2, Uploading <- TRUE

ME == INSTANCE MetadataExchange
        WITH s <- t, NumPieces <- 1, Roles <- {{"b"}, {}}, MaxTicks <- 3

\* One host that two peers connect from.
PL == INSTANCE PeerLists
        WITH s <- t, Hosts <- {1}, Ids <- {1, 2}, Socks <- {1, 2}, MaxFailed <- 0, MinSize <- 2,
             Sizes <- {1, 2}, MaxAvail <- 2, Scenes <- {"transfers", "closing"}, SeedEnds <- FALSE

IdleTrackers == Init /\ scene = Alone(ht)

MCInit ==
  \/ part = "trackers" /\ Init /\ t = 0
  \/ part = "udp" /\ UR!Init /\ IdleTrackers
  \/ part = "table" /\ DT!Init /\ IdleTrackers
  \/ part = "searches" /\ DS!Init /\ IdleTrackers
  \/ part = "exchange" /\ PX!Init /\ IdleTrackers
  \/ part = "uploads" /\ PU!Init /\ IdleTrackers
  \/ part = "metadata" /\ ME!Init /\ IdleTrackers
  \/ part = "peers" /\ PL!Init /\ IdleTrackers

InTrackers(step) == part = "trackers" /\ step /\ UNCHANGED <<part, t>>
Only(next) == next /\ UNCHANGED <<part, vars>>

MCNext ==
  \/ InTrackers(Next)
  \/ part = "udp" /\ Only(UR!Next)
  \/ part = "table" /\ Only(DT!Next)
  \/ part = "searches" /\ Only(DS!Next)
  \/ part = "exchange" /\ Only(PX!Next)
  \/ part = "uploads" /\ Only(PU!Next)
  \/ part = "metadata" /\ Only(ME!Next)
  \/ part = "peers" /\ Only(PL!Next)

\* The fairness of Trackers: after the download is gone both threads go on.
MCSpec == MCInit /\ [][MCNext]_mcVars /\ WF_mcVars(InTrackers(~s.alive /\ Progress))

-----------------------------------------------------------------------------
(* While a download is active an announce is under way or planned, a       *)
(* tracker is deleted only when nothing of it is pending in either thread, *)
(* and no internal_error is thrown.                                        *)
TrackersGoOn == part = "trackers" => AnnouncesGoOn /\ DeletedIsIdle /\ NothingThrown

(* Every request to a UDP tracker and every query of the DHT is answered,  *)
(* fails or times out: a timer is armed while one is pending, the counts   *)
(* of a search match its contacts, and it announces only to nodes that     *)
(* replied.                                                                *)
QueriesAccounted ==
  /\ part = "udp" => UR!TypeOK /\ UR!NothingForgotten /\ UR!NothingThrown
  /\ part = "searches" =>
       DS!SearchAccounts /\ DS!NothingForgotten /\ DS!AnnouncesToRepliers /\ DS!NothingThrown

(* The buckets of the routing table tile the ids and hold each node where  *)
(* it belongs, a walk along the chain visits all of them, their counters   *)
(* are right, and peers are handed out only while they are fresh.          *)
TableMatches ==
  part = "table" =>
    DT!TableTiles /\ DT!ChainVisitsAll /\ DT!CountersMatch /\ DT!PeersFresh /\ DT!NothingThrown

(* The count of connections that peer exchange is enabled for is right     *)
(* and the list of peers to tell about bounded, a peer is told of a        *)
(* toggle; a request for metadata is answered, what is to be sent is, and  *)
(* a connection that waits to answer reads on.                             *)
ExchangeIsExact ==
  /\ part = "exchange" => PX!SizePexMatches /\ PX!ListIsBounded /\ PX!ToggleTold
  /\ part = "uploads" => PU!SizePexMatches /\ PU!ListIsBounded /\ PU!ToggleTold
  /\ part = "metadata" => ME!AskedIsAnswered /\ ME!MessagesGoOut /\ ME!ReadsResume

(* A PeerInfo is not freed while a handshake, a connection or a transfer   *)
(* points to it, a connected one has exactly one owner, the links between  *)
(* the connections and their table match, and a stopped download has none. *)
PeersAreOwned ==
  part = "peers" =>
    PL!PointersLive /\ PL!ConnectedIsOwned /\ PL!LinkMatches /\ PL!StoppedIsEmpty /\ PL!NothingThrown
=============================================================================
