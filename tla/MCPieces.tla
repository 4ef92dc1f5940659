------------------------------ MODULE MCPieces ------------------------------
(* How two peers connect, and how pieces are asked for, sent and put        *)
(* together.  A behaviour is about one of the parts, `part'; the others     *)
(* stay idle.  "blocks1" is a chunk of one block that three peers send,     *)
(* "blocks2" one of two blocks that two peers send.                         *)
EXTENDS BlockTransfers, WriteStream, TLC

CONSTANTS p1, p2, p3, q1, q2

VARIABLES
  part,
  t       \* the state of the part, unless it is a chunk or what is written

mcVars == <<part, vars, ws, t>>

ThreePeers == {p1, p2, p3}
Perms == Permutations(ThreePeers) \cup Permutations({q1, q2})

Two == INSTANCE BlockTransfers
         WITH Peers <- {q1, q2}, NumBlocks <- 2, MaxTransfers <- 2, MaxStalled <- 1, MaxDissimilar <- 1

\* A pipe of two blocks and as many requests; the events come in three mixes.
Mix(u, d, n, e) == [up |-> u, down |-> d, tick |-> n, elsewhere |-> e]
PW == INSTANCE PeerWire
        WITH s <- t, NumBlocks <- 2, PipeSize <- 2, Hasty <- FALSE,
             Budgets <- {Mix(3, 1, 0, 0), Mix(2, 0, 2, 1), Mix(1, 2, 0, 1)}

\* Up to three messages, in pieces as small as the socket gives them.
Messages ==
  [kind : {"ctl"}, head : {1, 4}, body : {0}] \cup [kind : {"piece"}, head : {3}, body : {1, 10}]
    \cup [kind : {"ext"}, head : {2}, body : {1, 6}]
RS == INSTANCE ReadStream
        WITH s <- t, SizeofPiece <- 3, BufferSize <- 5, Traffic <- [1..3 -> Messages]

\* Every pair of encryption policies, and with bitfields, pads and a fault some of them.
Modes == {"DENY", "ALLOW", "PREFER", "REQUIRE"}
Policies == (Modes \X Modes) \ {<<"DENY", "REQUIRE">>}
NoBitfield == [out |-> FALSE, in |-> FALSE]
HS == INSTANCE Handshake
        WITH s <- t, BitfieldSize <- 2,
             Scenes <-
               [out : Policies \ {<<"PREFER", "REQUIRE">>}, in : Policies, bits : {NoBitfield},
                pad : {FALSE}, dht : {FALSE}, whole : {TRUE}, faults : {0}]
               \cup
               [out : {<<"PREFER", "PREFER">>}, in : {<<"PREFER", "PREFER">>, <<"DENY", "ALLOW">>},
                bits : {[out |-> TRUE, in |-> TRUE], [out |-> FALSE, in |-> TRUE]},
                pad : {TRUE}, dht : {TRUE}, whole : {TRUE}, faults : {0, 1}]

Idle == Init /\ WriteInit

MCInit ==
  \/ part = "blocks1" /\ Idle /\ t = 0
  \/ part = "blocks2" /\ Two!Init /\ WriteInit /\ t = 0
  \/ part = "wire" /\ PW!Init /\ Idle
  \/ part = "writing" /\ Idle /\ t = 0
  \/ part = "reading" /\ RS!Init /\ Idle
  \/ part = "handshake" /\ HS!Init /\ Idle

Only(next) == next /\ UNCHANGED <<part, vars, ws>>

MCNext ==
  \/ part = "blocks1" /\ Next /\ UNCHANGED <<part, ws, t>>
  \/ part = "blocks2" /\ Two!Next /\ UNCHANGED <<part, ws, t>>
  \/ part = "wire" /\ Only(PW!Next)
  \/ part = "writing" /\ WriteNext /\ UNCHANGED <<part, vars, t>>
  \/ part = "reading" /\ Only(RS!Next)
  \/ part = "handshake" /\ Only(HS!Next)

MCSpec == MCInit /\ [][MCNext]_mcVars

-----------------------------------------------------------------------------
(* Blocks and peers agree on who transfers what, and the count by which the *)
(* delegator decides whether a block needs another peer is right; a         *)
(* transfer that does not lead has a leader at least as far; a chunk is     *)
(* hashed exactly while all of its blocks are finished; and no              *)
(* internal_error of Block or TransferList is thrown.                       *)
BlocksMatch ==
  /\ part = "blocks1" =>
       TransfersMatch /\ LeaderLeads /\ HashedWhenFinished /\ NothingThrown
  /\ part = "blocks2" =>
       Two!TransfersMatch /\ Two!LeaderLeads /\ Two!HashedWhenFinished /\ Two!NothingThrown

(* No request is lost between the lists of RequestList, the peer and a      *)
(* choke; the buckets that wait after a choke are emptied in the end; the   *)
(* write handler is armed while anything is to be sent; and what has been   *)
(* read is worked off before the connection waits for more, in messages     *)
(* that fit its buffer.                                                     *)
WireAccounted ==
  /\ part = "wire" => PW!NoRequestLost /\ PW!BucketsDrain /\ PW!WriteArmed /\ PW!NothingThrown
  /\ part = "reading" => RS!NothingLeftUnread /\ RS!NothingThrown

(* When both ends of a handshake are connected they agree on the           *)
(* encryption, on the place in both streams and on the bitfield; they      *)
(* never wait for each other, and compatible policies lead to a connection *)
(* unless something fails.                                                 *)
EndsAgree ==
  part = "handshake" =>
    HS!EndsAgree /\ HS!BitfieldSentOnce /\ HS!NeverStalls /\ HS!NothingThrown
=============================================================================
