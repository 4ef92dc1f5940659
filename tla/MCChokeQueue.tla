---------------------------- MODULE MCChokeQueue ----------------------------
(* What shares out the slots, the bandwidth and the turns of a thread.  A  *)
(* behaviour is about one of the parts, `part'; the others stay idle.      *)
(* "choke" is about two downloads and two groups, with two peers of one    *)
(* download and one of the other.                                          *)
EXTENDS ChokeQueue, PollEvents, TLC

CONSTANTS p1, p2, p3, d1, d2, g1, g2

VARIABLES
  part,
  t       \* the state of the throttles

mcVars == <<part, vars, ps, t>>

ThreePeers == {p1, p2, p3}
TwoDownloads == {d1, d2}
TwoGroups == {g1, g2}
OfThree == (p1 :> d1) @@ (p2 :> d1) @@ (p3 :> d2)
Limits == [up \in BOOLEAN |-> IF up THEN {1} ELSE {}]
Perms == {f \in Permutations(ThreePeers) : f[p3] = p3} \cup Permutations(TwoGroups)

\* Two nodes that share a slave throttle, or one of them on the root.
TH == INSTANCE Throttle
        WITH s <- t, Nodes <- {1, 2}, Rates <- {0, 1, 2}, Elapsed <- {1}, MaxUnthrottled <- 1,
             MaxChanges <- 1,
             Scenes <- {[of |-> <<"slave", "slave">>, root |-> 2, slave |-> 1],
                        [of |-> <<"root", "slave">>, root |-> 1, slave |-> 2]}

IdleChoke ==
  /\ IsUp = FALSE /\ ticked = FALSE /\ maxGlobal = 0
  /\ s = [connected |-> {}, thrown |-> FALSE]
IdlePoll == PollInit /\ ps.backend = "epoll"

MCInit ==
  \/ part = "choke" /\ Init /\ IdlePoll /\ t = 0
  \/ part = "throttle" /\ TH!Init /\ IdleChoke /\ IdlePoll
  \/ part = "poll" /\ PollInit /\ IdleChoke /\ t = 0

MCNext ==
  \/ part = "choke" /\ Next /\ UNCHANGED <<part, ps, t>>
  \/ part = "throttle" /\ TH!Next /\ UNCHANGED <<part, vars, ps>>
  \/ part = "poll" /\ PollNext /\ UNCHANGED <<part, vars, t>>

\* This may end when a bound is reached.
MayEnd == part = "poll" /\ UNCHANGED mcVars

MCSpec == MCInit /\ [][MCNext \/ MayEnd]_mcVars

-----------------------------------------------------------------------------
(* The flags of a connection, the lists of its download and the counters  *)
(* kept by each queue, each download and ResourceManager tell the same,    *)
(* whoever choked and was told of it; a connection is in the download      *)
(* queue only while the remote peer has it unchoked; and no internal_error *)
(* is thrown.                                                              *)
QueuesMatch ==
  part = "choke" => CountersMatch /\ QueuedWhileRemoteUnchoked /\ NothingThrown

(* No download has more unchoked than its slots, and after a tick no more  *)
(* are unchoked than the global maximum allows, unless a download claims a *)
(* minimum, which it then has if enough of its peers ask.                  *)
SlotsWithinLimits == part = "choke" => SlotsRespected /\ TickKeepsLimits

(* The quota that a throttle hands out is conserved, a node that waits is  *)
(* served when there is quota for it, and turning a throttle off strands   *)
(* nobody.                                                                 *)
QuotaServed ==
  part = "throttle" => TH!QuotaConserved /\ TH!WaitersServed /\ TH!NobodyStranded /\ TH!NothingThrown
=============================================================================
