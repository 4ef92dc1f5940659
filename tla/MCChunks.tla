------------------------------ MODULE MCChunks ------------------------------
(* The chunks of a download: whether they are right, through the hash      *)
(* queue that two threads share and the check that goes through it, which  *)
(* of them to fetch and which to offer.  A behaviour is about one of the   *)
(* parts, `part'; the others stay idle.                                    *)
EXTENDS HashQueue, HashTorrent

VARIABLES
  part,
  t            \* of ChunkSelection or InitialSeeding

mcVars == <<part, t, vars, checkVars>>

\* Two chunks that the user gives some priority, two peers that have some of them.
Priorities == [{0, 1} -> {"normal"}] \cup {[i \in {0, 1} |-> IF i = 0 THEN "off" ELSE "high"],
                                           [i \in {0, 1} |-> IF i = 1 THEN "off" ELSE "normal"]}
Steps(u, c, h, f) == [updates |-> u, connects |-> c, haves |-> h, finds |-> f]
CS == INSTANCE ChunkSelection
        WITH s <- t, Peers <- {1, 2}, NumChunks <- 2, NumLayers <- 2, SharedSize <- 2, CacheSize <- 1,
             MaxAccounted <- 1, PrioritySets <- Priorities,
             Budgets <- {Steps(1, 2, 2, 1), Steps(2, 1, 1, 2)}

IS == INSTANCE InitialSeeding
        WITH s <- t, Peers <- {1, 2}, Chunks <- {0, 1, 2}, MaxConnects <- 3, SlotsFree <- FALSE

IdleCheck == CheckInit /\ good = {} /\ missing = {}

MCInit ==
  /\ Init
  /\ \/ part = "queue" /\ IdleCheck /\ t = 0
     \/ part = "check" /\ CheckInit /\ t = 0
     \/ part = "selection" /\ CS!Init /\ IdleCheck
     \/ part = "seeding" /\ IS!Init /\ IdleCheck

InQueue(step) == part = "queue" /\ step /\ UNCHANGED <<part, t, checkVars>>
InCheck(step) == part = "check" /\ step /\ UNCHANGED <<part, t, vars>>
Only(next) == next /\ UNCHANGED <<part, vars, checkVars>>

MCNext ==
  \/ InQueue(Next)
  \/ InCheck(CheckNext)
  \/ part = "selection" /\ Only(CS!Next)
  \/ part = "seeding" /\ Only(IS!Next)

\* These may end when a bound is reached.
MayEnd == part \in {"selection", "seeding"} /\ UNCHANGED mcVars

(* The fairness of HashQueue and of HashTorrent.                           *)
MCFairness ==
  /\ WF_mcVars(InQueue(MainStep)) /\ WF_mcVars(InQueue(DiskStep)) /\ SF_mcVars(InQueue(Work))
  /\ WF_mcVars(InCheck(QueueStep))
  /\ WF_mcVars(InCheck(DelayRetry)) /\ WF_mcVars(InCheck(DelayChecked))
  /\ \A i \in Index : WF_mcVars(InCheck(HashDone(i)))

MCSpec == MCInit /\ [][MCNext \/ MayEnd]_mcVars /\ MCFairness

-----------------------------------------------------------------------------
(* The selector gives up on a peer only when it has no chunk that is        *)
(* wanted, and finds only one that is wanted and that the peer has,         *)
(* whatever its queues remember; ChunkStatistics counts what the peers      *)
(* have, and the count of wanted chunks matches the bitfield.  Initial      *)
(* seeding counts the chunks still to be offered, blocks the peer that owes *)
(* it a chunk, and ends only when every chunk was seen at two others.       *)
ChoicesAreExact ==
  /\ part = "selection" =>
       CS!FindIsExact /\ CS!StatisticsMatch /\ CS!WantedMatches /\ CS!NothingThrown
  /\ part = "seeding" => IS!LeftMatches /\ IS!OwnerIsBlocked /\ IS!DoneMeansTwo
=============================================================================
