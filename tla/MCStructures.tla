---------------------------- MODULE MCStructures ----------------------------
(* The callback id that threads share, and data structures that one thread *)
(* owns.  They do not touch each other: a behaviour is about one of them,  *)
(* `part', and the others stay idle.                                       *)
EXTENDS CallbackId

CONSTANTS d1, d2, d3, d4

VARIABLES
  part,
  ranges, reference,
  pc, max, weights, size, target, unchoke, weightTotal, start, itr,
  entries, allocated, first, last, thrown

rangesVars == <<ranges, reference>>
slotsVars  == <<pc, max, weights, size, target, unchoke, weightTotal, start, itr>>
groupsVars == <<entries, allocated, first, last, thrown>>

mcVars == <<part, vars, rangesVars, slotsVars, groupsVars>>

(* The four weight tables in use; orders of none, one or five connections.  *)
R == INSTANCE Ranges WITH MaxBound <- 7
S == INSTANCE AllocateSlots
       WITH WeightTables <- {<<1, 1, 1, 1>>, <<1, 3, 6, 9>>, <<32, 1, 1, 1>>, <<1, 6, 8, 16>>},
            Sizes <- {0, 1, 5}, MaxSlots <- 7
G == INSTANCE ResourceGroups WITH Downloads <- {d1, d2, d3, d4}, MaxGroups <- 4

IdleRanges == ranges = 0 /\ reference = 0
IdleSlots  == /\ pc = "idle" /\ max = 0 /\ weights = 0 /\ size = 0 /\ target = 0
              /\ unchoke = 0 /\ weightTotal = 0 /\ start = 0 /\ itr = 0
IdleGroups == entries = 0 /\ allocated = 0 /\ first = 0 /\ last = 0 /\ thrown = 0

MCInit ==
  /\ Init
  /\ \/ part = "id" /\ IdleRanges /\ IdleSlots /\ IdleGroups
     \/ part = "ranges" /\ R!Init /\ IdleSlots /\ IdleGroups
     \/ part = "slots" /\ S!Init /\ IdleRanges /\ IdleGroups
     \/ part = "groups" /\ G!Init /\ IdleRanges /\ IdleSlots

InId(step) == part = "id" /\ step /\ UNCHANGED <<part, rangesVars, slotsVars, groupsVars>>
RangesStep == part = "ranges" /\ R!Next /\ UNCHANGED <<part, vars, slotsVars, groupsVars>>
SlotsStep  == part = "slots" /\ S!Next /\ UNCHANGED <<part, vars, rangesVars, groupsVars>>
GroupsStep == part = "groups" /\ G!Next /\ UNCHANGED <<part, vars, rangesVars, slotsVars>>

MCNext == InId(Next) \/ RangesStep \/ SlotsStep \/ GroupsStep

(* The fairness of CallbackId, and a loop of choke_manager_allocate_slots() *)
(* that can go on does.                                                     *)
MCSpec ==
  /\ MCInit /\ [][MCNext]_mcVars
  /\ WF_mcVars(SlotsStep) /\ \A t \in Threads : WF_mcVars(InId(Step(t)))

-----------------------------------------------------------------------------
(* torrent::ranges behaves as a set after any insert() and erase(): it is   *)
(* sorted without overlaps, and has(), intersect_distance() and             *)
(* create_union() answer what the set would.                                *)
RangesAreSets == part = "ranges" => R!BehavesAsSet

(* choke_manager_allocate_slots() loses no slot, hands none out twice and   *)
(* searches inside its table; in the end it has given min(max, connections) *)
(* slots, in proportion to the weights of the orders that still lack some.  *)
SlotsShared == part = "slots" => S!SlotsConserved /\ S!SlotsShared

(* The pointers of a choke_group delimit the entries that name it after any *)
(* insert(), erase(), set_group() and push_group() of ResourceManager, and  *)
(* receive_tick() throws only when the manager was emptied.                 *)
PointersDelimit ==
  part = "groups" => G!TypeOK /\ G!PointersDelimit /\ G!ThrowsOnlyWhenEmptied

(* Each structure keeps its contract.                                       *)
StructuresMatch == RangesAreSets /\ SlotsShared /\ PointersDelimit

(* The loops of choke_manager_allocate_slots() end for every random         *)
(* position.                                                                *)
SlotsTerminate == part = "slots" ~> pc = "done"
=============================================================================
