---------------------------- MODULE AllocateSlots ----------------------------
(***************************************************************************)
(* choke_manager_allocate_slots(): how many connections of each of four    *)
(* weight orders get one of `max' slots.  Orders with connections left     *)
(* share the slots in proportion to a weight table; what cannot be shared  *)
(* evenly is handed out from a random position.  One step is one pass of   *)
(* the first loop, one probe of the search, one turn of the last loop.     *)
(***************************************************************************)
EXTENDS Naturals, FiniteSetsExt

CONSTANTS
  WeightTables,      \* the tables of m_heuristics_list
  Sizes,             \* connections an order may have
  MaxSlots           \* bound: slots to hand out

VARIABLES
  pc,                \* the loop that runs: share, seek, spread, done
  max, weights, size,
  target,            \* slots given to each order
  unchoke,           \* slots left
  weightTotal, start, itr

vars == <<pc, max, weights, size, target, unchoke, weightTotal, start, itr>>

Orders == 1..4

TypeOK ==
  /\ pc \in {"share", "seek", "spread", "done"}
  /\ max \in 0..MaxSlots /\ weights \in WeightTables /\ size \in [Orders -> Sizes]
  /\ target \in [Orders -> Nat] /\ unchoke \in Nat /\ weightTotal \in Nat
  /\ start \in Nat /\ itr \in 1..5

Total(f) == MapThenSumSet(LAMBDA i : f[i], Orders)
Open(i) == target[i] < size[i]
Lesser(a, b) == IF a < b THEN a ELSE b

Init ==
  /\ pc = "share"
  /\ max \in 0..MaxSlots /\ weights \in WeightTables /\ size \in [Orders -> Sizes]
  /\ target = [i \in Orders |-> 0]
  /\ unchoke = max
  /\ weightTotal = Total([i \in Orders |-> IF size[i] # 0 THEN weights[i] ELSE 0])
  /\ start = 0 /\ itr = 1

(* Mutant: a share is not cut to the connections there are.                 *)
ShareUncut ==
  LET base == unchoke \div weightTotal
      u == [i \in Orders |-> IF Open(i) THEN base * weights[i] ELSE 0]
  IN  /\ pc = "share" /\ weightTotal # 0 /\ unchoke >= weightTotal
      /\ target' = [i \in Orders |-> target[i] + u[i]]
      /\ unchoke' = unchoke - Total(u)
      /\ weightTotal' = Total([i \in Orders |-> IF target'[i] < size[i] THEN weights[i] ELSE 0])
      /\ UNCHANGED <<pc, max, weights, size, start, itr>>

Share ==
  LET base == unchoke \div weightTotal
      u == [i \in Orders |-> IF Open(i) THEN Lesser(size[i] - target[i], base * weights[i]) ELSE 0]
      used == [i \in Orders |-> IF Open(i) /\ target[i] + u[i] >= size[i] THEN weights[i] ELSE 0]
  IN  /\ pc = "share" /\ weightTotal # 0 /\ unchoke >= weightTotal
      /\ target' = [i \in Orders |-> target[i] + u[i]]
      /\ unchoke' = unchoke - Total(u)
      /\ weightTotal' = weightTotal - Total(used)
      /\ UNCHANGED <<pc, max, weights, size, start, itr>>

(* The first loop ends: ::random() % weightTotal if anything is left.       *)
EndShare ==
  /\ pc = "share" /\ (weightTotal = 0 \/ unchoke < weightTotal)
  /\ IF weightTotal # 0 /\ unchoke # 0
     THEN pc' = "seek" /\ start' \in 0..weightTotal - 1
     ELSE pc' = "done" /\ start' = start
  /\ UNCHANGED <<max, weights, size, target, unchoke, weightTotal, itr>>

Seek ==
  /\ pc = "seek" /\ itr \in Orders
  /\ IF Open(itr) /\ start < weights[itr]
     THEN pc' = "spread" /\ UNCHANGED <<start, itr>>
     ELSE /\ start' = IF Open(itr) THEN start - weights[itr] ELSE start
          /\ itr' = itr + 1
          /\ UNCHANGED pc
  /\ UNCHANGED <<max, weights, size, target, unchoke, weightTotal>>

(* Mutant: a turn takes all that is left and not a share.                   *)
SpreadGreedy ==
  LET u == IF Open(itr) THEN Lesser(unchoke, size[itr] - target[itr]) ELSE 0
  IN  /\ pc = "spread" /\ weightTotal # 0 /\ unchoke # 0
      /\ target' = [target EXCEPT ![itr] = @ + u]
      /\ unchoke' = unchoke - u
      /\ start' = 0
      /\ weightTotal' = IF Open(itr) /\ target'[itr] >= size[itr] THEN weightTotal - weights[itr]
                        ELSE weightTotal
      /\ itr' = IF itr = 4 THEN 1 ELSE itr + 1
      /\ UNCHANGED <<pc, max, weights, size>>

Spread ==
  LET u == IF Open(itr) THEN Lesser(Lesser(unchoke, size[itr] - target[itr]), weights[itr] - start)
           ELSE 0
  IN  /\ pc = "spread" /\ weightTotal # 0 /\ unchoke # 0
      /\ target' = [target EXCEPT ![itr] = @ + u]
      /\ unchoke' = unchoke - u
      /\ start' = IF Open(itr) THEN 0 ELSE start
      /\ weightTotal' = IF Open(itr) /\ target'[itr] >= size[itr] THEN weightTotal - weights[itr]
                        ELSE weightTotal
      /\ itr' = IF itr = 4 THEN 1 ELSE itr + 1
      /\ UNCHANGED <<pc, max, weights, size>>

(* Mutant: the last loop goes on until neither slots nor orders are left.   *)
EndSpreadBoth ==
  /\ pc = "spread" /\ weightTotal = 0 /\ unchoke = 0
  /\ pc' = "done"
  /\ UNCHANGED <<max, weights, size, target, unchoke, weightTotal, start, itr>>

EndSpread ==
  /\ pc = "spread" /\ (weightTotal = 0 \/ unchoke = 0)
  /\ pc' = "done"
  /\ UNCHANGED <<max, weights, size, target, unchoke, weightTotal, start, itr>>

Next == Share \/ EndShare \/ Seek \/ Spread \/ EndSpread

Spec == Init /\ [][Next]_vars /\ WF_vars(Next)

-----------------------------------------------------------------------------
(* No slot is lost or handed out twice, and no order gets more than it has  *)
(* connections: adjust_choke_range() would walk past the order's range.     *)
(* The search for the random position stays inside the four orders.         *)
SlotsConserved ==
  /\ TypeOK
  /\ pc = "seek" => itr \in Orders
  /\ unchoke + Total(target) = max
  /\ \A i \in Orders : target[i] <= size[i]

(* In the end min(max, connections) slots are given: cycle() relies on it   *)
(* to bring the number of unchoked down to its quota.  Two orders that both *)
(* still have connections without a slot have got their weights' share to   *)
(* within one weight.                                                       *)
SlotsShared ==
  pc = "done" =>
    /\ Total(target) = Lesser(max, Total(size))
    /\ \A i, j \in Orders :
         Open(i) /\ Open(j) => target[i] * weights[j] <= (target[j] + weights[j]) * weights[i]

=============================================================================
