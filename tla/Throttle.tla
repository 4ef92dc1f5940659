------------------------------- MODULE Throttle -------------------------------
(***************************************************************************)
(* Bandwidth: a root throttle with one slave (ThrottleInternal), the nodes *)
(* of their lists (ThrottleList) and the connections that read or write    *)
(* under them (down_chunk, down_chunk_skip and up_chunk of                 *)
(* PeerConnectionBase).                                                    *)
(*                                                                         *)
(* Quota is counted in units, chunk sizes and rates with it.  `ledger' is  *)
(* what a list was granted and did not spend.                              *)
(***************************************************************************)
EXTENDS Integers, SequencesExt

CONSTANTS
  Nodes,
  Scenes,     \* records [of, root, slave]: the list of each node, and the rates at first
  Rates,      \* rates the user may set; 0 turns throttling off
  Elapsed,    \* time units between two ticks
  MaxUnthrottled, \* units of unthrottled traffic in a step
  MaxChanges  \* bound on the changes of a rate

VARIABLE s

Lists == {"root", "slave"}

\* calculate_min_chunk_size() and calculate_max_chunk_size().
MinChunk(rate) == IF rate <= 1 THEN 1 ELSE 2
MaxChunk(rate) == 2 * MinChunk(rate)

NewList == [on |-> FALSE, active |-> <<>>, inactive |-> <<>>, outstanding |-> 0, unallocated |-> 0,
            unthrottled |-> 0, min |-> 2, max |-> 4, ledger |-> 0, rate |-> 0, unused |-> 0]

Active(t, n) == n \in Range(t.list[t.of[n]].active)
Inactive(t, n) == n \in Range(t.list[t.of[n]].inactive)
Throttled(t, n) == Active(t, n) \/ Inactive(t, n)

Least(a, b) == IF a < b THEN a ELSE b

-----------------------------------------------------------------------------
(* ThrottleList.                                                           *)

AllocateQuota(t, n) ==
  LET l == t.of[n]
      q == Least(t.list[l].max - t.quota[n], t.list[l].unallocated)
  IN  IF t.quota[n] >= t.list[l].min THEN t
      ELSE [t EXCEPT !.quota[n] = @ + q, !.list[l].outstanding = @ + q, !.list[l].unallocated = @ - q]

ListEnable(t, l) == [t EXCEPT !.list[l].on = TRUE,
                              !.thrown = @ \/ (t.list[l].active = <<>> /\ t.list[l].inactive # <<>>)]

\* Nodes that wait are left where they are.
ListDisableLeaves(t, l) ==
  IF ~t.list[l].on THEN t
  ELSE [t EXCEPT !.list[l] = [@ EXCEPT !.on = FALSE, !.outstanding = 0, !.unallocated = 0,
                                !.unthrottled = 0, !.ledger = 0,
                                !.active = t.list[l].active \o t.list[l].inactive, !.inactive = <<>>],
                 !.quota = [n \in Nodes |-> IF t.of[n] = l THEN 0 ELSE @[n]]]

ListDisable(t, l) ==
  IF ~t.list[l].on THEN t
  ELSE [t EXCEPT !.list[l] = [@ EXCEPT !.on = FALSE, !.outstanding = 0, !.unallocated = 0,
                                !.unthrottled = 0, !.ledger = 0,
                                !.active = t.list[l].active \o t.list[l].inactive, !.inactive = <<>>],
                 !.quota = [n \in Nodes |-> IF t.of[n] = l THEN 0 ELSE @[n]],
                 !.polled = [n \in Nodes |-> @[n] \/ (t.of[n] = l /\ Inactive(t, n))]]

\* The while loop of update_quota(): one node after the other, until one is
\* not given enough.
ActivateFirst(t, l) ==
  IF t.list[l].inactive = <<>> THEN t
  ELSE LET n == Head(t.list[l].inactive)
           a == AllocateQuota(t, n)
       IN  IF a.quota[n] < a.list[l].min THEN a
           ELSE [a EXCEPT !.polled[n] = TRUE, !.list[l].active = Append(@, n),
                          !.list[l].inactive = Tail(@)]

Distribute(t, l) == FoldLeft(LAMBDA a, k : ActivateFirst(a, l), t, t.list[l].inactive)

Handout(t, l, quota) ==
  Distribute([t EXCEPT !.list[l].unallocated = @ + t.list[l].unthrottled,
                       !.list[l].unthrottled = quota], l)

\* The new state, and the quota used, which may be negative.
CapTo(t, l, quota) ==
  LET over == IF t.list[l].unallocated > quota THEN t.list[l].unallocated - quota ELSE 0
  IN  [t |-> [t EXCEPT !.list[l].unallocated = @ - over, !.list[l].ledger = @ + quota - over],
       used |-> quota - over]

UpdateQuota(t, l, quota) ==
  LET r == CapTo(Handout(t, l, quota), l, quota)
  IN  [r EXCEPT !.t.thrown = @ \/ ~t.list[l].on]

NodeQuota(t, n) ==
  LET l == t.list[t.of[n]] IN
  IF ~l.on THEN 2 ELSE IF t.quota[n] + l.unallocated >= l.min THEN t.quota[n] + l.unallocated ELSE 0

\* Everything charged to the node's own quota first, the rest to the list.
NodeUsed(t, n, used) ==
  LET l == t.of[n]
      q == Least(used, t.quota[n])
      rest == Least(used - q, t.list[l].unallocated)
  IN  IF ~t.list[l].on THEN t
      ELSE [t EXCEPT !.quota[n] = @ - q, !.list[l].outstanding = @ - q,
                     !.list[l].unallocated = @ - rest, !.list[l].ledger = @ - used,
                     !.thrown = @ \/ q > t.list[l].outstanding]

NodeUsedUnthrottled(t, l, used) ==
  LET avail == Least(used, t.list[l].unthrottled)
      rest == Least(used - avail, t.list[l].unallocated)
  IN  [t EXCEPT !.list[l].unthrottled = @ - avail, !.list[l].unallocated = @ - rest,
                !.list[l].ledger = @ - avail - rest]

Without(seq, n) == SelectSeq(seq, LAMBDA m : m # n)

NodeDeactivate(t, n) ==
  [t EXCEPT !.list[t.of[n]].active = Without(@, n), !.list[t.of[n]].inactive = Append(@, n),
            !.polled[n] = FALSE, !.thrown = @ \/ ~Active(t, n)]

Insert(t, n) ==
  LET i == [t EXCEPT !.list[t.of[n]].active = Append(@, n), !.quota[n] = 0]
  IN  IF t.list[t.of[n]].on THEN AllocateQuota(i, n) ELSE i

EraseKeepsQuota(t, n) ==
  [t EXCEPT !.list[t.of[n]].active = Without(@, n), !.list[t.of[n]].inactive = Without(@, n),
            !.quota[n] = 0]

Erase(t, n) ==
  LET l == t.of[n] IN
  [t EXCEPT !.list[l].active = Without(@, n), !.list[l].inactive = Without(@, n),
            !.list[l].outstanding = @ - t.quota[n], !.list[l].unallocated = @ + t.quota[n],
            !.quota[n] = 0, !.thrown = @ \/ t.quota[n] > t.list[l].outstanding]

-----------------------------------------------------------------------------
(* ThrottleInternal: the root passes quota to the slave, then to its list. *)

\* What is kept for the next round: at most one allocation's worth.
Keep(t, l, quota) ==
  LET over == IF quota < t.list[l].unused THEN t.list[l].unused - quota ELSE 0
  IN  [t |-> [t EXCEPT !.list[l].unused = @ - over], used |-> quota - over]

OwnList(t, l, quota, need) ==
  IF need > t.list[l].unused THEN t
  ELSE LET r == UpdateQuota(t, l, need) IN [r.t EXCEPT !.list[l].unused = @ - r.used]

SlaveQuota(t, quota, time) ==
  Keep(OwnList([t EXCEPT !.list["slave"].unused = @ + quota], "slave", quota,
               Least(quota, time * t.list["slave"].rate)), "slave", quota)

\* m_next_slave: the slave's turn, or the root's own list.
ToSlave(t, quota, time) ==
  LET need == Least(quota, time * t.list["slave"].rate) IN
  IF t.next = "root" \/ need > t.list["root"].unused THEN t
  ELSE LET r == SlaveQuota(t, need, time)
       IN  [r.t EXCEPT !.list["root"].unused = @ - r.used, !.next = "root"]

\* The slave does not get its turn again.
ToRootStays(t, quota) ==
  IF t.next # "root" \/ quota > t.list["root"].unused THEN t
  ELSE OwnList(t, "root", quota, quota)

ToRoot(t, quota) ==
  IF t.next # "root" \/ quota > t.list["root"].unused THEN t
  ELSE [OwnList(t, "root", quota, quota) EXCEPT !.next = "slave"]

ReceiveQuota(t, quota, time) ==
  Keep(ToRoot(ToSlave([t EXCEPT !.list["root"].unused = @ + quota], quota, time), quota), "root", quota).t

SetSizes(t, l, rate) ==
  [t EXCEPT !.list[l].rate = rate, !.list[l].min = MinChunk(rate), !.list[l].max = MaxChunk(rate)]

\* ThrottleInternal::enable() of the root ticks at once, as if a second had passed.
TurnOn(t) == ReceiveQuota(ListEnable(ListEnable(t, "root"), "slave"), t.list["root"].rate, 1)

-----------------------------------------------------------------------------
(* What happens.                                                           *)

\* Each node belongs to one list; polled: the connection is in the poll set.
Created(of) ==
  [of |-> of, list |-> [l \in Lists |-> NewList], quota |-> [n \in Nodes |-> 0],
   polled |-> [n \in Nodes |-> FALSE], next |-> "root", changes |-> 0, thrown |-> FALSE]

Init ==
  \E c \in Scenes :
    LET t == SetSizes(SetSizes(Created(c.of), "slave", c.slave), "root", c.root)
    IN  s = IF c.root = 0 THEN t ELSE TurnOn(t)

\* receive_tick(), scheduled while the root is enabled.
Tick(time) ==
  /\ s.list["root"].rate > 0
  /\ s' = ReceiveQuota(s, time * s.list["root"].rate, time)

\* Throttle::set_max_rate(): only the root turns the lists on and off.
SetMaxRate(l, rate) ==
  LET t == SetSizes([s EXCEPT !.changes = @ + 1], l, rate) IN
  /\ s.changes < MaxChanges /\ rate # s.list[l].rate
  /\ s' = IF l # "root" THEN t
          ELSE IF s.list["root"].rate = 0 THEN TurnOn(t)
          ELSE IF rate = 0 THEN ListDisable(ListDisable(t, "slave"), "root") ELSE t

\* A piece begins: the connection enters the list and the poll set.
Begin(n) ==
  /\ ~Throttled(s, n)
  /\ s' = [Insert(s, n) EXCEPT !.polled[n] = TRUE]

\* It ends, is choked, or the connection closes.
Finish(n) ==
  /\ Throttled(s, n)
  /\ s' = [Erase(s, n) EXCEPT !.polled[n] = FALSE]

\* down_chunk(), down_chunk_skip() or up_chunk() on a poll event.
Transfer(n) ==
  /\ s.polled[n] /\ Throttled(s, n)
  /\ IF Inactive(s, n) THEN s' = [s EXCEPT !.thrown = TRUE]
     ELSE IF NodeQuota(s, n) = 0 THEN s' = NodeDeactivate(s, n)
     ELSE \E used \in 0..NodeQuota(s, n) : s' = NodeUsed(s, n, used)

\* Messages and handshakes are not held back, but count.
Unthrottled(l, used) ==
  s' = NodeUsedUnthrottled(s, l, used)

Next ==
  \/ \E time \in Elapsed : Tick(time)
  \/ \E l \in Lists, rate \in Rates : SetMaxRate(l, rate)
  \/ \E l \in Lists, used \in 1..MaxUnthrottled : Unthrottled(l, used)
  \/ \E n \in Nodes : Begin(n) \/ Finish(n) \/ Transfer(n)

Spec == Init /\ [][Next]_s

-----------------------------------------------------------------------------
(* Properties.                                                             *)

\* Quota is neither made nor lost: what a list was granted and did not spend is
\* in its nodes, unallocated, or set aside for unthrottled traffic, so throttled
\* connections never send more than the rate allows; and what the nodes hold is
\* m_outstandingQuota.
QuotaConserved ==
  \A l \in Lists :
    LET t == s.list[l] IN
    /\ t.outstanding + t.unallocated + t.unthrottled = t.ledger
    /\ t.outstanding = FoldSet(LAMBDA n, sum : sum + s.quota[n], 0, {n \in Nodes : s.of[n] = l})
    /\ t.outstanding >= 0 /\ t.unallocated >= 0 /\ t.unthrottled >= 0 /\ t.unused >= 0

\* A connection that is in a list and not polled waits in the list's inactive
\* part, where update_quota() or disable() wakes it up: none is stranded by a
\* change of rate or a list that is turned off.
NobodyStranded ==
  \A n \in Nodes : Throttled(s, n) => (s.polled[n] <=> Active(s, n))
                                      /\ (Inactive(s, n) => s.list[s.of[n]].on)

\* A connection that waits for quota gets it: whatever was carried over from
\* earlier rates, enough ticks in a row activate the first one that waits.
WaitersServed ==
  LET later == FoldLeft(LAMBDA t, k : ReceiveQuota(t, t.list["root"].rate, 1), s, [k \in 1..8 |-> k])
  IN  \A l \in Lists :
        s.list[l].on /\ s.list[l].rate > 0 /\ s.list[l].inactive # <<>>
          => Active(later, Head(s.list[l].inactive))

\* No internal_error is reached.
NothingThrown == ~s.thrown
=============================================================================
