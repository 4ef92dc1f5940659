--------------------------- MODULE ResourceGroups ---------------------------
(***************************************************************************)
(* The downloads of ResourceManager: a vector of entries ordered by choke  *)
(* group, into which every choke_group keeps a first and a last pointer    *)
(* that insert(), erase(), set_group() and push_group() move by hand.      *)
(*                                                                         *)
(* A pointer is an index into the vector, whose buffer moves only in       *)
(* insert(); Null is the null pointer, where an empty vector that never    *)
(* had an element begins.                                                  *)
(***************************************************************************)
EXTENDS Naturals, Sequences, FiniteSets, SequencesExt

CONSTANTS
  Downloads,
  MaxGroups          \* bound: choke groups that are pushed

VARIABLES
  entries,           \* the vector of resource_manager_entry
  allocated,         \* the vector has a buffer
  first, last,       \* the pointers of m_choke_groups
  thrown             \* receive_tick() has thrown

vars == <<entries, allocated, first, last, thrown>>

Null == 0
Groups == 1..Len(first)
Entry == [download : Downloads, group : 1..MaxGroups]

TypeOK ==
  /\ entries \in Seq(Entry) /\ Len(entries) <= Cardinality(Downloads)
  /\ allocated \in BOOLEAN
  /\ first \in Seq(Nat) /\ last \in Seq(Nat) /\ Len(first) = Len(last) /\ Len(first) <= MaxGroups
  /\ thrown \in BOOLEAN

(* Manager's constructor pushes the default group.                          *)
Init ==
  /\ entries = <<>> /\ allocated = FALSE
  /\ first = <<Null>> /\ last = <<Null>>
  /\ thrown = FALSE

IndexOf(e, d) == CHOOSE i \in DOMAIN e : e[i].download = d
Managed == {entries[i].download : i \in DOMAIN entries}

(* find_group_end(): the first entry of a later group, else end().          *)
FindGroupEnd(e, g) ==
  CHOOSE i \in 1..Len(e) + 1 :
    /\ i <= Len(e) => g < e[i].group
    /\ \A j \in 1..i - 1 : e[j].group <= g

(* What update_group_iterators() sets and validate_group_iterators()        *)
(* expects: the scan for group g starts where that of g - 1 stopped.        *)
Address(i) == IF allocated' THEN i ELSE Null
GroupFirst(e, g) == IF g = 1 THEN 1 ELSE FindGroupEnd(e, g - 1)

-----------------------------------------------------------------------------
(* Manager::initialize_download() inserts into the default group.           *)
Insert(d) ==
  /\ ~thrown /\ d \notin Managed
  /\ allocated' = TRUE
  /\ entries' = InsertAt(entries, FindGroupEnd(entries, 1), [download |-> d, group |-> 1])
  /\ first' = [h \in Groups |-> GroupFirst(entries', h)]
  /\ last' = [h \in Groups |-> FindGroupEnd(entries', h)]
  /\ UNCHANGED thrown

Erase(d) ==
  LET i == IndexOf(entries, d)
      g == entries[i].group
  IN  /\ ~thrown /\ d \in Managed
      /\ entries' = RemoveAt(entries, i)
      /\ first' = [h \in Groups |-> IF h > g THEN first[h] - 1 ELSE first[h]]
      /\ last' = [h \in Groups |-> IF h >= g THEN last[h] - 1 ELSE last[h]]
      /\ UNCHANGED <<allocated, thrown>>

(* Mutant: the groups between the two are not moved.                        *)
SetGroupEndsOnly(d, g) ==
  LET i == IndexOf(entries, d)
      src == entries[i].group
      rest == RemoveAt(entries, i)
  IN  /\ ~thrown /\ d \in Managed /\ src # g
      /\ entries' = InsertAt(rest, FindGroupEnd(rest, g), [download |-> d, group |-> g])
      /\ IF g < src
         THEN /\ last' = [last EXCEPT ![g] = @ + 1]
              /\ first' = [first EXCEPT ![src] = @ + 1]
         ELSE /\ last' = [last EXCEPT ![src] = @ - 1]
              /\ first' = [first EXCEPT ![g] = @ - 1]
      /\ UNCHANGED <<allocated, thrown>>

SetGroup(d, g) ==
  LET i == IndexOf(entries, d)
      src == entries[i].group
      rest == RemoveAt(entries, i)
  IN  /\ ~thrown /\ d \in Managed /\ src # g
      /\ entries' = InsertAt(rest, FindGroupEnd(rest, g), [download |-> d, group |-> g])
      /\ IF g < src
         THEN /\ last' = [h \in Groups |-> IF g <= h /\ h < src THEN last[h] + 1 ELSE last[h]]
              /\ first' = [h \in Groups |-> IF g < h /\ h <= src THEN first[h] + 1 ELSE first[h]]
         ELSE /\ last' = [h \in Groups |-> IF src <= h /\ h < g THEN last[h] - 1 ELSE last[h]]
              /\ first' = [h \in Groups |-> IF src < h /\ h <= g THEN first[h] - 1 ELSE first[h]]
      /\ UNCHANGED <<allocated, thrown>>

(* A group pushed into an empty manager gets null pointers, any other       *)
(* end().                                                                   *)
PushGroup ==
  LET end == IF entries = <<>> THEN Null ELSE Len(entries) + 1
  IN  /\ ~thrown /\ Len(first) < MaxGroups
      /\ first' = Append(first, end)
      /\ last' = Append(last, end)
      /\ UNCHANGED <<entries, allocated, thrown>>

(* receive_tick() begins with validate_group_iterators().                   *)
ReceiveTick ==
  /\ ~thrown
  /\ UNCHANGED <<entries, allocated, first, last>>
  /\ thrown' = \E g \in Groups : \/ first[g] # Address(GroupFirst(entries, g))
                                 \/ last[g] # Address(FindGroupEnd(entries, g))

Next ==
  \/ \E d \in Downloads : Insert(d) \/ Erase(d)
  \/ \E d \in Downloads, g \in Groups : SetGroup(d, g)
  \/ PushGroup
  \/ ReceiveTick

Spec == Init /\ [][Next]_vars

-----------------------------------------------------------------------------
(* The pointers of a group delimit exactly the entries that name it, which  *)
(* choke_group's rates and size are computed from, after any sequence of    *)
(* moves between groups.                                                    *)
PointersDelimit ==
  \A i \in DOMAIN entries, g \in Groups :
    entries[i].group = g <=> first[g] <= i /\ i < last[g]

(* validate_group_iterators() does not throw out of receive_tick() while    *)
(* there are downloads, nor before the first one.  (push_group() gives null *)
(* pointers to a group pushed when the last download has left, though the   *)
(* vector keeps its buffer and the other groups point into it: until the    *)
(* next insert() a tick throws.)                                            *)
ThrowsOnlyWhenEmptied == thrown => entries = <<>> /\ allocated
=============================================================================
