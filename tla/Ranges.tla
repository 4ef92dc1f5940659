------------------------------- MODULE Ranges -------------------------------
(***************************************************************************)
(* torrent::ranges: a set of integers kept as a sorted vector of half-open *)
(* ranges.  It holds the chunks HashTorrent has to check and the chunks of *)
(* each priority.  The operators follow the iterators of the code: an      *)
(* iterator is a position of the vector, end() is Len + 1.                 *)
(***************************************************************************)
EXTENDS Naturals, FiniteSets, Sequences, SequencesExt

CONSTANT MaxBound     \* bound: the largest end of a range

VARIABLES ranges, reference

Bounds == {<<a, b>> : a \in 0..MaxBound, b \in 0..MaxBound}

Values(rs) == {n \in 0..MaxBound : \E i \in DOMAIN rs : rs[i][1] <= n /\ n < rs[i][2]}

(* std::find_if from an iterator on.                                        *)
FindFrom(rs, from, P(_)) ==
  LET hits == {i \in from..Len(rs) : P(rs[i])} IN IF hits = {} THEN Len(rs) + 1 ELSE Min(hits)

Less(a, b) == IF a < b THEN a ELSE b
More(a, b) == IF a < b THEN b ELSE a

Inserted(rs, r) ==
  IF r[1] >= r[2] THEN rs
  ELSE LET first == FindFrom(rs, 1, LAMBDA v : r[1] <= v[2])
       IN  IF first > Len(rs) \/ r[2] < rs[first][1] THEN InsertAt(rs, first, r)
           ELSE LET lo   == Less(r[1], rs[first][1])
                    hi   == More(r[2], rs[first][2])
                    last == FindFrom(rs, first, LAMBDA v : hi < v[2])
                    join == last <= Len(rs) /\ hi >= rs[last][1]
                IN  SubSeq(rs, 1, first - 1)
                      \o << <<lo, IF join THEN rs[last][2] ELSE hi>> >>
                      \o SubSeq(rs, IF join THEN last + 1 ELSE last, Len(rs))

(* Mutant: the range that is cut in two loses its head.                     *)
ErasedNoSplit(rs, r) ==
  IF r[1] >= r[2] THEN rs
  ELSE LET first == FindFrom(rs, 1, LAMBDA v : r[1] < v[2])
           last  == FindFrom(rs, first, LAMBDA v : r[2] < v[2])
       IN  IF first > Len(rs) THEN rs
           ELSE SubSeq(rs, 1, first - 1)
                  \o [i \in 1..(Len(rs) + 1 - last) |->
                        IF i = 1 THEN <<More(r[2], rs[last][1]), rs[last][2]>>
                        ELSE rs[last + i - 1]]

(* Both ends in one range: it is cut in two, or its head is cut off.        *)
(* Otherwise the first one loses its tail, the last one its head, and those *)
(* between go.                                                              *)
Erased(rs, r) ==
  IF r[1] >= r[2] THEN rs
  ELSE LET first == FindFrom(rs, 1, LAMBDA v : r[1] < v[2])
           last  == FindFrom(rs, first, LAMBDA v : r[2] < v[2])
           keep  == r[1] > rs[first][1]
       IN  IF first > Len(rs) THEN rs
           ELSE IF first = last
                THEN IF keep
                     THEN SubSeq(rs, 1, first - 1)
                            \o << <<rs[first][1], r[1]>>, <<r[2], rs[first][2]>> >>
                            \o SubSeq(rs, first + 1, Len(rs))
                     ELSE [rs EXCEPT ![first][1] = More(r[2], @)]
                ELSE SubSeq(rs, 1, first - 1)
                       \o (IF keep THEN << <<rs[first][1], r[1]>> >> ELSE <<>>)
                       \o [i \in 1..(Len(rs) + 1 - last) |->
                             IF i = 1 THEN <<More(r[2], rs[last][1]), rs[last][2]>>
                             ELSE rs[last + i - 1]]

Has(rs, index) ==
  LET itr == FindFrom(rs, 1, LAMBDA v : index < v[2]) IN itr <= Len(rs) /\ index >= rs[itr][1]

(* The loop adds up the extents from the first hit on, each clipped.        *)
IntersectDistance(rs, r) ==
  LET first == FindFrom(rs, 1, LAMBDA v : r[1] < v[2])
      part(i) == IF i < first \/ rs[i][1] >= r[2] THEN 0
                 ELSE Less(r[2], rs[i][2]) - (IF i = first THEN More(r[1], rs[i][1]) ELSE rs[i][1])
  IN  FoldLeft(+, 0, [i \in DOMAIN rs |-> part(i)])

(* create_union(): the merge of two sorted vectors takes the range with     *)
(* the smaller begin first, and each is joined to the back or pushed.       *)
CreateUnion(left, right) ==
  LET merged == SortSeq(left \o right, LAMBDA v, w : v[1] < w[1])
      add(result, v) ==
        IF result # <<>> /\ v[1] <= Last(result)[2]
        THEN [result EXCEPT ![Len(result)][2] = More(v[2], @)]
        ELSE Append(result, v)
  IN  FoldLeft(add, <<>>, merged)

-----------------------------------------------------------------------------
Init == ranges = <<>> /\ reference = {}

Insert(r) ==
  /\ ranges' = Inserted(ranges, r)
  /\ reference' = reference \cup Values(<<r>>)

Erase(r) ==
  /\ ranges' = Erased(ranges, r)
  /\ reference' = reference \ Values(<<r>>)

Next == \E r \in Bounds : Insert(r) \/ Erase(r)

Spec == Init /\ [][Next]_<<ranges, reference>>

-----------------------------------------------------------------------------
(* The vector is sorted, its ranges are not empty, and no two of them       *)
(* overlap or touch, as find() expects.                                     *)
Canonical ==
  /\ \A i \in DOMAIN ranges : ranges[i][1] < ranges[i][2]
  /\ \A i \in DOMAIN ranges : i > 1 => ranges[i - 1][2] < ranges[i][1]

(* It holds what a set would hold, and has() says so.                       *)
SameValues ==
  /\ Values(ranges) = reference
  /\ \A n \in 0..MaxBound : Has(ranges, n) <=> n \in reference

(* intersect_distance() counts the values within the bounds.                *)
DistanceCounts ==
  \A r \in Bounds : r[1] < r[2] =>
    IntersectDistance(ranges, r) = Cardinality(reference \cap Values(<<r>>))

(* create_union() of the vector with that of any other set holds both.      *)
UnionHoldsBoth ==
  \A r, s \in Bounds :
    LET other == Inserted(Inserted(<<>>, r), s)
    IN  Values(CreateUnion(ranges, other)) = reference \cup Values(other)

(* After any insertions and erasures, all of these.                         *)
BehavesAsSet == Canonical /\ SameValues /\ DistanceCounts /\ UnionHoldsBoth
=============================================================================
