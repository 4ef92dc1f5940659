------------------------------ MODULE FileLayout ------------------------------
(***************************************************************************)
(* How the bytes of a torrent lie in its files and its chunks in memory:   *)
(* FileList's initialize(), split(), merge(), create_chunk() and the       *)
(* completed counts, File::set_range(), Chunk and ChunkIterator.           *)
(*                                                                         *)
(* Files are numbered from 1 and chunks from 0, as iterators and indices   *)
(* are; 0 is the end() of a search.  Paths are left out.                   *)
(***************************************************************************)
EXTENDS Integers, Sequences, SequencesExt, FiniteSetsExt

CONSTANTS
  ChunkSizes, \* chunk sizes of the torrents
  Sizes,      \* sizes of files
  MaxFiles    \* files of a torrent

VARIABLE s

\* set_range(), with the last chunk of the file left out.
SetRangeShort(file, cs) ==
  [file EXCEPT !.first = file.offset \div cs, !.second = (file.offset + file.size) \div cs]

SetRange(file, cs) ==
  [file EXCEPT !.first = file.offset \div cs,
               !.second = IF file.size = 0 THEN file.offset \div cs
                          ELSE (file.offset + file.size + cs - 1) \div cs]

NewFile(offset, size, cs) ==
  SetRange([offset |-> offset, size |-> size, first |-> 0, second |-> 0, completed |-> 0], cs)

\* initialize(): one file of the whole torrent.
Init ==
  \E cs \in ChunkSizes, sizes \in BoundedSeq(Sizes, MaxFiles) :
    LET total == FoldLeft(+, 0, sizes) IN
    /\ total > 0
    /\ s = [cs |-> cs, total |-> total, plan |-> sizes, open |-> FALSE, done |-> {},
            files |-> <<NewFile(0, total, cs)>>]

SizeChunks(t) == (t.total + t.cs - 1) \div t.cs

\* The last chunk as long as the others.
ChunkIndexSizeWhole(t, index) == t.cs

\* chunk_index_size().
ChunkIndexSize(t, index) ==
  IF index + 1 # SizeChunks(t) \/ t.total % t.cs = 0 THEN t.cs ELSE t.total % t.cs

\* split(): the file becomes files of the given sizes.
SplitFiles(t, sizes) ==
  FoldLeft(LAMBDA a, size : [files |-> Append(a.files, NewFile(a.offset, size, t.cs)),
                             offset |-> a.offset + size],
           [files |-> <<>>, offset |-> t.files[1].offset], sizes).files

Split ==
  /\ ~s.open /\ Len(s.files) = 1 /\ s.plan # <<>>
  /\ s' = [s EXCEPT !.files = SplitFiles(s, s.plan), !.plan = <<>>]

\* merge(): the files first to last - 1 become one, or an empty file is put before
\* first when they are none.
MergeFiles(t, first, last) ==
  LET offset == IF first > Len(t.files) THEN t.total ELSE t.files[first].offset
      size == FoldLeft(LAMBDA n, file : n + file.size, 0, SubSeq(t.files, first, last - 1))
  IN  SubSeq(t.files, 1, first - 1) \o <<NewFile(offset, size, t.cs)>>
      \o SubSeq(t.files, last, Len(t.files))

Merge(first, last) ==
  /\ ~s.open /\ first <= last /\ (first = last => Len(s.files) < MaxFiles)
  /\ s' = [s EXCEPT !.files = MergeFiles(s, first, last), !.plan = <<>>]

-----------------------------------------------------------------------------
(* Completed chunks.                                                       *)

FindFrom(t, from, index) ==
  LET found == {k \in from..Len(t.files) : index < t.files[k].second}
  IN  IF found = {} THEN 0 ELSE Min(found)

\* inc_completed(): from the first file that ends after the chunk to the first that
\* ends after the next one.
IncCompleted(t, from, index) ==
  LET first == FindFrom(t, from, index)
      last == FindFrom(t, first, index + 1)
  IN  [files |-> [k \in DOMAIN t.files |->
                    IF first <= k /\ (last = 0 \/ k <= last)
                    THEN [t.files[k] EXCEPT !.completed = @ + 1] ELSE t.files[k]],
       last |-> IF last = 0 THEN Len(t.files) + 1 ELSE last]

\* Counts are not cleared before they are counted again.
UpdateCompletedAgain(t) ==
  FoldLeft(LAMBDA a, index :
             IF index \notin t.done THEN a
             ELSE LET r == IncCompleted([t EXCEPT !.files = a.files], a.from, index)
                  IN  [files |-> r.files, from |-> r.last],
           [files |-> t.files, from |-> 1], [k \in 1..SizeChunks(t) |-> k - 1]).files

\* update_completed(): all set, none set, or the chunks in order, each from the
\* file the one before ended at.
UpdateCompleted(t) ==
  IF t.done = 0..(SizeChunks(t) - 1)
  THEN [k \in DOMAIN t.files |-> [t.files[k] EXCEPT !.completed = t.files[k].second - t.files[k].first]]
  ELSE FoldLeft(LAMBDA a, index :
                  IF index \notin t.done THEN a
                  ELSE LET r == IncCompleted([t EXCEPT !.files = a.files], a.from, index)
                       IN  [files |-> r.files, from |-> r.last],
                [files |-> [k \in DOMAIN t.files |-> [t.files[k] EXCEPT !.completed = 0]],
                 from |-> 1], [k \in 1..SizeChunks(t) |-> k - 1]).files

\* The download is opened and its hash check starts from a bitfield.
HashCheck(done) ==
  /\ ~s.open /\ s.plan = <<>>
  /\ s' = [s EXCEPT !.open = TRUE, !.done = done,
                    !.files = UpdateCompleted([s EXCEPT !.done = done])]

\* mark_completed().
MarkCompleted(index) ==
  /\ s.open /\ index \notin s.done
  /\ s' = [s EXCEPT !.done = @ \cup {index}, !.files = IncCompleted(s, 1, index).files]

Close == s.open /\ s' = [s EXCEPT !.open = FALSE, !.done = {}]

Next ==
  \/ Split
  \/ \E first, last \in 1..(Len(s.files) + 1) : Merge(first, last)
  \/ \E done \in SUBSET (0..(SizeChunks(s) - 1)) : HashCheck(done)
  \/ \E index \in 0..(SizeChunks(s) - 1) : MarkCompleted(index)
  \/ Close

Spec == Init /\ [][Next]_s

-----------------------------------------------------------------------------
(* Chunks in memory.                                                       *)

\* create_chunk(): a part for every file with bytes of it, from the file that holds
\* the first; a part is at a position of the chunk and at an offset of its file.
Parts(t, index) ==
  FoldLeft(LAMBDA a, k :
             LET file == t.files[k] IN
             IF a.length = 0 \/ file.size = 0
                \/ (a.parts = <<>> /\ ~(a.offset >= file.offset /\ a.offset < file.offset + file.size))
             THEN a
             ELSE LET from == a.offset - file.offset
                      size == Min({a.length, file.size - from})
                  IN  [parts |-> Append(a.parts, [file |-> k, from |-> from, size |-> size,
                                                  position |-> a.offset - index * t.cs]),
                       offset |-> a.offset + size, length |-> a.length - size],
           [parts |-> <<>>, offset |-> index * t.cs, length |-> ChunkIndexSize(t, index)],
           [k \in 1..Len(t.files) |-> k])

\* at_position().
AtPosition(parts, pos) ==
  CHOOSE k \in DOMAIN parts : parts[k].position <= pos /\ pos < parts[k].position + parts[k].size

\* ChunkIterator over [first, last): the ranges that data() and next() go through.
Walk(parts, first, last) ==
  FoldLeft(LAMBDA a, k :
             IF k < a.at \/ a.first >= last THEN a
             ELSE [a EXCEPT !.ranges = Append(@, <<a.first, Min({parts[k].position + parts[k].size, last})>>),
                            !.first = parts[k].position + parts[k].size],
           [ranges |-> <<>>, first |-> first, at |-> AtPosition(parts, first)],
           [k \in 1..Len(parts) |-> k]).ranges

\* The last chunk counted as long as the others.
CompletedBytesWhole(t) == Cardinality(t.done) * t.cs

\* completed_bytes().
CompletedBytes(t) ==
  IF SizeChunks(t) - 1 \notin t.done \/ t.total % t.cs = 0
  THEN Cardinality(t.done) * t.cs
  ELSE (Cardinality(t.done) - 1) * t.cs + (t.total % t.cs)

-----------------------------------------------------------------------------
(* Properties.                                                             *)

\* Files lie end to end over the whole torrent, and the range of one is the
\* chunks it has a byte of.
FilesTile ==
  /\ s.files[1].offset = 0
  /\ \A k \in DOMAIN s.files :
       LET file == s.files[k] end == file.offset + file.size IN
       /\ end = IF k = Len(s.files) THEN s.total ELSE s.files[k + 1].offset
       /\ file.first..(file.second - 1) =
            {c \in 0..(SizeChunks(s) - 1) : file.size > 0 /\ c * s.cs < end /\ file.offset < (c + 1) * s.cs}

\* A chunk's parts are exactly its bytes in order, each in the file that has it,
\* whatever empty or shared files lie between, and an iterator over some of it
\* visits just those bytes.
ChunksCover ==
  \A index \in 0..(SizeChunks(s) - 1) :
    LET r == Parts(s, index) size == ChunkIndexSize(s, index) IN
    /\ r.length = 0
    /\ \A k \in DOMAIN r.parts :
         LET p == r.parts[k] IN
         /\ p.size > 0 /\ p.from + p.size <= s.files[p.file].size
         /\ s.files[p.file].offset + p.from = index * s.cs + p.position
         /\ p.position + p.size = IF k = Len(r.parts) THEN size ELSE r.parts[k + 1].position
    /\ \A first \in 0..(size - 1), last \in 1..size :
         first < last =>
           LET w == Walk(r.parts, first, last) IN
           /\ w[1][1] = first /\ w[Len(w)][2] = last
           /\ \A k \in DOMAIN w : w[k][1] < w[k][2] /\ (k > 1 => w[k][1] = w[k - 1][2])

\* Files that share the chunk at each boundary.
BoundariesShared ==
  \A k \in DOMAIN s.files : s.files[k].size > 0 /\ (k > 1 => s.files[k].offset % s.cs # 0)

\* The counts kept chunk by chunk, and those counted again from a bitfield, are
\* the completed chunks of each file when neighbours share a chunk.
CompletedMatches ==
  s.open /\ BoundariesShared =>
    \A k \in DOMAIN s.files :
      s.files[k].completed = Cardinality({c \in s.done : s.files[k].first <= c /\ c < s.files[k].second})

\* completed_bytes() is the size of the completed chunks.
BytesMatch ==
  s.open => CompletedBytes(s) = MapThenSumSet(LAMBDA c : ChunkIndexSize(s, c), s.done)

\* No file that is not empty has more completed chunks than chunks, which
\* set_completed_chunks() asserts of the counts that resume data brings back.
CompletedFits ==
  \A k \in DOMAIN s.files :
    s.files[k].size > 0 => s.files[k].completed <= s.files[k].second - s.files[k].first
=============================================================================
