------------------------------ MODULE OpenFiles ------------------------------
(***************************************************************************)
(* The files of downloads and the limit on how many are open: FileManager, *)
(* File::prepare(), and FileList's open(), close() and close_all_files().  *)
(* The descriptors detached are closed by a worker                         *)
(* (FdCloseQueue), of which only the number not yet closed is kept here.   *)
(*                                                                         *)
(* A protection is 0 (closed), 1 (read) or 2 (read and write).  What       *)
(* prepare() does to a file's size is left out.                            *)
(***************************************************************************)
EXTENDS Integers, Sequences, SequencesExt, FiniteSetsExt

CONSTANTS
  Files, Downloads,
  Owner,      \* [Files -> Downloads]
  Limits,     \* what set_max_open_files() is called with
  CacheShare, \* the cache of the least active is 1 / CacheShare of the limit
  Lag,        \* bound on how many descriptors the worker is behind
  MaxTime     \* bound on the clock

VARIABLE s

FilesOf(d) == {f \in Files : Owner[f] = d}

Init ==
  \E max \in Limits, exists \in BOOLEAN :
    s = [list |-> <<>>, cache |-> <<>>, max |-> max, closing |-> 0, now |-> 1,
         prot |-> [f \in Files |-> 0], touched |-> [f \in Files |-> 0],
         create |-> [f \in Files |-> TRUE],
         exists |-> [f \in Files |-> exists],
         open |-> [d \in Downloads |-> FALSE], thrown |-> FALSE]

IsOpen(t, f) == t.prot[f] # 0
OpenSet(t) == {f \in Files : IsOpen(t, f)}

-----------------------------------------------------------------------------
(* FileManager.                                                            *)

Place(t, f) == IF f \in ToSet(t.list) THEN CHOOSE i \in DOMAIN t.list : t.list[i] = f ELSE 0

\* The cache keeps the file that is detached.
DetachKeepsCached(t, f) ==
  LET i == Place(t, f) IN
  IF i = 0 THEN [t EXCEPT !.thrown = TRUE]
  ELSE [t EXCEPT !.prot[f] = 0, !.closing = IF @ < Lag THEN @ + 1 ELSE @,
                 !.list = Front([@ EXCEPT ![i] = Last(t.list)])]

\* detach(): the file's place in the list is taken by the last one, and the cache
\* drops it with the ones touched since they were cached.
Detach(t, f) ==
  LET i == Place(t, f) IN
  IF i = 0 THEN [t EXCEPT !.thrown = TRUE]
  ELSE [t EXCEPT !.prot[f] = 0, !.closing = IF @ < Lag THEN @ + 1 ELSE @,
                 !.list = Front([@ EXCEPT ![i] = Last(t.list)]),
                 !.cache = SelectSeq(@, LAMBDA c : c.file # f /\ c.touched = t.touched[c.file])]

\* close() of each file.
RECURSIVE CloseFiles(_, _)
CloseFiles(t, files) ==
  IF files = <<>> THEN t
  ELSE CloseFiles(IF IsOpen(t, Head(files)) THEN Detach(t, Head(files)) ELSE t, Tail(files))

\* get_least_active(): at most count files, by insertion from the back: the new
\* one stops behind the first that was not used later.
Sift(t, files, f) ==
  LET after == {i \in DOMAIN files : t.touched[files[i]] <= t.touched[f]}
  IN  InsertAt(files, Max(after \cup {0}) + 1, f)

LeastActive(t, count, files, f) ==
  IF Len(files) < count THEN Sift(t, files, f)
  ELSE IF t.touched[f] >= t.touched[Last(files)] THEN files
  ELSE Sift(t, Front(files), f)

RECURSIVE LeastActiveOf(_, _, _)
LeastActiveOf(t, count, list) ==
  IF list = <<>> THEN <<>>
  ELSE LeastActive(t, count, LeastActiveOf(t, count, Front(list)), Last(list))
GetLeastActive(t, count) == LeastActiveOf(t, count, t.list)

\* Cached files go whether touched or not.
FromCacheTouched(t, count) ==
  FoldLeft(LAMBDA a, c :
             IF Len(a.files) = count THEN a
             ELSE [a EXCEPT !.seen = @ + 1, !.files = Append(@, c.file)],
           [files |-> <<>>, seen |-> 0], t.cache)

\* evict_least_active_from_cache(): the cached files that were not touched since.
RECURSIVE TakeCached(_, _, _)
TakeCached(t, count, a) ==
  IF Len(a.files) = count \/ a.seen = Len(t.cache) THEN a
  ELSE LET item == t.cache[a.seen + 1]
           stays == t.touched[item.file] # item.touched \/ ~IsOpen(t, item.file)
       IN  TakeCached(t, count, [seen |-> a.seen + 1,
                                 files |-> IF stays THEN a.files ELSE Append(a.files, item.file)])

FromCache(t, count) == TakeCached(t, count, [files |-> <<>>, seen |-> 0])

EvictFromCache(t, from) ==
  CloseFiles([t EXCEPT !.cache = SubSeq(@, from.seen + 1, Len(@))], from.files)

EvictRest(t, count) ==
  IF count = 0 THEN t
  ELSE LET files == GetLeastActive(t, count + t.max \div CacheShare)
       IN  [CloseFiles([t EXCEPT !.cache = <<>>], SubSeq(files, 1, count)) EXCEPT
              !.cache = [i \in 1..(Len(files) - count) |->
                           [file |-> files[count + i], touched |-> t.touched[files[count + i]]]]]

EvictLeastActive(t, count) ==
  LET from == FromCache(t, count)
  IN  EvictRest(EvictFromCache(t, from), count - Len(from.files))

\* verify_max_open_or_evict(): evict, then wait for the descriptors that are being
\* closed to be no more than the excess.
WaitForClose(t, reserve) ==
  IF Len(t.list) + reserve + t.closing > t.max
  THEN [t EXCEPT !.closing = Min({@, Len(t.list) + reserve + t.closing - t.max})] ELSE t

VerifyMaxOpenOrEvict(t, reserve) ==
  LET u == IF Len(t.list) + reserve > t.max
           THEN EvictLeastActive(t, Len(t.list) + reserve - t.max) ELSE t
  IN  IF Len(u.list) + reserve > u.max THEN [u EXCEPT !.thrown = TRUE]
      ELSE WaitForClose(u, reserve)

\* open(): `fails' when the system refuses; a missing file is only opened when it
\* is to be created.
Open(t, f, prot, fails) ==
  LET u == VerifyMaxOpenOrEvict(IF IsOpen(t, f) THEN Detach(t, f) ELSE t, 1)
  IN  IF fails \/ (~t.exists[f] /\ ~t.create[f]) THEN u
      ELSE [u EXCEPT !.list = Append(@, f), !.prot[f] = prot, !.exists[f] = TRUE]

-----------------------------------------------------------------------------
(* File::prepare().                                                        *)

Opened(t, f) == [t EXCEPT !.create[f] = @ /\ ~IsOpen(t, f)]

Prepare(t, f, prot, fails) ==
  LET u == [t EXCEPT !.touched[f] = t.now]
  IN  IF t.prot[f] >= prot THEN u ELSE Opened(Open(u, f, prot, fails), f)

-----------------------------------------------------------------------------
(* FileList.                                                               *)

\* A list that could not be opened leaves its files open.
FailOpenKeeps(t, d, files) == [t EXCEPT !.open[d] = FALSE]

FailOpen(t, d, files) ==
  [CloseFiles(t, files) EXCEPT !.open[d] = FALSE]

\* open(): every file that is not open; without open_no_create a file that does not
\* open fails the list, which is then closed.
RECURSIVE OpenEach(_, _, _, _)
OpenEach(t, files, noCreate, bad) ==
  IF files = <<>> THEN [t |-> t, failed |-> FALSE]
  ELSE LET f == Head(files)
           u == IF IsOpen(t, f) THEN t ELSE Prepare(t, f, 1, f \in bad)
       IN  IF ~IsOpen(u, f) /\ ~noCreate THEN [t |-> u, failed |-> TRUE]
           ELSE OpenEach(u, Tail(files), noCreate, bad)

FileListOpen(d, files, noCreate, bad) ==
  LET r == OpenEach(s, files, noCreate, bad)
  IN  s' = IF r.failed THEN FailOpen(r.t, d, files) ELSE [r.t EXCEPT !.open[d] = TRUE]

\* close() and close_all_files().
FileListClose(d, files) ==
  /\ s.open[d]
  /\ s' = [CloseFiles(s, files) EXCEPT !.open[d] = FALSE]

CloseAllFiles(d, files) ==
  /\ s.open[d]
  /\ s' = CloseFiles(s, files)

SetMaxOpenFiles(max) ==
  s' = VerifyMaxOpenOrEvict([s EXCEPT !.max = max], 0)

\* A chunk that spans the file is mapped.
MapChunk(f, prot, fails) ==
  /\ s.open[Owner[f]]
  /\ s' = Prepare(s, f, prot, fails)

Tick == s.now < MaxTime /\ s' = [s EXCEPT !.now = @ + 1]

WorkerCloses == s.closing > 0 /\ s' = [s EXCEPT !.closing = @ - 1]

Next ==
  \/ \E d \in Downloads :
       LET files == SetToSeq(FilesOf(d)) IN
       \/ \E noCreate \in BOOLEAN, bad \in SUBSET FilesOf(d) : FileListOpen(d, files, noCreate, bad)
       \/ FileListClose(d, files) \/ CloseAllFiles(d, files)
  \/ \E f \in Files, prot \in {1, 2}, fails \in BOOLEAN : MapChunk(f, prot, fails)
  \/ \E max \in Limits : SetMaxOpenFiles(max)
  \/ Tick \/ WorkerCloses

Spec == Init /\ [][Next]_s

-----------------------------------------------------------------------------
(* Properties.                                                             *)

NothingThrown == ~s.thrown

\* The manager's list holds each open file once and stays within the limit, and
\* the cache points only to files that are open: a closed file, which may be
\* deleted, is in neither.
ListMatches ==
  /\ ToSet(s.list) = OpenSet(s) /\ Len(s.list) = Cardinality(OpenSet(s))
  /\ Len(s.list) <= s.max
  /\ \A i \in DOMAIN s.cache : IsOpen(s, s.cache[i].file)

\* Only a download whose list is open has open files, so that what close() skips
\* on a list that failed to open is closed already.
OpenWithinList == \A f \in Files : IsOpen(s, f) => s.open[Owner[f]]

\* Whatever number of files is evicted next, through the cache and then by a
\* search, they are ones no other open file was used before.
EvictsLeastActive ==
  \A n \in 1..Len(s.list) :
    LET left == OpenSet(EvictLeastActive(s, n)) IN
    /\ Cardinality(left) = Len(s.list) - n
    /\ \A f \in OpenSet(s) \ left, g \in left : s.touched[f] <= s.touched[g]

\* What verify_max_open_or_evict() waits for: the open files and the descriptors
\* still to be closed are no more than the limit.
DescriptorsWithinLimit == Len(s.list) + s.closing <= s.max
=============================================================================
