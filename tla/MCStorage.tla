------------------------------ MODULE MCStorage ------------------------------
(* What keeps a download on disk.  A behaviour is about one of the parts,  *)
(* `part'; the others stay idle: the queue of descriptors empty, the       *)
(* download as it was made, nothing saved.                                 *)
EXTENDS FdCloseQueue, DownloadLifecycle, ResumeData

LOCAL INSTANCE TLC

CONSTANTS
  a, b, c,
  ErrorsInGet    \* of ChunkList

VARIABLES
  part,
  t,                       \* the state of the part, if it has one variable
  cl, lastFreed, canFree   \* of ChunkList

chunkVars == <<cl, lastFreed, canFree>>
mcVars == <<part, s, d, rd, t, chunkVars>>

\* A download of two chunks and one of one chunk; memory for two of them.
CL == INSTANCE ChunkList
        WITH ChunkLists <- << {a, b}, {c} >>, MaxMemory <- 2, MaxHandles <- 1

\* The chunks of a download are alike.
Alike == Permutations({a, b})

\* Two downloads with three files, of which two or three may be open.
OF == INSTANCE OpenFiles
        WITH s <- t, Files <- 1..3, Downloads <- {1, 2}, Owner <- <<1, 1, 2>>,
             Limits <- {2, 3}, CacheShare <- 2, MaxTime <- 2, Lag <- 1

\* Up to three files, empty ones too, within chunks, across them and up to their ends.
FL == INSTANCE FileLayout
        WITH s <- t, ChunkSizes <- {2, 3}, Sizes <- 0..3, MaxFiles <- 3

\* Resume data of two files that share the middle one of three chunks.
TwoFiles == << {0, 1}, {1, 2} >>

IdleChunks == cl = 0 /\ lastFreed = 0 /\ canFree = 0
IdleRest == Init /\ LifeInit /\ ResumeInit
Idle == IdleRest /\ IdleChunks

MCInit ==
  \/ part = "descriptors" /\ Idle /\ t = 0
  \/ part = "chunks" /\ CL!Init /\ IdleRest /\ t = 0
  \/ part = "files" /\ OF!Init /\ Idle
  \/ part = "layout" /\ FL!Init /\ Idle
  \/ part = "resume" /\ Idle /\ t = 0
  \/ part = "download" /\ Idle /\ t = 0

Only(next) == next /\ UNCHANGED <<part, s, d, rd, chunkVars>>

MCNext ==
  \/ part = "descriptors" /\ (Next \/ Destroyed) /\ UNCHANGED <<part, d, rd, t, chunkVars>>
  \/ part = "chunks" /\ CL!Next /\ UNCHANGED <<part, s, d, rd, t>>
  \/ part = "files" /\ Only(OF!Next)
  \/ part = "layout" /\ Only(FL!Next)
  \/ part = "resume" /\ ResumeNext /\ UNCHANGED <<part, s, d, t, chunkVars>>
  \/ part = "download" /\ LifeNext /\ UNCHANGED <<part, s, rd, t, chunkVars>>

\* These may end when a bound is reached.
MayEnd == part \in {"layout", "resume", "download"} /\ UNCHANGED mcVars

MCSpec == MCInit /\ [][MCNext \/ MayEnd]_mcVars

-----------------------------------------------------------------------------
(* The references of ChunkList's nodes, its queue and the manager's count  *)
(* of memory match the handles and the mapped chunks, and a chunk that is  *)
(* still to be synced stays mapped, whatever get(), release(), sync and    *)
(* free_memory() do in between; no internal_error is reached.              *)
ChunksAccounted ==
  part = "chunks" => CL!NothingThrown /\ CL!ReferencesMatch /\ CL!MemoryAccounted /\ CL!DirtyStaysMapped

(* A sync closes its download on an error only when that is safe, or is    *)
(* told to ignore errors (sync_chunks() asks this of its callers): no      *)
(* internal_error is reached, get() included.                              *)
NothingThrown == part = "chunks" => CL!NothingThrown

(* FileManager's list is the open files of open lists, within the limit,   *)
(* its cache holds none that is closed, and what is evicted next was used  *)
(* no later than what stays; no internal_error is reached.                 *)
FilesAccounted ==
  part = "files" => OF!NothingThrown /\ OF!ListMatches /\ OF!OpenWithinList /\ OF!EvictsLeastActive

(* After any split() and merge() the files tile the torrent, each chunk is *)
(* mapped to exactly its bytes, and completed_bytes() and, where files     *)
(* share the chunks at their ends, the files' completed counts are right.  *)
LayoutIsExact ==
  part = "layout" => FL!FilesTile /\ FL!ChunksCover /\ FL!CompletedMatches /\ FL!BytesMatch
=============================================================================
