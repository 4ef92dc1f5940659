------------------------------ MODULE ChunkList ------------------------------
(***************************************************************************)
(* The mapped chunks of the open downloads: ChunkList counts the handles   *)
(* given out on each node and keeps written chunks mapped in a sync queue, *)
(* ChunkManager bounds the memory all lists map and syncs the queues to    *)
(* get memory back.  All of it runs on the main thread.                    *)
(*                                                                         *)
(* Handles are held by uploads ("up", read only), by downloads ("down",    *)
(* writable) and by the hash queue ("hash", blocking).  One chunk is one   *)
(* unit of memory.  A list's m_queue is its part of `queue'; the order of  *)
(* the queue only decides which file is written first and is left out.     *)
(***************************************************************************)
EXTENDS Naturals, FiniteSets, Sequences, SequencesExt

CONSTANTS
  ChunkLists,      \* the lists of the manager: a sequence of disjoint sets of nodes
  MaxMemory,       \* max_memory_usage, in chunks
  MaxHandles,      \* bound: handles of one kind on one node
  ErrorsInGet      \* whether a sync that fails inside get() may be one of that list

Lists == DOMAIN ChunkLists
Nodes == UNION {ChunkLists[l] : l \in Lists}
ListOf(n) == CHOOSE l \in Lists : n \in ChunkLists[l]
Kinds == {"up", "down", "hash"}

VARIABLES
  cl,              \* the state of the lists and of the memory accounting
  lastFreed,       \* m_last_freed_index
  canFree          \* ten seconds have passed since m_last_try_free_memory

vars == <<cl, lastFreed, canFree>>

Node == [valid : BOOLEAN, mappedWritable : BOOLEAN, references : Nat, writable : Nat,
         blocking : Nat, triggered : BOOLEAN]

NoNode == [valid |-> FALSE, mappedWritable |-> FALSE, references |-> 0, writable |-> 0,
           blocking |-> 0, triggered |-> FALSE]

(* `handles' is what the users hold and `dirty' the chunks with changes no  *)
(* sync has written: neither is kept by the code.                           *)
TypeOK ==
  /\ cl \in [node : [Nodes -> Node], queue : SUBSET Nodes, memory : Nat, syncCount : Nat,
             open : SUBSET Lists, handles : [Nodes -> [Kinds -> 0..MaxHandles]],
             dirty : SUBSET Nodes, thrown : BOOLEAN]
  /\ lastFreed \in 0..Len(ChunkLists)
  /\ canFree \in BOOLEAN

Init ==
  /\ cl = [node |-> [n \in Nodes |-> NoNode], queue |-> {}, memory |-> 0, syncCount |-> 0,
           open |-> Lists, handles |-> [n \in Nodes |-> [k \in Kinds |-> 0]],
           dirty |-> {}, thrown |-> FALSE]
  /\ lastFreed = 0
  /\ canFree = TRUE

Throw(s) == [s EXCEPT !.thrown = TRUE]

-----------------------------------------------------------------------------
(* ChunkList::clear_chunk() with ChunkManager::deallocate().                *)
ClearChunk(s, n) ==
  IF ~s.node[n].valid \/ s.memory = 0 THEN Throw(s)
  ELSE [s EXCEPT !.node[n].valid = FALSE, !.node[n].mappedWritable = FALSE, !.memory = @ - 1]

DecRw(s, n) == [s EXCEPT !.node[n].references = @ - 1, !.node[n].writable = @ - 1]

(* Mutant: a chunk goes back to the queue with its reference dropped.       *)
ReleaseWritableDropped(s, n) ==
  IF s.node[n].writable = 1
  THEN IF n \in s.queue THEN Throw(s)
       ELSE DecRw([s EXCEPT !.queue = @ \cup {n}, !.syncCount = @ + 1], n)
  ELSE DecRw(s, n)

(* Mutant: the last writable handle unmaps the chunk.                       *)
ReleaseWritableUnmaps(s, n) ==
  LET dec == DecRw(s, n)
  IN  IF dec.node[n].references = 0 THEN ClearChunk(dec, n) ELSE dec

(* The last writable handle leaves its reference to the sync queue.         *)
ReleaseWritable(s, n) ==
  IF s.node[n].writable = 1
  THEN IF n \in s.queue THEN Throw(s)
       ELSE [s EXCEPT !.queue = @ \cup {n}, !.syncCount = @ + 1]
  ELSE DecRw(s, n)

ReleaseReadOnly(s, n) ==
  LET dec == [s EXCEPT !.node[n].references = @ - 1]
  IN  IF dec.node[n].references # 0 THEN dec
      ELSE IF n \in s.queue THEN Throw(s)
      ELSE ClearChunk(dec, n)

(* ChunkList::release().                                                    *)
Release(s, n, k) ==
  LET nd == s.node[n]
      held == [s EXCEPT !.handles[n][k] = @ - 1,
                        !.node[n].blocking = IF k = "hash" THEN @ - 1 ELSE @]
  IN  IF \/ nd.references = 0
         \/ k = "down" /\ nd.writable = 0
         \/ k = "hash" /\ nd.blocking = 0
      THEN Throw(s)
      ELSE IF k = "down" THEN ReleaseWritable(held, n)
      ELSE ReleaseReadOnly(held, n)

-----------------------------------------------------------------------------
(* sync_options(): whether the chunk leaves the queue once it is synced.    *)
(* Safe syncing writes twice, the second time blocking.                     *)
SyncReleases(s, n, flags) ==
  "force" \in flags \/ "safe" \notin flags \/ s.node[n].triggered

(* sync_chunk() of a chunk whose sync() succeeds.                           *)
SyncChunk(s, n, releases) ==
  LET synced == [s EXCEPT !.node[n].triggered = TRUE,
                          !.dirty = IF s.handles[n]["down"] = 0 THEN @ \ {n} ELSE @]
      less   == [DecRw(synced, n) EXCEPT !.queue = @ \ {n}, !.syncCount = @ - 1]
  IN  IF s.node[n].references = 0 \/ s.node[n].writable = 0 THEN Throw(s)
      ELSE IF ~releases THEN synced
      ELSE IF less.node[n].references = 0 THEN ClearChunk(less, n)
      ELSE less

(* The part of the queue to sync: without sync_all only the chunks nobody   *)
(* writes to.                                                               *)
SyncSplit(s, l, flags) ==
  {n \in s.queue \cap ChunkLists[l] : "all" \in flags \/ s.node[n].writable = 1}

(* The loop over the selected part; no chunk's sync depends on another's.   *)
RECURSIVE SyncEach(_, _, _)
SyncEach(s, nodes, mode) ==
  IF nodes = {} THEN s
  ELSE LET n == CHOOSE m \in nodes : TRUE
       IN  SyncEach(SyncChunk(s, n, SyncReleases(s, n, mode)), nodes \ {n}, mode)

(* sync_chunks() up to the report of an error.  partition_optimize() picks  *)
(* any part of the split (`disk.chosen'), the disk fails any of those.      *)
SyncQueue(s, l, flags, disk) ==
  LET mode == IF flags \cap {"safe", "sloppy"} # {} THEN flags
              ELSE flags \cup (IF disk.safe THEN {"safe"} ELSE {"force"})
      selected == IF "timeout" \in mode /\ "force" \notin mode
                  THEN SyncSplit(s, l, flags) \cap disk.chosen ELSE SyncSplit(s, l, flags)
  IN  [s |-> SyncEach(s, selected \ disk.fails, mode),
       failed |-> selected \cap disk.fails # {}]

(* clear() of the queue.                                                    *)
RECURSIVE DropEach(_, _)
DropEach(s, nodes) ==
  IF nodes = {} THEN s
  ELSE LET n == CHOOSE m \in nodes : TRUE  nd == s.node[n]
       IN  DropEach(IF nd.references # 1 \/ nd.writable # 1 THEN Throw(s)
                    ELSE ClearChunk(DecRw(s, n), n), nodes \ {n})

(* ChunkList::clear(): what could not be synced is dropped.  Every check    *)
(* that throws is here.                                                     *)
Clear(s, l) ==
  LET queued == s.queue \cap ChunkLists[l]
      dropped == DropEach(s, queued)
      bad == \E n \in ChunkLists[l] : LET nd == dropped.node[n] IN
               nd.valid \/ nd.references # 0 \/ nd.writable # 0 \/ nd.blocking # 0
  IN  IF dropped.thrown \/ bad \/ s.syncCount < Cardinality(queued) THEN Throw(dropped)
      ELSE [dropped EXCEPT !.queue = @ \ queued, !.syncCount = @ - Cardinality(queued),
                           !.node = [n \in Nodes |-> IF n \in ChunkLists[l] THEN NoNode ELSE @[n]],
                           !.open = @ \ {l}, !.dirty = @ \ ChunkLists[l]]

(* Mutant: the hash queue keeps its chunks.                                 *)
HandlesOfPeers(s, l) ==
  LET of(k) == SetToSeq({e \in ChunkLists[l] \X {k} \X (1..MaxHandles) :
                           e[3] <= s.handles[e[1]][k]})
  IN  of("up") \o of("down")

(* The handles of a list, one entry per handle: the peers' first, as        *)
(* DownloadMain::stop() comes before DownloadWrapper::close().              *)
HandlesOf(s, l) ==
  LET of(k) == SetToSeq({e \in ChunkLists[l] \X {k} \X (1..MaxHandles) :
                           e[3] <= s.handles[e[1]][k]})
  IN  of("up") \o of("down") \o of("hash")

(* Their holders release them one by one.                                   *)
RECURSIVE ReleaseEach(_, _)
ReleaseEach(s, held) ==
  IF held = <<>> THEN s ELSE ReleaseEach(Release(s, held[1][1], held[1][2]), Tail(held))

(* receive_storage_error(): stop() disconnects every peer, close() empties  *)
(* the hash queue, syncs what it can and clears the list.                   *)
Close(s, l, fails) ==
  LET synced == SyncQueue(ReleaseEach(s, HandlesOf(s, l)), l, {"all", "force", "sloppy", "ignore"},
                          [safe |-> FALSE, chosen |-> {}, fails |-> fails]).s
  IN  IF l \in s.open THEN Clear(synced, l) ELSE s

(* sync_chunks().  A failed chunk stays queued; the error closes the        *)
(* download, and the disk may or may not fail the same chunks again.        *)
SyncChunks(s, l, flags, disk) ==
  LET result == SyncQueue(s, l, flags, disk)
  IN  IF result.failed /\ "ignore" \notin flags
      THEN Close(result.s, l, IF disk.again THEN disk.fails ELSE {})
      ELSE result.s

(* ChunkManager::sync_all(): from the list after the last one it synced     *)
(* until the memory is below the target or every list had its turn.         *)
SyncAll(s, flags, target, disk) ==
  LET size  == Len(ChunkLists)
      first == (lastFreed % size) + 1
      order == [k \in 1..size |-> ((first + k - 1) % size) + 1]
      turn[k \in 0..size] ==
        IF k = 0 THEN [s |-> s, at |-> 0, done |-> FALSE]
        ELSE LET acc == turn[k - 1] IN
             IF acc.done THEN acc
             ELSE LET t == SyncChunks(acc.s, order[k], flags, disk)
                  IN  [s |-> t, at |-> order[k], done |-> t.memory < target]
  IN  turn[size]

-----------------------------------------------------------------------------
(* What a sync may meet on the disk, for any of the parts it may choose.    *)
DisksThat(s, parts) ==
  {d \in [safe : BOOLEAN, chosen : parts, fails : SUBSET s.queue, again : BOOLEAN] :
     (d.safe \/ d.chosen = {}) /\ (d.again => d.fails # {})}
Disks(s) == DisksThat(s, SUBSET s.queue)

(* A disk for a sync with sync_use_timeout unset, for which nothing is      *)
(* chosen.                                                                  *)
PlainDisks(s) == DisksThat(s, {{}})

(* ChunkManager::try_free_memory(), at most once every ten seconds.         *)
TriesToFree(s) == s.memory + 1 > (3 * MaxMemory) \div 4 /\ canFree

Freed(s, disk) ==
  LET quarter == MaxMemory \div 4
      target  == IF quarter > s.memory THEN 0 ELSE s.memory - quarter
  IN  SyncAll(s, {}, target, disk)

(* Mutant: the limit is taken as it was before the allocation.              *)
AllocatedOver(s, freed) ==
  IF s.memory > MaxMemory THEN [ok |-> FALSE, s |-> freed]
  ELSE [ok |-> TRUE, s |-> [freed EXCEPT !.memory = @ + 1]]

(* ChunkManager::allocate(): the usage it compares was read before it       *)
(* tried to free memory.                                                    *)
Allocated(s, freed) ==
  IF s.memory + 1 > MaxMemory THEN [ok |-> FALSE, s |-> freed]
  ELSE [ok |-> TRUE, s |-> [freed EXCEPT !.memory = @ + 1]]

(* The counters of a handle that is given out.                              *)
Incremented(s, n, k) ==
  [s EXCEPT !.handles[n][k] = @ + 1,
            !.node[n].references = @ + 1,
            !.node[n].writable = IF k = "down" THEN @ + 1 ELSE @,
            !.node[n].blocking = IF k = "hash" THEN @ + 1 ELSE @,
            !.node[n].triggered = IF k = "down" THEN FALSE ELSE @,
            !.dirty = IF k = "down" THEN @ \cup {n} ELSE @]

Mapped(s, n, k) ==
  [s EXCEPT !.node[n].valid = TRUE, !.node[n].mappedWritable = (k = "down")]

(* ChunkList::get() of a chunk that is not mapped.  The mapping itself      *)
(* (`created') can fail, and the memory is given back.  A storage error in  *)
(* the sync that made room may have closed this very list.                  *)
GetInvalid(n, k) ==
  LET l == ListOf(n) IN
  /\ ~cl.node[n].valid
  /\ \E created \in BOOLEAN, disk \in PlainDisks(cl) :
       LET tries == TriesToFree(cl)
           freed == IF tries THEN Freed(cl, disk) ELSE [s |-> cl, at |-> lastFreed]
           room  == Allocated(cl, freed.s)
       IN  /\ ~tries => ~disk.safe /\ disk.fails = {}
           /\ ~ErrorsInGet => disk.fails \cap ChunkLists[l] = {}
           /\ cl' = IF l \notin freed.s.open THEN Throw(freed.s)
                    ELSE IF ~room.ok THEN room.s
                    ELSE IF ~created THEN [room.s EXCEPT !.memory = @ - 1]
                    ELSE Incremented(Mapped(room.s, n, k), n, k)
           /\ lastFreed' = freed.at
           /\ canFree' = (canFree /\ ~tries)

(* get() of a mapped chunk: a read-only mapping is replaced when a writable *)
(* handle is asked for, which must not happen while it is being hashed.     *)
GetValid(n, k) ==
  /\ cl.node[n].valid
  /\ \/ /\ k = "down" /\ ~cl.node[n].mappedWritable
        /\ IF cl.node[n].blocking # 0 THEN cl' = Throw(cl)
           ELSE \/ cl' = cl
                \/ cl' = Incremented(Mapped(cl, n, k), n, k)
     \/ /\ ~(k = "down" /\ ~cl.node[n].mappedWritable)
        /\ cl' = Incremented(cl, n, k)
  /\ UNCHANGED <<lastFreed, canFree>>

(* A user asks for a handle.  A chunk is hashed once it is complete, and    *)
(* the delegator asks no peer for it from then on.                          *)
Get(n, k) ==
  /\ ~cl.thrown
  /\ ListOf(n) \in cl.open
  /\ cl.handles[n][k] < MaxHandles
  /\ k = "down" => cl.handles[n]["hash"] = 0
  /\ GetInvalid(n, k) \/ GetValid(n, k)

ReleaseHandle(n, k) ==
  /\ ~cl.thrown
  /\ cl.handles[n][k] > 0
  /\ cl' = Release(cl, n, k)
  /\ UNCHANGED <<lastFreed, canFree>>

PeriodicSync ==
  /\ ~cl.thrown
  /\ cl.queue # {}
  /\ \E disk \in Disks(cl) :
       LET result == SyncAll(cl, {"timeout"}, 0, disk)
       IN  /\ cl' = result.s
           /\ lastFreed' = result.at
  /\ UNCHANGED canFree

(* Download::sync_chunks(), when the session is saved.                      *)
SyncDownload(l) ==
  /\ ~cl.thrown
  /\ cl.queue \cap ChunkLists[l] # {}
  /\ \E disk \in PlainDisks(cl) : cl' = SyncChunks(cl, l, {"all", "force"}, disk)
  /\ UNCHANGED <<lastFreed, canFree>>

CloseDownload(l) ==
  /\ ~cl.thrown
  /\ l \in cl.open
  /\ \E fails \in SUBSET cl.queue : cl' = Close(cl, l, fails)
  /\ UNCHANGED <<lastFreed, canFree>>

OpenDownload(l) ==
  /\ ~cl.thrown
  /\ l \notin cl.open
  /\ cl' = [cl EXCEPT !.open = @ \cup {l}]
  /\ UNCHANGED <<lastFreed, canFree>>

TenSeconds ==
  /\ ~cl.thrown
  /\ ~canFree
  /\ canFree' = TRUE
  /\ UNCHANGED <<cl, lastFreed>>

Next ==
  \/ \E n \in Nodes, k \in Kinds : Get(n, k) \/ ReleaseHandle(n, k)
  \/ \E l \in Lists : SyncDownload(l) \/ CloseDownload(l) \/ OpenDownload(l)
  \/ PeriodicSync
  \/ TenSeconds

Spec == Init /\ [][Next]_vars

-----------------------------------------------------------------------------
(* A node's counters are the handles on it, plus one read and write         *)
(* reference while it is in the sync queue; it is mapped exactly while it   *)
(* has references.  (release() and sync_chunk() hand the last writable      *)
(* reference back and forth.)                                               *)
ReferencesMatch ==
  \A n \in Nodes :
    LET nd == cl.node[n]  h == cl.handles[n]  q == IF n \in cl.queue THEN 1 ELSE 0
    IN  /\ nd.references = h["up"] + h["down"] + h["hash"] + q
        /\ nd.writable = h["down"] + q
        /\ nd.blocking = h["hash"]
        /\ nd.valid <=> nd.references > 0

(* MemoryManager's counters are the mapped and the queued chunks of all     *)
(* lists, through failed mappings, failed syncs and closed downloads.  The  *)
(* mapped memory never exceeds max_memory_usage, though allocate() compares *)
(* a value read before other chunks were unmapped.                          *)
MemoryAccounted ==
  /\ cl.memory = Cardinality({n \in Nodes : cl.node[n].valid})
  /\ cl.syncCount = Cardinality(cl.queue)
  /\ cl.memory <= MaxMemory

(* No internal_error of ChunkList, ChunkManager or MemoryManager is thrown, *)
(* and no get() runs on a list that was closed under it.                    *)
NothingThrown == ~cl.thrown

(* While its download is open a chunk with changes that were not synced     *)
(* stays mapped.                                                            *)
DirtyStaysMapped == \A n \in cl.dirty : cl.node[n].valid
=============================================================================
