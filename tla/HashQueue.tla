------------------------------ MODULE HashQueue ------------------------------
(***************************************************************************)
(* Hash checking of chunks: HashQueue on the main thread, HashCheckQueue   *)
(* on the disk thread, the two locks between them and the callbacks        *)
(* perform() and work() by which each thread sets the other going.         *)
(*                                                                         *)
(* A step is one critical section, one wait on m_has_done_chunks, or the   *)
(* code between two of them.  A HashChunk is an address: it is deleted     *)
(* when its slot returned and may be allocated again.                      *)
(***************************************************************************)
EXTENDS Integers, FiniteSets, Sequences, Functions

CONSTANTS
  Chunks,       \* addresses of HashChunk objects
  Ids,          \* the downloads that push chunks
  NoId,
  NoChunk,
  MaxPushes     \* bound: how many chunks are pushed

ASSUME HashQueueAssumption ==
  NoId \notin Ids /\ NoChunk \notin Chunks /\ MaxPushes \in Nat /\ IsFiniteSet(Chunks)

VARIABLES
  owner,            \* the nodes of HashQueue: the download of each chunk, or NoId
  m_queue,          \* HashCheckQueue, under its m_lock
  m_done_chunks,    \* under m_done_chunks_lock
  m_has_done_chunks,
  performs, works,  \* the callbacks posted to the disk and to the main thread
  disk, disk_chunk, \* where perform() is, and the chunk it holds
  main, main_chunk, \* where the main thread is, and the chunk it holds
  removing,         \* the argument of the running remove()
  pushes

diskvars == <<disk, disk_chunk>>
mainvars == <<main, main_chunk, removing>>
done     == <<m_done_chunks, m_has_done_chunks>>
vars     == <<owner, m_queue, done, performs, works, diskvars, mainvars, pushes>>

Nodes == {c \in Chunks : owner[c] # NoId}

TypeOK ==
  /\ owner \in [Chunks -> Ids \cup {NoId}]
  /\ m_queue \in Seq(Chunks)
  /\ m_done_chunks \in SUBSET Chunks /\ m_has_done_chunks \in BOOLEAN
  /\ performs \in 0..MaxPushes /\ works \in {0, 1}
  /\ disk \in {"idle", "next", "hash"} /\ disk_chunk \in Chunks \cup {NoChunk}
  /\ main \in {"idle", "work", "slot", "notify_idle", "notify_slot", "remove", "find",
               "wait", "error"}
  /\ main_chunk \in Chunks \cup {NoChunk} /\ removing \in Ids \cup {NoId}
  /\ pushes \in 0..MaxPushes

Init ==
  /\ owner = [c \in Chunks |-> NoId]
  /\ m_queue = <<>>
  /\ m_done_chunks = {} /\ m_has_done_chunks = FALSE
  /\ performs = 0 /\ works = 0
  /\ disk = "idle" /\ disk_chunk = NoChunk
  /\ main = "idle" /\ main_chunk = NoChunk /\ removing = NoId
  /\ pushes = 0

(* Erasing the i-th element of a container.                                 *)
Erase(q, i) == [j \in 1..(Len(q) - 1) |-> IF j < i THEN q[j] ELSE q[j + 1]]

Queued(c) == \E i \in DOMAIN m_queue : m_queue[i] = c

-----------------------------------------------------------------------------
(* The main thread: HashQueue::push_back, from the event loop or from the   *)
(* slot of another chunk.  The callback follows the critical section.       *)

PushBack(c, id) ==
  /\ main \in {"idle", "slot"} /\ pushes < MaxPushes
  /\ owner[c] = NoId /\ c # main_chunk
  /\ owner' = [owner EXCEPT ![c] = id]
  /\ m_queue' = Append(m_queue, c)
  /\ main' = IF m_queue # <<>> THEN main
             ELSE IF main = "idle" THEN "notify_idle" ELSE "notify_slot"
  /\ pushes' = pushes + 1
  /\ UNCHANGED <<done, performs, works, diskvars, main_chunk, removing>>

(* disk_thread::callback(perform).                                          *)
Notify ==
  /\ main \in {"notify_idle", "notify_slot"}
  /\ performs' = performs + 1
  /\ main' = IF main = "notify_idle" THEN "idle" ELSE "slot"
  /\ UNCHANGED <<owner, m_queue, done, works, diskvars, main_chunk, removing, pushes>>

(* HashQueue::work() starts.                                                *)
Work ==
  /\ main = "idle" /\ works > 0
  /\ works' = works - 1
  /\ main' = "work"
  /\ UNCHANGED <<owner, m_queue, done, performs, diskvars, main_chunk, removing, pushes>>

(* pop_next_fn and the erase of the node.  m_done_chunks is ordered by      *)
(* address, so that any of its chunks may be the first.                     *)
PopDone ==
  /\ main = "work"
  /\ \/ /\ m_done_chunks = {}
        /\ m_has_done_chunks' = FALSE
        /\ main' = "idle"
        /\ UNCHANGED <<owner, m_done_chunks, main_chunk>>
     \/ \E c \in m_done_chunks :
          /\ m_done_chunks' = m_done_chunks \ {c}
          /\ main' = IF c \in Nodes THEN "slot" ELSE "error"
          /\ main_chunk' = c
          /\ owner' = [owner EXCEPT ![c] = NoId]
          /\ UNCHANGED m_has_done_chunks
  /\ UNCHANGED <<m_queue, performs, works, diskvars, removing, pushes>>

(* The slot returns and the chunk is deleted.                               *)
SlotReturns ==
  /\ main = "slot"
  /\ main' = "work" /\ main_chunk' = NoChunk
  /\ UNCHANGED <<owner, m_queue, done, performs, works, diskvars, removing, pushes>>

Remove(id) ==
  /\ main = "idle"
  /\ main' = "remove" /\ removing' = id
  /\ UNCHANGED <<owner, m_queue, done, performs, works, diskvars, main_chunk, pushes>>

(* Mutant: remove() returns after the first node it removed.                *)
RemoveFirstNode ==
  /\ main = "remove"
  /\ \/ \E c \in Nodes, i \in DOMAIN m_queue :
          /\ owner[c] = removing /\ m_queue[i] = c
          /\ m_queue' = Erase(m_queue, i)
          /\ owner' = [owner EXCEPT ![c] = NoId]
          /\ main' = "idle" /\ removing' = NoId
          /\ UNCHANGED main_chunk
     \/ \E c \in Nodes :
          /\ owner[c] = removing /\ ~Queued(c)
          /\ main' = "find" /\ main_chunk' = c
          /\ UNCHANGED <<owner, m_queue, removing>>
     \/ /\ \A c \in Nodes : owner[c] # removing
        /\ main' = "idle" /\ removing' = NoId
        /\ UNCHANGED <<owner, m_queue, main_chunk>>
  /\ UNCHANGED <<done, performs, works, diskvars, pushes>>

(* One node of remove(): HashCheckQueue::remove(), and the slot with NULL   *)
(* when the chunk was still there.                                          *)
RemoveNode ==
  /\ main = "remove"
  /\ \/ \E c \in Nodes :
          /\ owner[c] = removing
          /\ \/ \E i \in DOMAIN m_queue :
                   /\ m_queue[i] = c
                   /\ m_queue' = Erase(m_queue, i)
                   /\ owner' = [owner EXCEPT ![c] = NoId]
                   /\ UNCHANGED mainvars
             \/ /\ ~Queued(c)
                /\ main' = "find" /\ main_chunk' = c
                /\ UNCHANGED <<owner, m_queue, removing>>
     \/ /\ \A c \in Nodes : owner[c] # removing
        /\ main' = "idle" /\ removing' = NoId
        /\ UNCHANGED <<owner, m_queue, main_chunk>>
  /\ UNCHANGED <<done, performs, works, diskvars, pushes>>

(* Mutant: a chunk that is not done yet is not waited for.                  *)
RemoveFindGivesUp ==
  /\ main = "find"
  /\ m_done_chunks' = m_done_chunks \ {main_chunk}
  /\ owner' = [owner EXCEPT ![main_chunk] = NoId]
  /\ main' = "remove" /\ main_chunk' = NoChunk
  /\ UNCHANGED <<m_queue, m_has_done_chunks, performs, works, diskvars, removing, pushes>>

(* The chunk is taken out of m_done_chunks, or the loop waits for it.       *)
RemoveFind ==
  /\ main = "find"
  /\ IF main_chunk \in m_done_chunks
     THEN /\ m_done_chunks' = m_done_chunks \ {main_chunk}
          /\ owner' = [owner EXCEPT ![main_chunk] = NoId]
          /\ main' = "remove" /\ main_chunk' = NoChunk
     ELSE /\ main' = "wait"
          /\ UNCHANGED <<owner, m_done_chunks, main_chunk>>
  /\ UNCHANGED <<m_queue, m_has_done_chunks, performs, works, diskvars, removing, pushes>>

(* m_has_done_chunks.wait(false).                                           *)
RemoveWait ==
  /\ main = "wait" /\ m_has_done_chunks
  /\ main' = "find"
  /\ UNCHANGED <<owner, m_queue, done, performs, works, diskvars, main_chunk, removing, pushes>>

-----------------------------------------------------------------------------
(* The disk thread.                                                        *)

Perform ==
  /\ disk = "idle" /\ performs > 0
  /\ performs' = performs - 1
  /\ disk' = "next"
  /\ UNCHANGED <<owner, m_queue, done, works, disk_chunk, mainvars, pushes>>

GetNext ==
  /\ disk = "next"
  /\ IF m_queue = <<>>
     THEN disk' = "idle" /\ UNCHANGED <<m_queue, disk_chunk>>
     ELSE /\ disk_chunk' = Head(m_queue) /\ m_queue' = Tail(m_queue)
          /\ disk' = "hash"
  /\ UNCHANGED <<owner, done, performs, works, mainvars, pushes>>

(* The chunk is hashed, then HashQueue::chunk_done(), all of it under the   *)
(* lock.                                                                    *)
ChunkDone ==
  /\ disk = "hash"
  /\ m_done_chunks' = m_done_chunks \cup {disk_chunk}
  /\ m_has_done_chunks' = TRUE
  /\ works' = IF m_has_done_chunks THEN works ELSE works + 1
  /\ disk' = "next" /\ disk_chunk' = NoChunk
  /\ UNCHANGED <<owner, m_queue, performs, mainvars, pushes>>

-----------------------------------------------------------------------------
MainStep == Notify \/ Work \/ PopDone \/ SlotReturns \/ RemoveNode \/ RemoveFind \/ RemoveWait
DiskStep == Perform \/ GetNext \/ ChunkDone

Next ==
  \/ MainStep \/ DiskStep
  \/ \E c \in Chunks, id \in Ids : PushBack(c, id)
  \/ \E id \in Ids : Remove(id)

(* Both threads keep running.  Every turn of the main thread's event loop   *)
(* runs the callbacks that were posted, however often a client calls        *)
(* remove() in between, hence strong fairness for work().                   *)
Spec == Init /\ [][Next]_vars /\ WF_vars(MainStep) /\ WF_vars(DiskStep) /\ SF_vars(Work)

-----------------------------------------------------------------------------
(* Neither thread touches a chunk that was deleted: the one the disk thread *)
(* hashes and those it will take next have their node, and work() finds the *)
(* node of every chunk it takes from m_done_chunks, so that "Could not find *)
(* done chunk's node" is never thrown.                                      *)
HashesLiveChunks ==
  /\ main # "error"
  /\ disk = "hash" => owner[disk_chunk] # NoId
  /\ \A i \in DOMAIN m_queue : owner[m_queue[i]] # NoId

Service == INSTANCE HashService WITH pending <- owner

(* HashQueue keeps its promise to the downloads: one call of the slot for   *)
(* each chunk, and nothing left of a download once remove() returned.       *)
ImplementsService == Service!Spec
=============================================================================
