----------------------------- MODULE HashProofs -----------------------------
(***************************************************************************)
(* Proofs about hash checking: the queue between the main thread and the   *)
(* disk thread, and the check of a whole download.                         *)
(***************************************************************************)
EXTENDS HashQueue, HashTorrent, FiniteSetTheorems, TLAPS

-----------------------------------------------------------------------------
(* HashQueue, for any chunks, downloads and number of pushes.              *)

(* A chunk with a node is in one place: in the queue, once, at the disk     *)
(* thread, or among the done ones; and nothing else is in these places.     *)
PlacesInv ==
  /\ IsInjective(m_queue)
  /\ Range(m_queue) \cap m_done_chunks = {}
  /\ disk_chunk \notin Range(m_queue) \cup m_done_chunks
  /\ disk = "hash" <=> disk_chunk # NoChunk
  /\ \A c \in Chunks : owner[c] # NoId <=>
       c \in Range(m_queue) \/ c = disk_chunk \/ c \in m_done_chunks

(* The chunk remove() waits for is its download's, and not in the queue.    *)
RemoveInv ==
  /\ main # "error"
  /\ main \in {"remove", "find", "wait"} <=> removing # NoId
  /\ main \in {"find", "wait"} =>
       main_chunk \in Chunks /\ owner[main_chunk] = removing /\ main_chunk \notin Range(m_queue)

(* m_has_done_chunks stays set from the callback that is posted for it to   *)
(* the end of work(), so that there is never a second one.                  *)
CallbackInv ==
  /\ m_has_done_chunks => works = 1 \/ main \in {"work", "slot", "notify_slot"}
  /\ works = 1 => m_has_done_chunks
  /\ main \in {"work", "slot", "notify_slot"} => m_has_done_chunks /\ works = 0
  /\ performs + (IF main \in {"notify_idle", "notify_slot"} THEN 1 ELSE 0) <= pushes

IInv == TypeOK /\ PlacesInv /\ RemoveInv /\ CallbackInv

(* What the operations on the queue do to its chunks.                       *)
LEMMA AppendFacts ==
  ASSUME NEW q \in Seq(Chunks), NEW c \in Chunks
  PROVE  /\ Append(q, c) \in Seq(Chunks)
         /\ Range(Append(q, c)) = Range(q) \cup {c}
         /\ IsInjective(q) /\ c \notin Range(q) => IsInjective(Append(q, c))
<1> DEFINE r == Append(q, c)
           n == Len(q)
<1>1. /\ r \in Seq(Chunks) /\ n \in Nat /\ DOMAIN q = 1..n /\ DOMAIN r = 1..(n + 1)
      /\ \A i \in 1..n : r[i] = q[i]
      /\ r[n + 1] = c
  OBVIOUS
<1>2. n + 1 \in DOMAIN r /\ \A i \in DOMAIN r : i \in DOMAIN q \/ i = n + 1
  BY <1>1
<1>3. DOMAIN q \subseteq DOMAIN r
  BY <1>1
<1> HIDE DEF r, n
<1>4. Range(r) = Range(q) \cup {c}
  BY <1>1, <1>2, <1>3 DEF Range
<1>5. IsInjective(q) /\ c \notin Range(q) => IsInjective(r)
  BY <1>1, <1>2 DEF IsInjective, Range
<1> QED
  BY <1>1, <1>4, <1>5 DEF r

(* pop_front of the queue of the disk thread.                               *)
LEMMA TailFacts ==
  ASSUME NEW q \in Seq(Chunks), q # <<>>, IsInjective(q)
  PROVE  /\ Tail(q) \in Seq(Chunks) /\ Head(q) \in Range(q) /\ Head(q) \in Chunks
         /\ Range(Tail(q)) = Range(q) \ {Head(q)}
         /\ IsInjective(Tail(q))
<1> DEFINE r == Tail(q)
           n == Len(q)
<1>1. /\ r \in Seq(Chunks) /\ n \in Nat \ {0} /\ DOMAIN q = 1..n /\ DOMAIN r = 1..(n - 1)
      /\ \A i \in 1..(n - 1) : r[i] = q[i + 1]
      /\ Head(q) = q[1] /\ q[1] \in Chunks
  OBVIOUS
<1>2. 1 \in DOMAIN q /\ \A i \in DOMAIN r : i + 1 \in DOMAIN q /\ i + 1 # 1
  BY <1>1
<1>3. \A j \in DOMAIN q : j # 1 => j - 1 \in DOMAIN r /\ (j - 1) + 1 = j
  BY <1>1
<1>4. \A i, j \in DOMAIN r : i + 1 = j + 1 => i = j
  BY <1>1
<1> HIDE DEF r, n
<1>5. Range(r) = Range(q) \ {q[1]}
  <2>1. ASSUME NEW i \in DOMAIN r PROVE r[i] \in Range(q) \ {q[1]}
    BY <1>1, <1>2 DEF Range, IsInjective
  <2>2. ASSUME NEW j \in DOMAIN q, q[j] # q[1] PROVE q[j] \in Range(r)
    <3>1. j - 1 \in DOMAIN r /\ r[j - 1] = q[j]
      BY <1>1, <1>3, <2>2
    <3> QED
      BY <3>1 DEF Range
  <2> QED
    BY <2>1, <2>2 DEF Range
<1>6. IsInjective(r)
  BY <1>1, <1>2, <1>4 DEF IsInjective
<1> QED
  BY <1>1, <1>2, <1>5, <1>6, Zenon DEF r, Range

(* HashCheckQueue::remove(): the chunk goes, the others keep their order.   *)
LEMMA EraseFacts ==
  ASSUME NEW q \in Seq(Chunks), NEW k \in DOMAIN q, IsInjective(q)
  PROVE  /\ Erase(q, k) \in Seq(Chunks)
         /\ Range(Erase(q, k)) = Range(q) \ {q[k]}
         /\ IsInjective(Erase(q, k))
<1> DEFINE r == Erase(q, k)
           n == Len(q)
           from(i) == IF i < k THEN i ELSE i + 1
<1>1. n \in Nat /\ DOMAIN q = 1..n /\ k \in 1..n /\ \A i \in 1..n : q[i] \in Chunks
  OBVIOUS
<1>2. \A i \in 1..(n - 1) : from(i) \in 1..n /\ from(i) # k
  BY <1>1
<1>3. \A i, j \in 1..(n - 1) : from(i) = from(j) => i = j
  BY <1>1
<1>4. \A j \in 1..n : j # k => \E i \in 1..(n - 1) : from(i) = j
  <2> SUFFICES ASSUME NEW j \in 1..n, j # k PROVE \E i \in 1..(n - 1) : from(i) = j
    OBVIOUS
  <2>1. CASE j < k
    <3>1. j \in 1..(n - 1) /\ from(j) = j
      BY <1>1, <2>1
    <3> QED
      BY <3>1
  <2>2. CASE j > k
    <3>1. j - 1 \in 1..(n - 1) /\ from(j - 1) = j
      BY <1>1, <2>2
    <3> QED
      BY <3>1
  <2> QED
    BY <1>1, <2>1, <2>2
<1>5. DOMAIN r = 1..(n - 1) /\ \A i \in 1..(n - 1) : r[i] = q[from(i)]
  BY DEF Erase
<1>6. r = [i \in 1..(n - 1) |-> q[from(i)]]
  BY DEF Erase
<1> HIDE DEF from, r
<1>7. r \in Seq(Chunks)
  <2>1. n - 1 \in Nat
    BY <1>1
  <2>2. \A i \in 1..(n - 1) : q[from(i)] \in Chunks
    BY <1>1, <1>2
  <2> HIDE DEF n
  <2>3. r \in [1..(n - 1) -> Chunks]
    BY <1>6, <2>2
  <2> QED
    BY <2>1, <2>3
<1> HIDE DEF n
<1>8. Range(r) = Range(q) \ {q[k]}
  <2>1. ASSUME NEW i \in DOMAIN r PROVE r[i] \in Range(q) \ {q[k]}
    BY <1>1, <1>2, <1>5 DEF Range, IsInjective
  <2>2. ASSUME NEW j \in DOMAIN q, q[j] # q[k] PROVE q[j] \in Range(r)
    BY <1>1, <1>4, <1>5, <2>2, SMTT(60) DEF Range
  <2> QED
    BY <2>1, <2>2 DEF Range
<1>9. IsInjective(r)
  BY <1>1, <1>2, <1>3, <1>5 DEF IsInjective
<1> QED
  BY <1>7, <1>8, <1>9 DEF r

(* Both queues start empty.                                                 *)
LEMMA InitIInv == Init => IInv
<1> SUFFICES ASSUME Init PROVE IInv
  OBVIOUS
<1>1. TypeOK
  <2>1. m_queue \in Seq(Chunks) /\ performs \in 0..MaxPushes /\ pushes \in 0..MaxPushes
    BY HashQueueAssumption DEF Init
  <2> QED
    BY <2>1, Zenon DEF Init, TypeOK
<1>2. PlacesInv
  BY HashQueueAssumption DEF Init, PlacesInv, IsInjective, Range
<1>3. RemoveInv /\ CallbackInv
  BY DEF Init, RemoveInv, CallbackInv
<1> QED
  BY <1>1, <1>2, <1>3 DEF IInv

(* A chunk that is pushed is in none of the places yet.                     *)
LEMMA PushBackIInv ==
  ASSUME IInv, NEW c \in Chunks, NEW id \in Ids, PushBack(c, id)
  PROVE  IInv'
<1>1. /\ main \in {"idle", "slot"} /\ owner[c] = NoId /\ pushes < MaxPushes /\ pushes' = pushes + 1
      /\ owner' = [owner EXCEPT ![c] = id] /\ m_queue' = Append(m_queue, c)
      /\ \/ main' = main
         \/ main = "idle" /\ main' = "notify_idle"
         \/ main = "slot" /\ main' = "notify_slot"
      /\ UNCHANGED <<m_done_chunks, m_has_done_chunks, performs, works, disk, disk_chunk, main_chunk,
                     removing>>
  BY DEF PushBack, done, diskvars
<1>2. c \notin Range(m_queue) /\ c # disk_chunk /\ c \notin m_done_chunks /\ c # NoChunk
  BY <1>1, HashQueueAssumption DEF IInv, TypeOK, PlacesInv
<1>3. /\ m_queue' \in Seq(Chunks) /\ Range(m_queue') = Range(m_queue) \cup {c}
      /\ IsInjective(m_queue')
  BY <1>1, <1>2, AppendFacts DEF IInv, TypeOK, PlacesInv
<1>4. TypeOK'
  <2>1. pushes' \in 0..MaxPushes
    BY <1>1, HashQueueAssumption DEF IInv, TypeOK
  <2>2. owner' \in [Chunks -> Ids \cup {NoId}]
    BY <1>1 DEF IInv, TypeOK
  <2> QED
    BY <1>1, <1>3, <2>1, <2>2 DEF IInv, TypeOK
<1>5. PlacesInv'
  <2>1. \A x \in Chunks : owner'[x] # NoId <=> owner[x] # NoId \/ x = c
    BY <1>1, HashQueueAssumption DEF IInv, TypeOK
  <2> QED
    BY <1>1, <1>2, <1>3, <2>1 DEF IInv, PlacesInv
<1>6. RemoveInv'
  BY <1>1 DEF IInv, RemoveInv
<1>7. CallbackInv'
  <2>1. performs + (IF main' \in {"notify_idle", "notify_slot"} THEN 1 ELSE 0) <= pushes + 1
    BY <1>1, HashQueueAssumption DEF IInv, TypeOK, CallbackInv
  <2> QED
    BY <1>1, <2>1 DEF IInv, CallbackInv
<1> QED
  BY <1>4, <1>5, <1>6, <1>7 DEF IInv

(* push_back() tells the disk thread.                                       *)
LEMMA NotifyIInv ==
  ASSUME IInv, Notify
  PROVE  IInv'
<1>1. /\ performs' = performs + 1
      /\ \/ main = "notify_idle" /\ main' = "idle"
         \/ main = "notify_slot" /\ main' = "slot"
      /\ UNCHANGED <<owner, m_queue, m_done_chunks, m_has_done_chunks, works, disk, disk_chunk,
                     main_chunk, removing, pushes>>
  BY DEF Notify, done, diskvars
<1>2. performs + 1 <= pushes /\ performs \in Nat /\ pushes \in 0..MaxPushes
  BY <1>1, HashQueueAssumption DEF IInv, TypeOK, CallbackInv
<1>3. performs' \in 0..MaxPushes /\ performs' + 0 <= pushes
  BY <1>1, <1>2, HashQueueAssumption
<1>4. TypeOK'
  BY <1>1, <1>3 DEF IInv, TypeOK
<1>5. PlacesInv' /\ RemoveInv'
  BY <1>1 DEF IInv, PlacesInv, RemoveInv
<1>6. CallbackInv'
  BY <1>1, <1>3 DEF IInv, CallbackInv
<1> QED
  BY <1>4, <1>5, <1>6 DEF IInv

(* work() starts; the callback that was posted is used up.                  *)
LEMMA WorkIInv ==
  ASSUME IInv, Work
  PROVE  IInv'
<1>1. /\ main = "idle" /\ works = 1 /\ works' = 0 /\ main' = "work"
      /\ UNCHANGED <<owner, m_queue, m_done_chunks, m_has_done_chunks, performs, disk, disk_chunk,
                     main_chunk, removing, pushes>>
  BY DEF IInv, TypeOK, Work, done, diskvars
<1>2. TypeOK'
  BY <1>1 DEF IInv, TypeOK
<1>3. PlacesInv' /\ RemoveInv' /\ CallbackInv'
  BY <1>1 DEF IInv, PlacesInv, RemoveInv, CallbackInv
<1> QED
  BY <1>2, <1>3 DEF IInv

(* Every done chunk has its node.                                           *)
LEMMA PopDoneIInv ==
  ASSUME IInv, PopDone
  PROVE  IInv'
<1>1. /\ main = "work"
      /\ UNCHANGED <<m_queue, performs, works, disk, disk_chunk, removing, pushes>>
  BY DEF PopDone, diskvars
<1>2. CASE /\ m_has_done_chunks' = FALSE /\ main' = "idle"
           /\ UNCHANGED <<owner, m_done_chunks, main_chunk>>
  <2>1. TypeOK'
    BY <1>1, <1>2, Zenon DEF IInv, TypeOK
  <2>2. PlacesInv' /\ RemoveInv' /\ CallbackInv'
    BY <1>1, <1>2 DEF IInv, PlacesInv, RemoveInv, CallbackInv
  <2> QED
    BY <2>1, <2>2 DEF IInv
<1>3. ASSUME NEW c \in m_done_chunks,
             /\ m_done_chunks' = m_done_chunks \ {c}
             /\ main' = IF c \in Nodes THEN "slot" ELSE "error"
             /\ main_chunk' = c
             /\ owner' = [owner EXCEPT ![c] = NoId]
             /\ UNCHANGED m_has_done_chunks
      PROVE  IInv'
  <2>1. c \in Chunks /\ owner[c] # NoId /\ c \notin Range(m_queue) /\ c # disk_chunk
    BY DEF IInv, TypeOK, PlacesInv
  <2>2. main' = "slot"
    BY <1>3, <2>1 DEF Nodes
  <2>3. TypeOK'
    BY <1>1, <1>3, <2>1, <2>2, SMTT(60) DEF IInv, TypeOK
  <2>4. PlacesInv'
    <3>1. \A x \in Chunks : owner'[x] # NoId <=> owner[x] # NoId /\ x # c
      BY <1>3 DEF IInv, TypeOK
    <3> QED
      BY <1>1, <1>3, <2>1, <3>1 DEF IInv, PlacesInv
  <2>5. RemoveInv' /\ CallbackInv'
    BY <1>1, <1>3, <2>2 DEF IInv, RemoveInv, CallbackInv
  <2> QED
    BY <2>3, <2>4, <2>5 DEF IInv
<1> QED
  BY <1>2, <1>3, Zenon DEF PopDone

(* The slot returns to work(), which deletes the chunk.                     *)
LEMMA SlotReturnsIInv ==
  ASSUME IInv, SlotReturns
  PROVE  IInv'
<1>1. /\ main = "slot" /\ main' = "work" /\ main_chunk' = NoChunk
      /\ UNCHANGED <<owner, m_queue, m_done_chunks, m_has_done_chunks, performs, works, disk,
                     disk_chunk, removing, pushes>>
  BY DEF SlotReturns, done, diskvars
<1>2. TypeOK'
  BY <1>1 DEF IInv, TypeOK
<1>3. PlacesInv' /\ RemoveInv' /\ CallbackInv'
  BY <1>1 DEF IInv, PlacesInv, RemoveInv, CallbackInv
<1> QED
  BY <1>2, <1>3 DEF IInv

(* remove() of a download starts.                                           *)
LEMMA RemoveIInv ==
  ASSUME IInv, NEW id \in Ids, Remove(id)
  PROVE  IInv'
<1>1. /\ main = "idle" /\ main' = "remove" /\ removing' = id /\ id # NoId
      /\ UNCHANGED <<owner, m_queue, m_done_chunks, m_has_done_chunks, performs, works, disk,
                     disk_chunk, main_chunk, pushes>>
  BY HashQueueAssumption DEF Remove, done, diskvars
<1>2. TypeOK'
  BY <1>1 DEF IInv, TypeOK
<1>3. PlacesInv' /\ RemoveInv' /\ CallbackInv'
  BY <1>1 DEF IInv, PlacesInv, RemoveInv, CallbackInv
<1> QED
  BY <1>2, <1>3 DEF IInv

(* A chunk still in the queue leaves it together with its node.             *)
LEMMA RemoveNodeIInv ==
  ASSUME IInv, RemoveNode
  PROVE  IInv'
<1>1. /\ main = "remove"
      /\ UNCHANGED <<m_done_chunks, m_has_done_chunks, performs, works, disk, disk_chunk, pushes>>
  BY DEF RemoveNode, done, diskvars
<1>2. ASSUME NEW c \in Nodes, NEW i \in DOMAIN m_queue,
             owner[c] = removing, m_queue[i] = c, m_queue' = Erase(m_queue, i),
             owner' = [owner EXCEPT ![c] = NoId], UNCHANGED <<main, main_chunk, removing>>
      PROVE  IInv'
  <2>1. c \in Chunks /\ c \in Range(m_queue)
    BY <1>2 DEF Nodes, Range
  <2>2. /\ m_queue' \in Seq(Chunks) /\ Range(m_queue') = Range(m_queue) \ {c}
        /\ IsInjective(m_queue')
    BY <1>2, EraseFacts DEF IInv, TypeOK, PlacesInv
  <2>3. TypeOK'
    BY <1>1, <1>2, <2>2 DEF IInv, TypeOK
  <2>4. PlacesInv'
    <3>1. \A x \in Chunks : owner'[x] # NoId <=> owner[x] # NoId /\ x # c
      BY <1>2 DEF IInv, TypeOK
    <3> QED
      BY <1>1, <2>1, <2>2, <3>1 DEF IInv, PlacesInv
  <2>5. RemoveInv' /\ CallbackInv'
    BY <1>1, <1>2 DEF IInv, RemoveInv, CallbackInv
  <2> QED
    BY <2>3, <2>4, <2>5 DEF IInv
<1>3. ASSUME NEW c \in Nodes, owner[c] = removing, ~Queued(c), main' = "find", main_chunk' = c,
             UNCHANGED <<owner, m_queue, removing>>
      PROVE  IInv'
  <2>1. c \in Chunks /\ c \notin Range(m_queue)
    BY <1>3 DEF Nodes, Queued, Range
  <2>2. TypeOK'
    BY <1>1, <1>3, <2>1 DEF IInv, TypeOK
  <2>3. PlacesInv' /\ RemoveInv' /\ CallbackInv'
    BY <1>1, <1>3, <2>1 DEF IInv, PlacesInv, RemoveInv, CallbackInv
  <2> QED
    BY <2>2, <2>3 DEF IInv
<1>4. CASE main' = "idle" /\ removing' = NoId /\ UNCHANGED <<owner, m_queue, main_chunk>>
  <2>1. TypeOK'
    BY <1>1, <1>4 DEF IInv, TypeOK
  <2>2. PlacesInv' /\ RemoveInv' /\ CallbackInv'
    BY <1>1, <1>4 DEF IInv, PlacesInv, RemoveInv, CallbackInv
  <2> QED
    BY <2>1, <2>2 DEF IInv
<1> QED
  BY <1>2, <1>3, <1>4, SMTT(60) DEF RemoveNode, mainvars

(* remove() takes the chunk out of m_done_chunks, or goes to wait.          *)
LEMMA RemoveFindIInv ==
  ASSUME IInv, RemoveFind
  PROVE  IInv'
<1>1. /\ main = "find"
      /\ UNCHANGED <<m_queue, m_has_done_chunks, performs, works, disk, disk_chunk, removing, pushes>>
  BY DEF RemoveFind, diskvars
<1>2. CASE /\ main_chunk \in m_done_chunks /\ m_done_chunks' = m_done_chunks \ {main_chunk}
           /\ owner' = [owner EXCEPT ![main_chunk] = NoId]
           /\ main' = "remove" /\ main_chunk' = NoChunk
  <2>1. main_chunk \in Chunks /\ main_chunk \notin Range(m_queue) /\ main_chunk # disk_chunk
    BY <1>1, <1>2 DEF IInv, RemoveInv, PlacesInv
  <2>2. TypeOK'
    BY <1>1, <1>2, <2>1 DEF IInv, TypeOK
  <2>3. PlacesInv'
    <3>1. \A x \in Chunks : owner'[x] # NoId <=> owner[x] # NoId /\ x # main_chunk
      BY <1>2 DEF IInv, TypeOK
    <3> QED
      BY <1>1, <1>2, <2>1, <3>1 DEF IInv, PlacesInv
  <2>4. RemoveInv' /\ CallbackInv'
    BY <1>1, <1>2 DEF IInv, RemoveInv, CallbackInv
  <2> QED
    BY <2>2, <2>3, <2>4 DEF IInv
<1>3. CASE main' = "wait" /\ UNCHANGED <<owner, m_done_chunks, main_chunk>>
  <2>1. TypeOK'
    BY <1>1, <1>3 DEF IInv, TypeOK
  <2>2. PlacesInv' /\ RemoveInv' /\ CallbackInv'
    BY <1>1, <1>3 DEF IInv, PlacesInv, RemoveInv, CallbackInv
  <2> QED
    BY <2>1, <2>2 DEF IInv
<1> QED
  BY <1>2, <1>3 DEF RemoveFind

(* m_has_done_chunks sends remove() back to look again.                     *)
LEMMA RemoveWaitIInv ==
  ASSUME IInv, RemoveWait
  PROVE  IInv'
<1>1. /\ main = "wait" /\ main' = "find"
      /\ UNCHANGED <<owner, m_queue, m_done_chunks, m_has_done_chunks, performs, works, disk,
                     disk_chunk, main_chunk, removing, pushes>>
  BY DEF RemoveWait, done, diskvars
<1>2. TypeOK'
  BY <1>1 DEF IInv, TypeOK
<1>3. PlacesInv' /\ RemoveInv' /\ CallbackInv'
  BY <1>1 DEF IInv, PlacesInv, RemoveInv, CallbackInv
<1> QED
  BY <1>2, <1>3 DEF IInv

(* The disk thread runs the perform() that was posted.                      *)
LEMMA PerformIInv ==
  ASSUME IInv, Perform
  PROVE  IInv'
<1>1. /\ disk = "idle" /\ disk' = "next" /\ performs > 0 /\ performs' = performs - 1
      /\ UNCHANGED <<owner, m_queue, m_done_chunks, m_has_done_chunks, works, disk_chunk, main,
                     main_chunk, removing, pushes>>
  BY DEF Perform, done, mainvars
<1>2. performs' \in 0..MaxPushes
  BY <1>1, HashQueueAssumption DEF IInv, TypeOK
<1>3. TypeOK'
  BY <1>1, <1>2 DEF IInv, TypeOK
<1>4. PlacesInv' /\ RemoveInv'
  BY <1>1 DEF IInv, PlacesInv, RemoveInv
<1>5. CallbackInv'
  <2>1. (IF main \in {"notify_idle", "notify_slot"} THEN 1 ELSE 0) \in Nat
    OBVIOUS
  <2>2. performs \in Int /\ pushes \in Int
    BY HashQueueAssumption DEF IInv, TypeOK
  <2> QED
    BY <1>1, <2>1, <2>2 DEF IInv, CallbackInv
<1> QED
  BY <1>3, <1>4, <1>5 DEF IInv

(* perform() takes the next chunk, or ends.                                 *)
LEMMA GetNextIInv ==
  ASSUME IInv, GetNext
  PROVE  IInv'
<1>1. /\ disk = "next"
      /\ UNCHANGED <<owner, m_done_chunks, m_has_done_chunks, performs, works, main, main_chunk,
                     removing, pushes>>
  BY DEF GetNext, done, mainvars
<1>2. CASE disk' = "idle" /\ UNCHANGED <<m_queue, disk_chunk>>
  <2>1. TypeOK'
    BY <1>1, <1>2 DEF IInv, TypeOK
  <2>2. PlacesInv' /\ RemoveInv' /\ CallbackInv'
    BY <1>1, <1>2 DEF IInv, PlacesInv, RemoveInv, CallbackInv
  <2> QED
    BY <2>1, <2>2 DEF IInv
<1>3. CASE /\ m_queue # <<>> /\ disk' = "hash"
           /\ disk_chunk' = Head(m_queue) /\ m_queue' = Tail(m_queue)
  <2>1. /\ m_queue' \in Seq(Chunks) /\ IsInjective(m_queue') /\ disk_chunk' \in Chunks
        /\ disk_chunk' \in Range(m_queue) /\ Range(m_queue') = Range(m_queue) \ {disk_chunk'}
    BY <1>3, TailFacts DEF IInv, TypeOK, PlacesInv
  <2>2. disk_chunk = NoChunk /\ disk_chunk' # NoChunk
    BY <1>1, <2>1, HashQueueAssumption DEF IInv, PlacesInv
  <2>3. TypeOK'
    BY <1>1, <1>3, <2>1 DEF IInv, TypeOK
  <2>4. PlacesInv'
    BY <1>1, <1>3, <2>1, <2>2, HashQueueAssumption DEF IInv, PlacesInv
  <2>5. RemoveInv' /\ CallbackInv'
    BY <1>1, <2>1 DEF IInv, RemoveInv, CallbackInv
  <2> QED
    BY <2>3, <2>4, <2>5 DEF IInv
<1> QED
  BY <1>2, <1>3 DEF GetNext

(* The callback is posted when the flag was clear: none is posted then.     *)
LEMMA ChunkDoneIInv ==
  ASSUME IInv, ChunkDone
  PROVE  IInv'
<1>1. /\ disk = "hash" /\ disk' = "next" /\ disk_chunk' = NoChunk
      /\ m_done_chunks' = m_done_chunks \cup {disk_chunk} /\ m_has_done_chunks' = TRUE
      /\ works' = IF m_has_done_chunks THEN works ELSE works + 1
      /\ UNCHANGED <<owner, m_queue, performs, main, main_chunk, removing, pushes>>
  BY DEF ChunkDone, mainvars
<1>2. disk_chunk \in Chunks /\ disk_chunk \notin Range(m_queue)
  BY <1>1 DEF IInv, TypeOK, PlacesInv
<1>3. IF m_has_done_chunks THEN works' = works ELSE works = 0 /\ works' = 1
  BY <1>1 DEF IInv, TypeOK, CallbackInv
<1>4. TypeOK'
  BY <1>1, <1>2, <1>3, SMTT(60) DEF IInv, TypeOK
<1>5. PlacesInv'
  <2>1. NoChunk \notin Range(m_queue) /\ NoChunk \notin m_done_chunks'
    BY <1>1, <1>2, HashQueueAssumption DEF IInv, TypeOK, Range
  <2> QED
    BY <1>1, <1>2, <2>1, HashQueueAssumption, SMTT(60) DEF IInv, PlacesInv
<1>6. RemoveInv' /\ CallbackInv'
  BY <1>1, <1>3 DEF IInv, TypeOK, RemoveInv, CallbackInv
<1> QED
  BY <1>4, <1>5, <1>6 DEF IInv

(* Every step of both threads keeps the invariant.                          *)
LEMMA StepIInv == IInv /\ [Next]_vars => IInv'
<1> SUFFICES ASSUME IInv, [Next]_vars PROVE IInv'
  OBVIOUS
<1>1. CASE MainStep
  BY <1>1, NotifyIInv, WorkIInv, PopDoneIInv, SlotReturnsIInv, RemoveNodeIInv, RemoveFindIInv,
     RemoveWaitIInv
  DEF MainStep
<1>2. CASE DiskStep
  BY <1>2, PerformIInv, GetNextIInv, ChunkDoneIInv DEF DiskStep
<1>3. CASE \E c \in Chunks, id \in Ids : PushBack(c, id)
  BY <1>3, PushBackIInv
<1>4. CASE \E id \in Ids : Remove(id)
  BY <1>4, RemoveIInv
<1>5. CASE UNCHANGED vars
  <2>1. TypeOK'
    BY <1>5, SMTT(60) DEF IInv, TypeOK, vars, done, diskvars, mainvars
  <2>2. PlacesInv' /\ RemoveInv' /\ CallbackInv'
    BY <1>5 DEF IInv, PlacesInv, RemoveInv, CallbackInv, vars, done, diskvars, mainvars
  <2> QED
    BY <2>1, <2>2 DEF IInv
<1> QED
  BY <1>1, <1>2, <1>3, <1>4, <1>5 DEF Next

(* The invariant holds in every reachable state.                            *)
LEMMA AlwaysIInv == Spec => []IInv
  BY InitIInv, StepIInv, PTL DEF Spec

(* Neither thread touches a deleted chunk, and work() finds every node, in  *)
(* every interleaving of push_back(), remove(), work() and perform().       *)
THEOREM HashesOnlyLiveChunks == Spec => []HashesLiveChunks
<1>1. IInv => HashesLiveChunks
  <2> SUFFICES ASSUME IInv PROVE HashesLiveChunks
    OBVIOUS
  <2>1. disk = "hash" => owner[disk_chunk] # NoId
    BY SMTT(60) DEF IInv, TypeOK, PlacesInv
  <2>2. ASSUME NEW i \in DOMAIN m_queue PROVE owner[m_queue[i]] # NoId
    <3>1. m_queue[i] \in Chunks /\ m_queue[i] \in Range(m_queue)
      BY DEF IInv, TypeOK, Range
    <3> QED
      BY <3>1 DEF IInv, PlacesInv
  <2> QED
    BY <2>1, <2>2 DEF IInv, RemoveInv, HashesLiveChunks
<1> QED
  BY <1>1, AlwaysIInv, PTL

(* A download's chunk is never lost between the threads: while its slot was *)
(* not called it is in the queue, in the hands of the disk thread or among  *)
(* the done ones, in one of the three, and once.                            *)
ChunksInOnePlace ==
  \A c \in Nodes :
    /\ \/ c \in Range(m_queue) /\ c # disk_chunk /\ c \notin m_done_chunks
       \/ c \notin Range(m_queue) /\ c = disk_chunk /\ c \notin m_done_chunks
       \/ c \notin Range(m_queue) /\ c # disk_chunk /\ c \in m_done_chunks
    /\ \A i, j \in DOMAIN m_queue : m_queue[i] = c /\ m_queue[j] = c => i = j

(* No interleaving of push_back(), remove(), perform() and work() loses or  *)
(* doubles a chunk.                                                         *)
THEOREM NoChunkIsLost == Spec => []ChunksInOnePlace
<1>1. IInv => ChunksInOnePlace
  BY DEF IInv, PlacesInv, ChunksInOnePlace, Nodes, IsInjective
<1> QED
  BY <1>1, AlwaysIInv, PTL

(* The steps of the detailed queue are steps of the promise: push_back()    *)
(* adds, work() answers a chunk that waits while no remove() runs, remove() *)
(* clears only chunks of its own download and ends when none is left, and   *)
(* the steps of the disk thread are not seen.                               *)
LEMMA StepServes ==
  ASSUME IInv, [Next]_vars
  PROVE  [Service!Next]_(Service!vars)
<1>1. ASSUME NEW c \in Chunks, NEW id \in Ids, PushBack(c, id)
      PROVE  Service!Add(c, id)
  BY <1>1 DEF IInv, RemoveInv, PushBack, Service!Add
<1>2. CASE PopDone
  <2>1. removing = NoId /\ removing' = removing
    BY <1>2 DEF IInv, RemoveInv, PopDone
  <2>2. ASSUME NEW c \in m_done_chunks, owner' = [owner EXCEPT ![c] = NoId]
        PROVE  c \in Chunks /\ Service!Answer(c)
    BY <2>1, <2>2 DEF IInv, TypeOK, PlacesInv, Service!Answer
  <2> QED
    BY <1>2, <2>1, <2>2 DEF PopDone, Service!Next, Service!vars
<1>3. ASSUME NEW id \in Ids, Remove(id)
      PROVE  Service!BeginRemove(id)
  BY <1>3, SMTT(60) DEF IInv, RemoveInv, Remove, Service!BeginRemove
<1>4. CASE RemoveNode
  <2>1. removing # NoId
    BY <1>4 DEF IInv, RemoveInv, RemoveNode
  <2>2. ASSUME NEW c \in Nodes, owner[c] = removing, owner' = [owner EXCEPT ![c] = NoId],
               removing' = removing
        PROVE  c \in Chunks /\ Service!Clear(c)
    BY <2>1, <2>2 DEF Nodes, Service!Clear
  <2>3. ASSUME \A c \in Nodes : owner[c] # removing, removing' = NoId, owner' = owner
        PROVE  Service!EndRemove
    BY <2>1, <2>3 DEF Nodes, Service!EndRemove
  <2> QED
    BY <1>4, <2>2, <2>3, SMTT(60) DEF RemoveNode, mainvars, Service!Next, Service!vars
<1>5. CASE RemoveFind
  <2>1. /\ main_chunk \in Chunks /\ owner[main_chunk] = removing /\ removing # NoId
        /\ removing' = removing
    BY <1>5 DEF IInv, RemoveInv, RemoveFind
  <2>2. owner' = [owner EXCEPT ![main_chunk] = NoId] => Service!Clear(main_chunk)
    BY <2>1 DEF Service!Clear
  <2> QED
    BY <1>5, <2>1, <2>2 DEF RemoveFind, Service!Next, Service!vars
<1>6. CASE Notify \/ Work \/ SlotReturns \/ RemoveWait \/ DiskStep \/ UNCHANGED vars
  BY <1>6 DEF Notify, Work, SlotReturns, RemoveWait, DiskStep, Perform, GetNext, ChunkDone, vars,
              mainvars, Service!vars
<1> QED
  BY <1>1, <1>2, <1>3, <1>4, <1>5, <1>6, SMTT(60) DEF Next, MainStep, Service!Next

(* HashQueue keeps the safety part of HashService: every chunk pushed is    *)
(* answered at most once, with its hash outside of remove() and with NULL   *)
(* only by a remove() of its download, after which none of them is left.    *)
THEOREM ServesSafely == Spec => Service!Init /\ [][Service!Next]_(Service!vars)
<1>1. Init => Service!Init
  BY DEF Init, Service!Init
<1> QED
  BY <1>1, AlwaysIInv, StepServes, PTL DEF Spec

-----------------------------------------------------------------------------
(* HashTorrent, for any number of chunks and any limits.                   *)

(* What is still to be found out: the rest of the ranges and the queue.     *)
Todo == InRange \cup queued

(* The bitfield tells the truth about the other chunks and claims none of   *)
(* these.  An I/O error forgets the position, and the bitfield is not to be *)
(* read until the download is closed for it.                                *)
BitfieldInv ==
  /\ bitfield = Unallocated => m_position = 0 /\ m_outstanding = -1 /\ ~m_errno
  /\ bitfield # Unallocated /\ ~m_errno => bitfield = good \ Todo
  /\ ~open => bitfield = Unallocated
  /\ good \cap missing = {}

(* What is outstanding is in the queue, all of it before the position.      *)
QueueInv ==
  /\ m_outstanding = -1 => queued = {} /\ ~queueing /\ m_position \in {0, Size}
  /\ m_outstanding >= 0 => m_outstanding = Cardinality(queued) /\ ~m_errno /\ open
  /\ \A i \in queued : i < m_position
  /\ queueing /\ quick => m_outstanding = 0

(* A delay is scheduled only when nothing is outstanding, never both, and   *)
(* the one that ends the check only at its end or after an error.           *)
DelayInv ==
  /\ m_errno => delay_checked /\ m_outstanding = -1 /\ m_position = 0
  /\ delay_checked => ~delay_retry /\ ~queueing
  /\ delay_checked /\ ~m_errno => m_outstanding = 0 /\ m_position = Size
  /\ delay_retry => m_outstanding = 0 /\ ~queueing

CheckInv == CheckTypeOK /\ NothingThrown /\ BitfieldInv /\ QueueInv /\ DelayInv

(* The ranges are walked upwards: Ranges::find() gives the least chunk at   *)
(* or after the position.                                                   *)
LEMMA NearestIsLeast ==
  ASSUME CheckTypeOK, InRange # {}
  PROVE  /\ Nearest \in InRange /\ Nearest \in Index /\ Nearest >= m_position
         /\ \A j \in InRange : Nearest <= j
<1>1. InRange \subseteq Nat
  <2>1. Index \subseteq Nat
    BY SizesAssumption DEF Index
  <2> QED
    BY <2>1, Zenon DEF CheckTypeOK, InRange
<1> DEFINE less == {p \in Nat \X Nat : p[1] < p[2]}
<1>2. IsWellFoundedOn(less, Nat)
  BY NatLessThanWellFounded DEF OpToRel
<1>3. \E i \in InRange : \A j \in InRange : ~(<<j, i>> \in less)
  <2> HIDE DEF less
  <2> QED
    BY <1>1, <1>2, WFMin, Zenon
<1>4. \E i \in InRange : \A j \in InRange : i <= j
  <2>1. PICK i \in InRange : \A j \in InRange : ~(<<j, i>> \in less)
    BY <1>3
  <2>2. ASSUME NEW j \in InRange PROVE i <= j
    <3>1. i \in Nat /\ j \in Nat /\ ~(<<j, i>> \in less)
      BY <1>1, <2>1
    <3> QED
      BY <3>1
  <2> QED
    BY <2>2
<1>5. Nearest \in InRange /\ \A j \in InRange : Nearest <= j
  BY <1>4 DEF Nearest
<1> QED
  BY <1>5 DEF InRange, CheckTypeOK

(* The queue is finite, and its size follows what is put in and taken out.  *)
LEMMA QueuedIsFinite ==
  ASSUME CheckTypeOK
  PROVE  /\ IsFiniteSet(queued) /\ Cardinality(queued) \in Nat
         /\ Cardinality(queued) = 0 <=> queued = {}
         /\ Cardinality({}) = 0
         /\ \A i : i \notin queued => Cardinality(queued \cup {i}) = Cardinality(queued) + 1
         /\ \A i \in queued : Cardinality(queued \ {i}) = Cardinality(queued) - 1
<1>1. IsFiniteSet(0..(Size - 1))
  BY FS_Interval, SizesAssumption
<1>2. IsFiniteSet(queued)
  BY <1>1, FS_Subset, Zenon DEF CheckTypeOK, Index
<1> QED
  BY <1>2, FS_CardinalityType, FS_EmptySet, FS_AddElement, FS_RemoveElement, Zenon

(* No set of chunks stands for a bitfield that is not allocated.            *)
LEMMA AllocatedDiffers ==
  ASSUME NEW S \in SUBSET Index
  PROVE  S # Unallocated
  BY SizesAssumption DEF Index, Unallocated

(* From the first chunk the ranges are whole, after the last one empty.     *)
LEMMA RangeEnds ==
  ASSUME NEW S \in SUBSET Index
  PROVE  {i \in S : i >= 0} = S /\ {i \in S : i >= Size} = {}
<1>1. \A i \in S : i \in Int /\ i >= 0 /\ i < Size
  BY SizesAssumption DEF Index
<1>2. \A i \in S : ~(i >= Size)
  BY <1>1, SizesAssumption
<1> QED
  BY <1>1, <1>2

(* A download that was just opened is not being checked.                    *)
LEMMA InitCheckInv ==
  ASSUME CheckInit
  PROVE  CheckInv
<1>1. CheckTypeOK
  <2>1. m_position \in 0..Size /\ m_outstanding \in -1..(OutstandingLimit + 1) /\ errors \in 0..MaxErrors
    BY SizesAssumption DEF CheckInit
  <2> QED
    BY <2>1, Zenon DEF CheckInit, CheckTypeOK
<1>2. BitfieldInv /\ QueueInv /\ DelayInv /\ NothingThrown
  BY DEF CheckInit, BitfieldInv, QueueInv, DelayInv, NothingThrown
<1> QED
  BY <1>1, <1>2, SMTT(60) DEF CheckInv

(* A check starts at position 0, with the bitfield clear in the ranges.     *)
LEMMA HashCheckIInv ==
  ASSUME RestartInDelay = FALSE, CheckInv, NEW try_quick \in BOOLEAN, HashCheck(try_quick)
  PROVE  CheckInv'
<1>1. m_outstanding = -1 /\ m_position = 0 /\ ~m_errno /\ ~delay_checked /\ ~delay_retry
      /\ queued = {} /\ open
  BY SizesAssumption DEF CheckInv, CheckTypeOK, QueueInv, DelayInv, HashCheck, IsChecking, IsChecked
<1>2. bitfield' \in SUBSET Index /\ m_ranges' \in SUBSET Index /\ bitfield' # Unallocated
  BY AllocatedDiffers DEF CheckInv, CheckTypeOK, HashCheck
<1>3. CheckTypeOK'
  <2>1. 0 \in -1..(OutstandingLimit + 1)
    BY SizesAssumption
  <2> QED
    BY <1>1, <1>2, <2>1 DEF CheckInv, CheckTypeOK, HashCheck, content, delays
<1>4. InRange = m_ranges /\ InRange' = m_ranges'
  BY <1>1, <1>2, RangeEnds DEF CheckInv, CheckTypeOK, HashCheck, InRange
<1>5. BitfieldInv'
  <2>1. bitfield' = good \ m_ranges'
    <3>1. CASE bitfield = Unallocated
      BY <3>1 DEF CheckInv, CheckTypeOK, HashCheck
    <3>2. CASE bitfield # Unallocated
      BY <1>1, <1>4, <3>2 DEF CheckInv, BitfieldInv, HashCheck, Todo
    <3> QED
      BY <3>1, <3>2
  <2> QED
    BY <1>1, <1>2, <1>4, <2>1 DEF CheckInv, BitfieldInv, HashCheck, Todo, content
<1>6. QueueInv' /\ DelayInv' /\ NothingThrown'
  <2>1. /\ m_outstanding' = 0 /\ m_position' = 0 /\ ~m_errno' /\ ~delay_checked' /\ ~delay_retry'
        /\ queued' = {} /\ open' /\ ~thrown'
    <3>1. ~(m_position > 0)
      BY <1>1
    <3>2. ~thrown'
      BY <3>1, Zenon DEF HashCheck
    <3> QED
      BY <1>1, <3>2 DEF HashCheck, delays
  <2> QED
    BY <2>1, FS_EmptySet DEF QueueInv, DelayInv, NothingThrown
<1> QED
  BY <1>3, <1>5, <1>6, SMTT(60) DEF CheckInv

(* Stopping puts the chunks of the queue back: the same ones are to do.     *)
LEMMA HashStopIInv ==
  ASSUME CheckInv, HashStop
  PROVE  CheckInv'
<1>1. m_outstanding = Cardinality(queued) /\ m_outstanding \in Nat /\ ~m_errno /\ open
  BY SizesAssumption DEF CheckInv, CheckTypeOK, QueueInv, HashStop, IsChecking
<1>2. queued \cap InRange = {}
  <2>1. \A i \in queued : i \in Int /\ i < m_position
    BY DEF CheckInv, CheckTypeOK, QueueInv, Index
  <2>2. \A i \in queued : ~(i >= m_position)
    BY <2>1 DEF CheckInv, CheckTypeOK
  <2> QED
    BY <2>2 DEF InRange
<1>3. /\ m_ranges' = Todo /\ queued' = {} /\ ~thrown'
      /\ m_outstanding' = -1 /\ m_position' = 0 /\ ~m_errno' /\ ~delay_checked' /\ ~delay_retry'
      /\ UNCHANGED <<good, missing, open, bitfield, queueing, quick, errors>>
  <2>1. thrown' = (m_outstanding < Cardinality(queued) \/ queued \cap InRange # {})
    BY DEF HashStop, InRange
  <2>2. ~(m_outstanding < Cardinality(queued))
    BY <1>1
  <2>3. ~thrown'
    BY <1>2, <2>1, <2>2, Zenon
  <2> QED
    BY <2>3 DEF HashStop, Clear, Todo, InRange, content
<1>4. CheckTypeOK'
  <2>1. -1 \in -1..(OutstandingLimit + 1) /\ 0 \in 0..Size
    BY SizesAssumption
  <2>2. Todo \in SUBSET Index
    BY DEF CheckInv, CheckTypeOK, Todo, InRange
  <2> QED
    BY <1>3, <2>1, <2>2, Zenon DEF CheckInv, CheckTypeOK, HashStop, Clear
<1>5. InRange' = Todo
  BY <1>3, <1>4, RangeEnds DEF CheckTypeOK, InRange
<1>6. BitfieldInv'
  BY <1>1, <1>3, <1>5 DEF CheckInv, BitfieldInv, Todo
<1>7. QueueInv' /\ DelayInv' /\ NothingThrown'
  BY <1>3 DEF QueueInv, DelayInv, NothingThrown, HashStop, MainIdle
<1> QED
  BY <1>4, <1>6, <1>7, SMTT(60) DEF CheckInv

(* What close() leaves: nothing queued, nothing scheduled, no bitfield.     *)
LEMMA CloseIInv ==
  ASSUME CheckInv, MainIdle, CloseDownload, thrown' = FALSE,
         UNCHANGED <<good, missing, m_ranges, queueing, quick, errors>>
  PROVE  CheckInv'
<1>1. /\ queued' = {} /\ m_outstanding' = -1 /\ m_position' = 0 /\ m_errno' = FALSE /\ open' = FALSE
      /\ bitfield' = Unallocated /\ delay_checked' = FALSE /\ delay_retry' = FALSE
      /\ ~queueing'
  BY DEF MainIdle, CloseDownload, Clear
<1>2. CheckTypeOK'
  <2>1. -1 \in -1..(OutstandingLimit + 1) /\ 0 \in 0..Size
    BY SizesAssumption
  <2> QED
    BY <1>1, <2>1, Zenon DEF CheckInv, CheckTypeOK
<1>3. BitfieldInv' /\ QueueInv' /\ DelayInv' /\ NothingThrown'
  BY <1>1 DEF CheckInv, BitfieldInv, QueueInv, DelayInv, NothingThrown
<1> QED
  BY <1>2, <1>3, SMTT(60) DEF CheckInv

(* Download::open() asks for all chunks to be checked.                      *)
LEMMA OpenIInv ==
  ASSUME CheckInv, Open
  PROVE  CheckInv'
<1>1. bitfield = Unallocated /\ m_outstanding = -1 /\ ~m_errno /\ ~delay_checked /\ ~delay_retry
      /\ m_position = 0 /\ queued = {}
  BY DEF CheckInv, BitfieldInv, QueueInv, DelayInv, Open, MainIdle
<1>2. CheckTypeOK'
  BY DEF CheckInv, CheckTypeOK, Open, content, delays
<1>3. BitfieldInv' /\ QueueInv' /\ DelayInv' /\ NothingThrown'
  BY <1>1 DEF CheckInv, BitfieldInv, QueueInv, DelayInv, NothingThrown, Open, MainIdle, content, delays
<1> QED
  BY <1>2, <1>3, SMTT(60) DEF CheckInv

(* While queue() runs, the check is on and nothing is scheduled.            *)
LEMMA WhileQueueing ==
  ASSUME CheckInv, queueing
  PROVE  /\ m_outstanding = Cardinality(queued) /\ m_outstanding \in Nat
         /\ open /\ ~m_errno /\ ~delay_checked /\ ~delay_retry /\ ~thrown
         /\ bitfield \in SUBSET Index /\ bitfield # Unallocated /\ bitfield = good \ Todo
<1>1. m_outstanding # -1
  BY DEF CheckInv, QueueInv
<1>2. m_outstanding \in Nat /\ m_outstanding >= 0
  BY <1>1, SizesAssumption DEF CheckInv, CheckTypeOK
<1>3. bitfield # Unallocated /\ m_outstanding = Cardinality(queued) /\ open /\ ~m_errno
  BY <1>1, <1>2 DEF CheckInv, BitfieldInv, QueueInv
<1> QED
  BY <1>2, <1>3 DEF CheckInv, CheckTypeOK, BitfieldInv, DelayInv, NothingThrown

(* Moving the position up to a chunk of the ranges, or past the last one,   *)
(* passes no chunk of the ranges; moving it past a chunk passes that one.   *)
LEMMA PositionMoves ==
  ASSUME CheckInv, Getting
  PROVE  /\ Nearest \in 0..Size /\ Nearest + 1 \in 0..Size
         /\ {i \in m_ranges : i >= Nearest} = InRange
         /\ {i \in m_ranges : i >= Nearest + 1} = InRange \ {Nearest}
         /\ Nearest \notin queued
         /\ \A i \in queued : i < Nearest /\ i < Nearest + 1
<1>1. /\ Nearest \in InRange /\ Nearest \in Index /\ Nearest >= m_position
      /\ \A j \in InRange : Nearest <= j
  BY NearestIsLeast DEF CheckInv, Getting
<1>2. Nearest \in Int /\ m_position \in Int /\ m_ranges \subseteq Int /\ queued \subseteq Int
  BY <1>1 DEF CheckInv, CheckTypeOK, Index
<1>3. Nearest \in 0..Size /\ Nearest + 1 \in 0..Size
  BY <1>1, <1>2, SizesAssumption DEF Index
<1>4. \A i \in m_ranges : i >= Nearest <=> i >= m_position
  <2>1. ASSUME NEW i \in m_ranges, i >= Nearest PROVE i >= m_position
    BY <1>1, <1>2, <2>1
  <2>2. ASSUME NEW i \in m_ranges, i >= m_position PROVE i >= Nearest
    <3>1. i \in InRange
      BY <2>2 DEF InRange
    <3> QED
      BY <1>1, <1>2, <3>1
  <2> QED
    BY <2>1, <2>2
<1>5. \A i \in m_ranges : i >= Nearest + 1 <=> i >= Nearest /\ i # Nearest
  BY <1>2
<1>6. \A i \in queued : i < m_position
  BY DEF CheckInv, QueueInv
<1>7. \A i \in queued : i < Nearest /\ i < Nearest + 1 /\ i # Nearest
  BY <1>1, <1>2, <1>6, SMTT(60)
<1> QED
  BY <1>3, <1>4, <1>5, <1>7 DEF InRange

(* No chunk is left to queue; the check is done once none is outstanding.   *)
LEMMA QueueEndIInv ==
  ASSUME CheckInv, QueueEnd
  PROVE  CheckInv'
<1>1. /\ queueing /\ m_position' = Size /\ queueing' = FALSE
      /\ delay_checked' = (delay_checked \/ m_outstanding = 0)
      /\ UNCHANGED <<good, missing, open, bitfield, m_ranges, m_outstanding, m_errno, delay_retry,
                     queued, quick, thrown, errors>>
  BY DEF QueueEnd, QueueFinished, Return, content
<1>2. InRange = {} /\ InRange' = {}
  BY <1>1, RangeEnds DEF QueueEnd, CheckInv, CheckTypeOK, InRange
<1>3. delay_checked' \in BOOLEAN /\ (delay_checked' => m_outstanding = 0)
  BY <1>1, WhileQueueing, Zenon
<1>4. CheckTypeOK'
  <2>1. Size \in 0..Size
    BY SizesAssumption
  <2> QED
    BY <1>1, <1>3, <2>1, ZenonT(60) DEF CheckInv, CheckTypeOK
<1>5. BitfieldInv'
  BY <1>1, <1>2, WhileQueueing DEF CheckInv, BitfieldInv, Todo
<1>6. QueueInv' /\ DelayInv' /\ NothingThrown'
  <2>1. \A i \in queued : i < Size
    BY SizesAssumption DEF CheckInv, CheckTypeOK, Index
  <2>2. m_outstanding # -1
    BY <1>1, WhileQueueing
  <2> QED
    BY <1>1, <1>3, <2>1, <2>2, WhileQueueing DEF QueueInv, DelayInv, NothingThrown
<1> QED
  BY <1>4, <1>5, <1>6, SMTT(60) DEF CheckInv

(* queue() stops at the limit of outstanding chunks.                        *)
LEMMA QueueFullIInv ==
  ASSUME CheckInv, QueueFull
  PROVE  CheckInv'
<1>1. /\ queueing /\ queueing' = FALSE
      /\ UNCHANGED <<good, missing, open, bitfield, m_ranges, m_position, m_outstanding, m_errno,
                     delay_checked, delay_retry, queued, quick, thrown, errors>>
  BY DEF QueueFull, Return, content, delays
<1> QED
  BY <1>1, WhileQueueing, Zenon DEF CheckInv, CheckTypeOK, BitfieldInv, QueueInv, DelayInv, NothingThrown, Todo, InRange

(* The chunk without a file is not good: it leaves what is to do unsaid.    *)
LEMMA QueueMissingIInv ==
  ASSUME CheckInv, QueueMissing
  PROVE  CheckInv'
<1>1. /\ queueing /\ Getting /\ Nearest \in missing /\ m_position' = Nearest + 1
      /\ UNCHANGED <<good, missing, open, bitfield, m_ranges, m_outstanding, m_errno,
                     delay_checked, delay_retry, queued, queueing, quick, thrown, errors>>
  BY DEF QueueMissing, Getting, content, delays
<1>2. CheckTypeOK'
  BY <1>1, PositionMoves DEF CheckInv, CheckTypeOK
<1>3. InRange' = InRange \ {Nearest}
  BY <1>1, PositionMoves DEF InRange
<1>4. BitfieldInv'
  BY <1>1, <1>3, WhileQueueing, SMTT(60) DEF CheckInv, BitfieldInv, Todo
<1>5. QueueInv' /\ DelayInv' /\ NothingThrown'
  <2>1. m_outstanding # -1
    BY <1>1, WhileQueueing, SMTT(60)
  <2> QED
    BY <1>1, <2>1, PositionMoves, WhileQueueing, SMTT(60) DEF CheckInv, QueueInv, DelayInv, NothingThrown
<1> QED
  BY <1>2, <1>4, <1>5, SMTT(60) DEF CheckInv

(* A quick check has nothing outstanding.                                   *)
LEMMA QueueQuickEndsIInv ==
  ASSUME CheckInv, QueueQuickEnds
  PROVE  CheckInv'
<1>1. /\ queueing /\ Getting /\ quick /\ m_position' = Nearest /\ queueing' = FALSE
      /\ thrown' = (m_outstanding # 0)
      /\ UNCHANGED <<good, missing, open, bitfield, m_ranges, m_outstanding, m_errno,
                     delay_checked, delay_retry, queued, quick, errors>>
  BY DEF QueueQuickEnds, Getting, Return, content, delays
<1>2. m_outstanding = 0 /\ m_outstanding # -1
  BY <1>1 DEF CheckInv, QueueInv
<1>3. thrown' = FALSE
  BY <1>1, <1>2, Zenon
<1>4. CheckTypeOK'
  BY <1>1, <1>3, PositionMoves, Zenon DEF CheckInv, CheckTypeOK
<1>5. InRange' = InRange
  BY <1>1, PositionMoves DEF InRange
<1>6. BitfieldInv'
  BY <1>1, <1>5, WhileQueueing DEF CheckInv, BitfieldInv, Todo
<1>7. QueueInv' /\ DelayInv' /\ NothingThrown'
  BY <1>1, <1>2, <1>3, PositionMoves, WhileQueueing DEF CheckInv, QueueInv, DelayInv, NothingThrown
<1> QED
  BY <1>4, <1>6, <1>7, SMTT(60) DEF CheckInv

(* The chunk moves from the ranges to the queue, and one more is awaited.   *)
LEMMA QueueChunkIInv ==
  ASSUME CheckInv, QueueChunk
  PROVE  CheckInv'
<1>1. /\ queueing /\ Getting /\ ~quick /\ m_position' = Nearest + 1
      /\ m_outstanding <= OutstandingLimit /\ m_outstanding' = m_outstanding + 1
      /\ queued' = queued \cup {Nearest}
      /\ UNCHANGED <<good, missing, open, bitfield, m_ranges, m_errno, delay_checked, delay_retry,
                     queueing, quick, thrown, errors>>
  BY DEF QueueChunk, Getting, content, delays
<1>2. Nearest \in InRange /\ Nearest \in Index /\ Nearest \in Int
  BY <1>1, NearestIsLeast, SMTT(60) DEF CheckInv, Getting, Index
<1>3. m_outstanding' = Cardinality(queued') /\ m_outstanding' \in Nat /\ m_outstanding' # -1
  BY <1>1, PositionMoves, QueuedIsFinite, WhileQueueing, SMTT(60) DEF CheckInv
<1>4. CheckTypeOK'
  <2>1. m_outstanding \in Nat /\ OutstandingLimit \in Nat
    BY <1>1, WhileQueueing, SizesAssumption, SMTT(60)
  <2>2. m_outstanding' \in -1..(OutstandingLimit + 1)
    BY <1>1, <2>1, SMTT(60)
  <2> QED
    BY <1>1, <1>2, <2>2, PositionMoves, SMTT(60) DEF CheckInv, CheckTypeOK
<1>5. InRange' = InRange \ {Nearest}
  BY <1>1, PositionMoves, SMTT(60) DEF InRange
<1>6. BitfieldInv'
  BY <1>1, <1>2, <1>5, WhileQueueing, SMTT(60) DEF CheckInv, BitfieldInv, Todo
<1>7. QueueInv'
  <2>1. \A i \in queued' : i < m_position'
    BY <1>1, <1>2, PositionMoves, SMTT(60)
  <2> QED
    BY <1>1, <1>3, <2>1, WhileQueueing, SMTT(60) DEF QueueInv
<1>8. DelayInv' /\ NothingThrown'
  BY <1>1, WhileQueueing, SMTT(60) DEF DelayInv, NothingThrown
<1> QED
  BY <1>4, <1>6, <1>7, <1>8, SMTT(60) DEF CheckInv

(* ENOMEM: queue() returns; an answer or a delay goes on with it.           *)
LEMMA QueueNoMemoryIInv ==
  ASSUME CheckInv, QueueNoMemory
  PROVE  CheckInv'
<1>1. /\ queueing /\ Getting /\ m_position' = Nearest /\ queueing' = FALSE
      /\ errors < MaxErrors /\ errors' = errors + 1
      /\ delay_retry' = (delay_retry \/ m_outstanding = 0)
      /\ UNCHANGED <<good, missing, open, bitfield, m_ranges, m_outstanding, m_errno,
                     delay_checked, queued, quick, thrown>>
  BY DEF QueueNoMemory, Getting, Return, content
<1>2. delay_retry' \in BOOLEAN /\ (delay_retry' => m_outstanding = 0)
  BY <1>1, WhileQueueing, Zenon
<1>3. m_outstanding # -1
  BY <1>1, WhileQueueing, SMTT(60)
<1>4. CheckTypeOK'
  <2>1. errors' \in 0..MaxErrors
    BY <1>1, SizesAssumption DEF CheckInv, CheckTypeOK
  <2> QED
    BY <1>1, <1>2, <2>1, PositionMoves, Zenon DEF CheckInv, CheckTypeOK
<1>5. InRange' = InRange
  BY <1>1, PositionMoves DEF InRange
<1>6. BitfieldInv'
  BY <1>1, <1>5, WhileQueueing DEF CheckInv, BitfieldInv, Todo
<1>7. QueueInv' /\ DelayInv' /\ NothingThrown'
  BY <1>1, <1>2, <1>3, PositionMoves, WhileQueueing DEF CheckInv, QueueInv, DelayInv, NothingThrown
<1> QED
  BY <1>4, <1>6, <1>7, SMTT(60) DEF CheckInv

(* Another error: queue() waits for the outstanding chunks, or the check    *)
(* ends.                                                                    *)
LEMMA QueueErrorIInv ==
  ASSUME CheckInv, QueueError
  PROVE  CheckInv'
<1>1. /\ queueing /\ Getting /\ queueing' = FALSE /\ errors < MaxErrors /\ errors' = errors + 1
      /\ UNCHANGED <<good, missing, open, bitfield, m_ranges, queued, quick, thrown>>
  BY DEF QueueError, Getting, Return, content
<1>2. errors' \in 0..MaxErrors
  BY <1>1, SizesAssumption DEF CheckInv, CheckTypeOK
<1>3. CASE /\ m_position' = Nearest
           /\ UNCHANGED <<m_outstanding, m_errno, delay_checked, delay_retry>>
  <2>1. m_outstanding # -1
    BY <1>1, WhileQueueing
  <2>2. CheckTypeOK'
    BY <1>1, <1>2, <1>3, PositionMoves, Zenon DEF CheckInv, CheckTypeOK
  <2>3. InRange' = InRange
    BY <1>1, <1>3, PositionMoves DEF InRange
  <2>4. BitfieldInv'
    BY <1>1, <1>3, <2>3, WhileQueueing DEF CheckInv, BitfieldInv, Todo
  <2>5. QueueInv' /\ DelayInv' /\ NothingThrown'
    BY <1>1, <1>3, <2>1, PositionMoves, WhileQueueing DEF CheckInv, QueueInv, DelayInv, NothingThrown
  <2> QED
    BY <2>2, <2>4, <2>5, SMTT(60) DEF CheckInv
<1>4. CASE /\ m_outstanding = 0 /\ m_outstanding' = -1 /\ m_position' = 0 /\ m_errno' = TRUE
           /\ delay_checked' = TRUE /\ delay_retry' = FALSE
  <2>1. queued = {}
    BY <1>1, <1>4, WhileQueueing, QueuedIsFinite, SMTT(60) DEF CheckInv
  <2>2. CheckTypeOK'
    <3>1. -1 \in -1..(OutstandingLimit + 1) /\ 0 \in 0..Size
      BY SizesAssumption
    <3> QED
      BY <1>1, <1>2, <1>4, <3>1, Zenon DEF CheckInv, CheckTypeOK
  <2>3. BitfieldInv' /\ QueueInv' /\ DelayInv' /\ NothingThrown'
    BY <1>1, <1>4, <2>1, WhileQueueing DEF CheckInv, BitfieldInv, QueueInv, DelayInv, NothingThrown
  <2> QED
    BY <2>2, <2>3, SMTT(60) DEF CheckInv
<1> QED
  BY <1>3, <1>4, Zenon DEF QueueError, delays

(* An answer settles one chunk of the queue, for which the bitfield said    *)
(* nothing.                                                                 *)
LEMMA HashDoneIInv ==
  ASSUME CheckInv, NEW i \in Index, HashDone(i)
  PROVE  CheckInv'
<1>1. /\ ~queueing /\ i \in queued /\ queued' = queued \ {i} /\ m_outstanding' = m_outstanding - 1
      /\ bitfield' = IF i \in good THEN bitfield \cup {i} ELSE bitfield
      /\ queueing' = TRUE /\ quick' = FALSE
      /\ UNCHANGED <<good, missing, open, m_ranges, m_position, m_errno, delay_checked, delay_retry,
                     errors>>
  BY DEF HashDone, MainIdle, content, delays
<1>2. m_outstanding # -1
  BY <1>1 DEF CheckInv, QueueInv
<1>3. m_outstanding >= 0
  BY <1>2, SizesAssumption, SMTT(60) DEF CheckInv, CheckTypeOK
<1>4. /\ m_outstanding = Cardinality(queued) /\ ~m_errno /\ open /\ bitfield # Unallocated
      /\ bitfield = good \ Todo
  BY <1>2, <1>3, SMTT(60) DEF CheckInv, QueueInv, BitfieldInv
<1>5. m_outstanding' = Cardinality(queued') /\ m_outstanding # 0
  BY <1>1, <1>4, QueuedIsFinite, SMTT(60) DEF CheckInv
<1>6. m_outstanding > 0 /\ m_outstanding' \in -1..(OutstandingLimit + 1) /\ m_outstanding' # -1
  BY <1>1, <1>2, <1>5, SizesAssumption DEF CheckInv, CheckTypeOK
<1>7. thrown' = FALSE
  <2>1. ~(m_outstanding <= 0)
    BY <1>6, SizesAssumption, SMTT(60) DEF CheckInv, CheckTypeOK
  <2>2. i \notin bitfield
    BY <1>1, <1>4 DEF Todo
  <2> QED
    BY <1>4, <2>1, <2>2, Zenon DEF HashDone
<1>8. bitfield' \in SUBSET Index /\ bitfield' # Unallocated
  <2>1. bitfield' \in SUBSET Index
    BY <1>1, <1>4, SMTT(60) DEF CheckInv, CheckTypeOK
  <2> QED
    BY <2>1, AllocatedDiffers, SMTT(60)
<1>9. CheckTypeOK'
  BY <1>1, <1>6, <1>7, <1>8, Zenon DEF CheckInv, CheckTypeOK
<1>10. BitfieldInv'
  <2>1. i \notin InRange
    <3>1. i \in Int /\ m_position \in Int /\ i < m_position
      BY <1>1 DEF CheckInv, CheckTypeOK, QueueInv, Index
    <3> QED
      BY <3>1 DEF InRange
  <2>2. Todo' = Todo \ {i}
    BY <1>1, <2>1 DEF Todo, InRange
  <2> QED
    BY <1>1, <1>4, <1>8, <2>2 DEF CheckInv, BitfieldInv
<1>11. QueueInv' /\ DelayInv' /\ NothingThrown'
  <2>1. ~delay_checked /\ ~delay_retry
    BY <1>4, <1>5, SMTT(60) DEF CheckInv, DelayInv
  <2> QED
    BY <1>1, <1>4, <1>5, <1>6, <1>7, <2>1, SMTT(60) DEF CheckInv, QueueInv, DelayInv, NothingThrown
<1> QED
  BY <1>9, <1>10, <1>11, SMTT(60) DEF CheckInv

(* The delay after ENOMEM is over and queue() tries again.                  *)
LEMMA DelayRetryIInv ==
  ASSUME CheckInv, DelayRetry
  PROVE  CheckInv'
<1>1. /\ delay_retry /\ delay_retry' = FALSE /\ queueing' = TRUE /\ quick' = FALSE
      /\ UNCHANGED <<good, missing, open, bitfield, m_ranges, m_position, m_outstanding, m_errno,
                     delay_checked, queued, errors>>
  BY DEF DelayRetry, content
<1>2. m_outstanding = 0 /\ m_outstanding # -1 /\ IsChecking /\ ~delay_checked
  BY <1>1 DEF CheckInv, DelayInv, IsChecking
<1>3. thrown' = FALSE
  BY <1>2, Zenon DEF DelayRetry
<1>4. CheckTypeOK'
  BY <1>1, <1>3, Zenon DEF CheckInv, CheckTypeOK
<1>5. BitfieldInv' /\ QueueInv' /\ DelayInv' /\ NothingThrown'
  BY <1>1, <1>2, <1>3 DEF CheckInv, BitfieldInv, QueueInv, DelayInv, NothingThrown, Todo, InRange
<1> QED
  BY <1>4, <1>5, SMTT(60) DEF CheckInv

(* The check ends with nothing outstanding, or had failed.                  *)
LEMMA DelayCheckedIInv ==
  ASSUME CheckInv, DelayChecked
  PROVE  CheckInv'
<1>1. /\ MainIdle /\ delay_checked
      /\ UNCHANGED <<good, missing, m_ranges, queueing, quick, errors>>
  BY DEF DelayChecked, content
<1>2. CASE CloseDownload /\ UNCHANGED thrown
  <2>1. thrown' = FALSE
    BY <1>1, <1>2 DEF CheckInv, CheckTypeOK, MainIdle
  <2> QED
    BY <1>1, <1>2, <2>1, CloseIInv, Zenon
<1>3. CASE /\ IsChecking /\ delay_checked' = FALSE
           /\ thrown' = (m_outstanding # 0 \/ queued # {}) /\ m_outstanding' = -1
           /\ UNCHANGED <<open, bitfield, m_position, m_errno, delay_retry, queued>>
  <2>1. ~m_errno
    BY <1>3 DEF CheckInv, DelayInv, IsChecking
  <2>2. m_outstanding = 0 /\ m_position = Size /\ ~delay_retry /\ ~queueing
    BY <1>1, <2>1 DEF CheckInv, DelayInv
  <2>3. queued = {} /\ open
    BY <2>2, QueuedIsFinite DEF CheckInv, QueueInv
  <2>4. thrown' = FALSE
    BY <1>3, <2>2, <2>3, Zenon
  <2>5. bitfield # Unallocated
    BY <2>2, SMTT(60) DEF CheckInv, BitfieldInv
  <2>6. CheckTypeOK'
    <3>1. -1 \in -1..(OutstandingLimit + 1)
      BY SizesAssumption
    <3> QED
      BY <1>1, <1>3, <2>4, <3>1, Zenon DEF CheckInv, CheckTypeOK
  <2>7. BitfieldInv' /\ QueueInv' /\ DelayInv' /\ NothingThrown'
    BY <1>1, <1>3, <2>1, <2>2, <2>3, <2>4, <2>5
    DEF CheckInv, BitfieldInv, QueueInv, DelayInv, NothingThrown, Todo, InRange
  <2> QED
    BY <2>6, <2>7, SMTT(60) DEF CheckInv
<1> QED
  BY <1>2, <1>3, Zenon DEF DelayChecked

(* Every step of the client, the check, the hash queue and the delays keeps *)
(* the invariant.                                                           *)
LEMMA StepCheckInv ==
  ASSUME RestartInDelay = FALSE, CheckInv, [CheckNext]_checkVars
  PROVE  CheckInv'
<1>1. CASE \E try_quick \in BOOLEAN : HashCheck(try_quick)
  BY <1>1, HashCheckIInv, ZenonT(60)
<1>2. CASE HashStop
  BY <1>2, HashStopIInv
<1>3. CASE Close
  <2>1. thrown' = FALSE /\ UNCHANGED <<good, missing, m_ranges, queueing, quick, errors>>
    BY <1>3 DEF CheckInv, CheckTypeOK, Close, MainIdle, content
  <2> QED
    BY <1>3, <2>1, CloseIInv, Zenon DEF Close
<1>4. CASE Open
  BY <1>4, OpenIInv
<1>5. CASE QueueStep
  BY <1>5, QueueEndIInv, QueueFullIInv, QueueMissingIInv, QueueQuickEndsIInv, QueueChunkIInv,
     QueueNoMemoryIInv, QueueErrorIInv
  DEF QueueStep
<1>6. CASE DelayRetry
  BY <1>6, DelayRetryIInv
<1>7. CASE DelayChecked
  BY <1>7, DelayCheckedIInv
<1>8. CASE \E i \in Index : HashDone(i)
  BY <1>8, HashDoneIInv
<1>9. CASE UNCHANGED checkVars
  BY <1>9 DEF checkVars, content, delays, CheckInv, CheckTypeOK, BitfieldInv, QueueInv, DelayInv, NothingThrown,
              Todo, InRange
<1> QED
  BY <1>1, <1>2, <1>3, <1>4, <1>5, <1>6, <1>7, <1>8, <1>9 DEF CheckNext, Client

(* A finished check is right: the bitfield has exactly the good chunks, and *)
(* no call of it throws an internal_error, for every number of chunks, every*)
(* limit on outstanding ones and every order of stops, restarts, answers    *)
(* and errors, provided the client waits for a failed check to be reported. *)
THEOREM ChecksAreRight ==
  ASSUME RestartInDelay = FALSE
  PROVE  CheckSpec => []CheckIsRight
<1>1. CheckInit => CheckInv
  BY InitCheckInv
<1>2. CheckInv /\ [CheckNext]_checkVars => CheckInv'
  BY StepCheckInv, Zenon
<1>3. CheckInv => CheckIsRight
  <2> SUFFICES ASSUME CheckInv PROVE CheckIsRight
    OBVIOUS
  <2>1. ASSUME IsChecked PROVE bitfield = good
    <3>1. m_position = Size /\ m_outstanding = -1 /\ open /\ queued = {}
      BY <2>1, SMTT(60) DEF IsChecked, CheckInv, QueueInv
    <3>2. InRange = {}
      BY <3>1, RangeEnds DEF CheckInv, CheckTypeOK, InRange
    <3>3. bitfield # Unallocated /\ ~m_errno
      <4>1. bitfield # Unallocated
        BY <3>1, SizesAssumption DEF CheckInv, BitfieldInv
      <4>2. ~m_errno
        BY <3>1, SizesAssumption DEF CheckInv, DelayInv
      <4> QED
        BY <4>1, <4>2
    <3> QED
      BY <3>1, <3>2, <3>3 DEF CheckInv, BitfieldInv, Todo
  <2> QED
    BY <2>1 DEF CheckIsRight, CheckedIsRight, CheckInv
<1> QED
  BY <1>1, <1>2, <1>3, PTL DEF CheckSpec

=============================================================================
