----------------------------- MODULE CallbackId -----------------------------
(***************************************************************************)
(* The cancellation protocol of a system::callback_id: one atomic word that *)
(* holds a generation (0x10 and up), the deadlock flag (0x8) and a counter *)
(* (0x7) of the threads inside callback() or inside a callback of the id.  *)
(* The operations are Thread::callback(id), the part of                    *)
(* Thread::process_callbacks that deals with an id, and                    *)
(* Thread::cancel_callback_and_wait(id, other).                            *)
(*                                                                         *)
(* A step is one operation on the atomic word or one critical section.     *)
(***************************************************************************)
EXTENDS Integers, FiniteSets, Sequences, FiniteSetTheorems, TLAPS

CONSTANTS
  Threads,      \* the threads that share the id
  MaxPosts,     \* bound: callbacks posted with the id
  MaxCancels    \* bound: calls of cancel_callback_and_wait

ASSUME BoundsAssumption == MaxPosts \in Nat /\ MaxCancels \in Nat /\ IsFiniteSet(Threads)

VARIABLES
  generation, deadlock, counter,   \* the three parts of the word
  queue,        \* the callbacks posted to each thread that are not yet processed
  proc,         \* what process_callbacks() of a thread does with a callback of the id
  current,      \* the callback it does that with
  op,           \* the operation on the id a thread is inside of
  holding,      \* the callback it is about to push, and where to
  posts, cancels,       \* how many of each were started
  seen,         \* what was queued when a thread began to cancel
  cancelled,    \* the callbacks that a finished cancel covers
  overlapped    \* the callbacks that some cancel may drop

word  == <<generation, deadlock, counter>>
ghost == <<seen, cancelled, overlapped>>
vars  == <<word, queue, proc, current, op, holding, posts, cancels, ghost>>

Serial == 1..MaxPosts
Entry  == [n : Serial, generation : 0..MaxCancels, deadlock : BOOLEAN]

CancelOps == {"wait", "try", "bump", "clear", "wait_clear"}

(* previous_id & ~0x7.                                                      *)
Expected(n) == [n |-> n, generation |-> generation, deadlock |-> deadlock]

Queued    == UNION {{queue[t][i].n : i \in DOMAIN queue[t]} : t \in Threads}
Running   == {current[t] : t \in {u \in Threads : proc[u] = "run"}}
Cancelling == \E t \in Threads : op[t] \in CancelOps

(* Every variable has its type, and the counter never grows to the value    *)
(* where callback() and process_callbacks() throw "lower id overflow".      *)
TypeOK ==
  /\ generation \in 0..MaxCancels /\ deadlock \in BOOLEAN /\ counter \in 0..6
  /\ queue \in [Threads -> Seq(Entry)]
  /\ proc \in [Threads -> {"none", "skip", "run"}]
  /\ current \in [Threads -> {0} \cup Serial]
  /\ op \in [Threads -> {"none", "push", "release"} \cup CancelOps]
  /\ holding \in [Threads -> [to : Threads, entry : Entry] \cup {<<>>}]
  /\ posts \in 0..MaxPosts /\ cancels \in 0..MaxCancels
  /\ seen \in [Threads -> SUBSET Serial]
  /\ cancelled \in SUBSET Serial /\ overlapped \in SUBSET Serial

Init ==
  /\ generation = 0 /\ deadlock = FALSE /\ counter = 0
  /\ queue = [t \in Threads |-> <<>>]
  /\ proc = [t \in Threads |-> "none"] /\ current = [t \in Threads |-> 0]
  /\ op = [t \in Threads |-> "none"] /\ holding = [t \in Threads |-> <<>>]
  /\ posts = 0 /\ cancels = 0
  /\ seen = [t \in Threads |-> {}] /\ cancelled = {} /\ overlapped = {}

-----------------------------------------------------------------------------
(* callback(id, fn): count in, push, count out.                            *)

Callback(t, to) ==
  /\ op[t] = "none" /\ proc[t] # "skip" /\ posts < MaxPosts
  /\ counter' = counter + 1
  /\ posts' = posts + 1
  /\ holding' = [holding EXCEPT ![t] = [to |-> to, entry |-> Expected(posts + 1)]]
  /\ op' = [op EXCEPT ![t] = "push"]
  /\ overlapped' = IF Cancelling THEN overlapped \cup {posts + 1} ELSE overlapped
  /\ UNCHANGED <<generation, deadlock, queue, proc, current, cancels, seen, cancelled>>

PushCallback(t) ==
  /\ op[t] = "push"
  /\ queue' = [queue EXCEPT ![holding[t].to] = Append(@, holding[t].entry)]
  /\ holding' = [holding EXCEPT ![t] = <<>>]
  /\ op' = [op EXCEPT ![t] = "release"]
  /\ UNCHANGED <<word, proc, current, posts, cancels, ghost>>

ReleaseCallback(t) ==
  /\ op[t] = "release"
  /\ counter' = counter - 1
  /\ op' = [op EXCEPT ![t] = "none"]
  /\ UNCHANGED <<generation, deadlock, queue, proc, current, holding, posts, cancels, ghost>>

-----------------------------------------------------------------------------
(* process_callbacks(): count in, compare, run or skip, count out.         *)

(* Mutant: the whole word is compared, counter included.                    *)
ProcessComparesCounter(t) ==
  /\ op[t] = "none" /\ proc[t] = "none" /\ queue[t] # <<>>
  /\ LET e == Head(queue[t])
     IN  /\ proc' = [proc EXCEPT ![t] =
                       IF counter = 0 /\ e = Expected(e.n) THEN "run" ELSE "skip"]
         /\ current' = [current EXCEPT ![t] = e.n]
  /\ counter' = counter + 1
  /\ queue' = [queue EXCEPT ![t] = Tail(@)]
  /\ UNCHANGED <<generation, deadlock, op, holding, posts, cancels, ghost>>

Process(t) ==
  /\ op[t] = "none" /\ proc[t] = "none" /\ queue[t] # <<>>
  /\ LET e == Head(queue[t])
     IN  /\ proc' = [proc EXCEPT ![t] = IF e = Expected(e.n) THEN "run" ELSE "skip"]
         /\ current' = [current EXCEPT ![t] = e.n]
  /\ counter' = counter + 1
  /\ queue' = [queue EXCEPT ![t] = Tail(@)]
  /\ UNCHANGED <<generation, deadlock, op, holding, posts, cancels, ghost>>

(* The callback returns, or it was skipped.                                 *)
Processed(t) ==
  /\ op[t] = "none" /\ proc[t] # "none"
  /\ counter' = counter - 1
  /\ proc' = [proc EXCEPT ![t] = "none"] /\ current' = [current EXCEPT ![t] = 0]
  /\ UNCHANGED <<generation, deadlock, queue, op, holding, posts, cancels, ghost>>

-----------------------------------------------------------------------------
(* cancel_callback_and_wait(id, other): wait for the others, unless this    *)
(* thread is itself inside a callback of the id.                            *)

(* Mutant: the callback's own thread waits as well.                         *)
CancelAlwaysWaits(t) ==
  /\ op[t] = "none" /\ proc[t] # "skip" /\ cancels < MaxCancels
  /\ op' = [op EXCEPT ![t] = "wait"]
  /\ cancels' = cancels + 1
  /\ seen' = [seen EXCEPT ![t] = Queued]
  /\ overlapped' = 1..posts
  /\ UNCHANGED <<word, queue, proc, current, holding, posts, cancelled>>

Cancel(t) ==
  /\ op[t] = "none" /\ proc[t] # "skip" /\ cancels < MaxCancels
  /\ op' = [op EXCEPT ![t] = IF proc[t] = "run" THEN "try" ELSE "wait"]
  /\ cancels' = cancels + 1
  /\ seen' = [seen EXCEPT ![t] = Queued]
  /\ overlapped' = 1..posts
  /\ UNCHANGED <<word, queue, proc, current, holding, posts, cancelled>>

(* A cancel returns; "covers" is what it promises about.                    *)
CancelReturns(t, covers) ==
  /\ op' = [op EXCEPT ![t] = "none"]
  /\ seen' = [seen EXCEPT ![t] = {}]
  /\ cancelled' = cancelled \cup covers

(* Mutant: only a counter of two and more is waited for.                    *)
CancelWaitsForTwo(t) ==
  /\ op[t] = "wait" /\ counter < 2
  /\ generation' = generation + 1
  /\ CancelReturns(t, 1..posts)
  /\ UNCHANGED <<deadlock, counter, queue, proc, current, holding, posts, cancels, overlapped>>

(* The loop of cancel_callback_and_wait(id): the compare-exchange succeeds  *)
(* on the word whose counter was found to be zero.                          *)
CancelWait(t) ==
  /\ op[t] = "wait" /\ counter = 0
  /\ generation' = generation + 1
  /\ CancelReturns(t, 1..posts)
  /\ UNCHANGED <<deadlock, counter, queue, proc, current, holding, posts, cancels, overlapped>>

(* Inside a callback of the id: the first thread sets the deadlock flag,    *)
(* another one bumps the generation and waits for the flag to clear.        *)
CancelTry(t) ==
  /\ op[t] = "try"
  /\ IF deadlock
     THEN /\ generation' = generation + 1
          /\ op' = [op EXCEPT ![t] = "wait_clear"]
          /\ UNCHANGED deadlock
     ELSE /\ deadlock' = TRUE
          /\ op' = [op EXCEPT ![t] = "bump"]
          /\ UNCHANGED generation
  /\ UNCHANGED <<counter, queue, proc, current, holding, posts, cancels, ghost>>

CancelBump(t) ==
  /\ op[t] = "bump"
  /\ generation' = generation + 1
  /\ op' = [op EXCEPT ![t] = "clear"]
  /\ UNCHANGED <<deadlock, counter, queue, proc, current, holding, posts, cancels, ghost>>

(* What the thread did not wait for may still be running.                   *)
CancelClear(t) ==
  /\ op[t] = "clear"
  /\ deadlock' = FALSE
  /\ CancelReturns(t, seen[t] \ Running)
  /\ UNCHANGED <<generation, counter, queue, proc, current, holding, posts, cancels, overlapped>>

CancelWaitClear(t) ==
  /\ op[t] = "wait_clear" /\ ~deadlock
  /\ CancelReturns(t, seen[t] \ Running)
  /\ UNCHANGED <<word, queue, proc, current, holding, posts, cancels, overlapped>>

-----------------------------------------------------------------------------
Step(t) ==
  \/ PushCallback(t) \/ ReleaseCallback(t)
  \/ Process(t) \/ Processed(t)
  \/ CancelWait(t) \/ CancelTry(t) \/ CancelBump(t) \/ CancelClear(t) \/ CancelWaitClear(t)

Next ==
  \E t \in Threads : Step(t) \/ Cancel(t) \/ \E to \in Threads : Callback(t, to)

(* Every thread keeps running: callbacks return, and a thread that waits on *)
(* the word goes on when the word allows it.                                *)
Spec == Init /\ [][Next]_vars /\ \A t \in Threads : WF_vars(Step(t))

-----------------------------------------------------------------------------
(* A callback that a finished cancel covers neither runs nor will run: a    *)
(* cancel from outside the callbacks covers everything posted before it     *)
(* returned, running or queued; one from inside a callback of the id covers *)
(* what was queued when it began, except what another thread started to     *)
(* run meanwhile.                                                           *)
CancelledNeverRuns ==
  \A t \in Threads : proc[t] = "run" => current[t] \notin cancelled

(* process_callbacks() drops a callback only when a cancel was under way    *)
(* when it was posted, or began later.                                      *)
DroppedOnlyIfCancelled ==
  \A t \in Threads : proc[t] = "skip" => current[t] \in overlapped

(* Every cancel returns, also when several threads cancel the id from       *)
(* inside their callbacks at once.                                          *)
EveryCancelReturns ==
  \A t \in Threads : (op[t] \in CancelOps) ~> (op[t] \notin CancelOps)

-----------------------------------------------------------------------------
(* Proofs, for any threads and any number of callbacks and cancels.        *)

(* A callback that was posted: queued, or about to be pushed.               *)
Posted  == [n : Nat \ {0}, generation : Nat, deadlock : BOOLEAN]
Pushing == {t \in Threads : op[t] = "push"}
Entries == UNION {Range(queue[t]) : t \in Threads}
Held    == {holding[t].entry : t \in Pushing}

Types ==
  /\ generation \in Nat /\ deadlock \in BOOLEAN /\ counter \in Int /\ posts \in Nat
  /\ queue \in [Threads -> Seq(Posted)]
  /\ proc \in [Threads -> {"none", "skip", "run"}]
  /\ current \in [Threads -> Nat]
  /\ op \in [Threads -> {"none", "push", "release"} \cup CancelOps]
  /\ holding \in [Threads -> [to : Threads, entry : Posted] \cup {<<>>}]
  /\ \A t \in Pushing : holding[t] \in [to : Threads, entry : Posted]
  /\ seen \in [Threads -> SUBSET (1..posts)]
  /\ cancelled \in SUBSET (1..posts) /\ overlapped \in SUBSET (1..posts)

(* The counter is how many threads are between counting in and out.         *)
Processing == {t \in Threads : proc[t] # "none"}
Posting    == {t \in Threads : op[t] \in {"push", "release"}}
CounterInv == counter = Cardinality(Processing) + Cardinality(Posting)

(* A callback that is not pushed yet is none of those queued, seen or       *)
(* cancelled, and no callback is of a generation to come.                   *)
SerialInv ==
  /\ \A e \in Entries \cup Held : e.n <= posts /\ e.generation <= generation
  /\ \A t \in Pushing :
       /\ \A e \in Entries : e.n # holding[t].entry.n
       /\ \A u \in Pushing : holding[u].entry.n = holding[t].entry.n => u = t
       /\ \A u \in Threads : holding[t].entry.n \notin seen[u]
       /\ holding[t].entry.n \notin cancelled

(* What is cancelled is of an earlier generation if it is still queued;     *)
(* so is what a cancel inside a callback saw, once it bumped.               *)
CancelInv ==
  /\ \A e \in Entries : e.n \in cancelled => e.generation < generation
  /\ \A t \in Threads : op[t] \in {"clear", "wait_clear"} =>
       \A e \in Entries : e.n \in seen[t] => e.generation < generation
  /\ CancelledNeverRuns

(* The word differs from the one a callback was posted with only when a     *)
(* cancel overlapped it.                                                    *)
DropInv ==
  /\ Cancelling => overlapped = 1..posts
  /\ \A e \in Entries \cup Held :
       e.n \notin overlapped => e.generation = generation /\ e.deadlock = deadlock
  /\ DroppedOnlyIfCancelled

IInv == Types /\ CounterInv /\ SerialInv /\ CancelInv /\ DropInv

(* push_back: the elements of the list, and the new one last.               *)
LEMMA AppendRange ==
  ASSUME NEW S, NEW q \in Seq(S), NEW e \in S
  PROVE  Append(q, e) \in Seq(S) /\ Range(Append(q, e)) = Range(q) \cup {e}
<1> DEFINE r == Append(q, e)
           n == Len(q)
<1>1. /\ r \in Seq(S) /\ n \in Nat /\ DOMAIN q = 1..n /\ DOMAIN r = 1..(n + 1)
      /\ \A i \in 1..n : r[i] = q[i]
      /\ r[n + 1] = e
  OBVIOUS
<1>2. DOMAIN r = DOMAIN q \cup {n + 1}
  BY <1>1
<1> HIDE DEF r, n
<1>3. Range(r) = Range(q) \cup {e}
  BY <1>1, <1>2 DEF Range
<1> QED
  BY <1>1, <1>3 DEF r

(* pop_front: the first element goes, the others stay.                      *)
LEMMA HeadTailRange ==
  ASSUME NEW S, NEW q \in Seq(S), q # <<>>
  PROVE  Tail(q) \in Seq(S) /\ Range(Tail(q)) \subseteq Range(q) /\ Head(q) \in Range(q) /\ Head(q) \in S
<1> DEFINE r == Tail(q)
           n == Len(q)
<1>1. /\ r \in Seq(S) /\ n \in Nat \ {0} /\ DOMAIN q = 1..n /\ DOMAIN r = 1..(n - 1)
      /\ \A i \in 1..(n - 1) : r[i] = q[i + 1]
      /\ Head(q) = q[1] /\ q[1] \in S
  OBVIOUS
<1>2. 1 \in DOMAIN q /\ \A i \in DOMAIN r : i + 1 \in DOMAIN q
  BY <1>1
<1> HIDE DEF r, n
<1>3. \A i \in DOMAIN r : r[i] \in Range(q)
  BY <1>1, <1>2 DEF Range
<1>4. Head(q) \in Range(q)
  BY <1>1, <1>2 DEF Range
<1>5. Range(r) \subseteq Range(q)
  BY <1>3 DEF Range
<1> QED
  BY <1>1, <1>4, <1>5 DEF r

(* Counting a thread in or out.                                             *)
LEMMA CountThread ==
  ASSUME NEW S \in SUBSET Threads, NEW t \in Threads
  PROVE  /\ Cardinality(S) \in Nat
         /\ Cardinality(S) = 0 <=> S = {}
         /\ t \notin S => Cardinality(S \cup {t}) = Cardinality(S) + 1
         /\ t \in S => Cardinality(S \ {t}) = Cardinality(S) - 1
<1>1. IsFiniteSet(S)
  BY BoundsAssumption, FS_Subset
<1> QED
  BY <1>1, FS_CardinalityType, FS_EmptySet, FS_AddElement, FS_RemoveElement

(* What a posted callback is.                                               *)
LEMMA EntriesArePosted ==
  ASSUME Types
  PROVE  /\ \A e \in Entries \cup Held : e \in Posted
         /\ \A t \in Threads : Range(queue[t]) \subseteq Entries
         /\ \A t \in Pushing : t \in Threads /\ holding[t].entry \in Held
                               /\ holding[t].entry \in Posted /\ holding[t].to \in Threads
<1>1. ASSUME NEW t \in Threads, NEW e \in Range(queue[t]) PROVE e \in Posted
  BY DEF Types, Range
<1>2. ASSUME NEW t \in Pushing
      PROVE  t \in Threads /\ holding[t].entry \in Held /\ holding[t].entry \in Posted
             /\ holding[t].to \in Threads
  BY DEF Types, Held, Pushing
<1> QED
  BY <1>1, <1>2 DEF Entries, Held

(* The id and the lists start empty.                                        *)
LEMMA InitIInv == Init => IInv
<1> SUFFICES ASSUME Init PROVE IInv
  OBVIOUS
<1>1. Pushing = {} /\ Processing = {} /\ Posting = {} /\ Held = {} /\ Entries = {} /\ ~Cancelling
  <2>1. Pushing = {} /\ Processing = {} /\ Posting = {} /\ ~Cancelling
    BY DEF Init, Pushing, Processing, Posting, Cancelling, CancelOps
  <2>2. \A t \in Threads : Range(queue[t]) = {}
    BY DEF Init, Range
  <2> QED
    BY <2>1, <2>2 DEF Held, Entries
<1>2. Types
  <2>1. \A t \in Threads : queue[t] \in Seq(Posted)
    BY DEF Init
  <2>2. queue \in [Threads -> Seq(Posted)]
    BY <2>1 DEF Init
  <2>3. generation \in Nat /\ counter \in Int /\ posts \in Nat /\ current \in [Threads -> Nat]
    BY DEF Init
  <2>4. /\ proc \in [Threads -> {"none", "skip", "run"}]
        /\ op \in [Threads -> {"none", "push", "release"} \cup CancelOps]
        /\ holding \in [Threads -> [to : Threads, entry : Posted] \cup {<<>>}]
    BY DEF Init
  <2> QED
    BY <1>1, <2>2, <2>3, <2>4 DEF Init, Types
<1>3. CounterInv
  BY <1>1, FS_EmptySet DEF Init, CounterInv
<1>4. SerialInv /\ CancelInv /\ DropInv
  BY <1>1 DEF Init, SerialInv, CancelInv, DropInv, CancelledNeverRuns, DroppedOnlyIfCancelled
<1> QED
  BY <1>2, <1>3, <1>4 DEF IInv

(* A new callback has a new number and the present generation and flag.     *)
LEMMA CallbackIInv ==
  ASSUME IInv, NEW t \in Threads, NEW to \in Threads, Callback(t, to)
  PROVE  IInv'
<1> DEFINE m == posts + 1
           e == [n |-> m, generation |-> generation, deadlock |-> deadlock]
<1>1. /\ op[t] = "none" /\ counter' = counter + 1 /\ posts' = m
      /\ holding' = [holding EXCEPT ![t] = [to |-> to, entry |-> e]]
      /\ op' = [op EXCEPT ![t] = "push"]
      /\ overlapped' = IF Cancelling THEN overlapped \cup {m} ELSE overlapped
      /\ UNCHANGED <<generation, deadlock, queue, proc, current, seen, cancelled>>
  BY DEF Callback, Expected
<1>2. m \in Nat \ {0} /\ e \in Posted /\ e.n = m /\ e.generation = generation /\ e.deadlock = deadlock
  BY DEF IInv, Types, Posted
<1>3. 1..m = 1..posts \cup {m} /\ m \notin 1..posts
  BY DEF IInv, Types
<1>4. \A k \in Nat : k <= posts => k <= m /\ k # m
  BY DEF IInv, Types
<1> HIDE DEF e, m
<1>5. /\ Pushing' = Pushing \cup {t} /\ Posting' = Posting \cup {t} /\ t \notin Posting /\ t \notin Pushing
      /\ Processing' = Processing /\ Entries' = Entries /\ Cancelling' = Cancelling
  BY <1>1 DEF IInv, Types, Pushing, Posting, Processing, Entries, Cancelling, CancelOps
<1>6. \A u \in Pushing' : IF u = t THEN holding'[u] = [to |-> to, entry |-> e]
                                   ELSE u \in Pushing /\ holding'[u] = holding[u]
  BY <1>1, <1>5 DEF IInv, Types, Pushing
<1>7. Held' \subseteq Held \cup {e}
  BY <1>6 DEF Held
<1>8. Types'
  <2>1. holding' \in [Threads -> [to : Threads, entry : Posted] \cup {<<>>}]
    BY <1>1, <1>2 DEF IInv, Types
  <2>2. \A u \in Pushing' : holding'[u] \in [to : Threads, entry : Posted]
    <3>1. [to |-> to, entry |-> e] \in [to : Threads, entry : Posted]
      BY <1>2
    <3>2. \A u \in Pushing : holding[u] \in [to : Threads, entry : Posted]
      BY DEF IInv, Types
    <3> QED
      BY <1>6, <3>1, <3>2
  <2>3. seen' \in [Threads -> SUBSET (1..m)] /\ cancelled' \in SUBSET (1..m) /\ overlapped' \in SUBSET (1..m)
    BY <1>1, <1>3 DEF IInv, Types
  <2>4. counter' \in Int /\ op' \in [Threads -> {"none", "push", "release"} \cup CancelOps]
    BY <1>1 DEF IInv, Types
  <2> QED
    BY <1>1, <1>2, <2>1, <2>2, <2>3, <2>4 DEF IInv, Types
<1>9. CounterInv'
  <2>1. Posting \in SUBSET Threads /\ Processing \in SUBSET Threads
    BY DEF Posting, Processing
  <2>2. Cardinality(Posting) \in Nat /\ Cardinality(Processing) \in Nat
    BY <2>1, CountThread
  <2>3. Cardinality(Posting') = Cardinality(Posting) + 1
    BY <1>5, <2>1, CountThread
  <2> QED
    BY <1>1, <1>5, <2>2, <2>3 DEF IInv, CounterInv
<1>10. SerialInv'
  <2>1. ASSUME NEW x \in Entries' \cup Held' PROVE x.n <= posts' /\ x.generation <= generation'
    <3>1. CASE x = e
      BY <1>1, <1>2, <3>1 DEF IInv, Types
    <3>2. CASE x \in Entries \cup Held
      <4>1. x \in Posted /\ x.n \in Nat /\ x.n <= posts /\ x.generation <= generation
        BY <3>2, EntriesArePosted DEF IInv, SerialInv, Posted
      <4> QED
        BY <1>1, <1>4, <4>1
    <3> QED
      BY <1>5, <1>7, <2>1, <3>1, <3>2
  <2>2. ASSUME NEW x \in Entries \cup Held PROVE x.n # m
    BY <1>4, EntriesArePosted DEF IInv, SerialInv, Posted
  <2>3. m \notin cancelled /\ \A u \in Threads : m \notin seen[u]
    BY <1>3 DEF IInv, Types
  <2>4. ASSUME NEW u \in Pushing'
        PROVE  /\ \A x \in Entries' : x.n # holding'[u].entry.n
               /\ \A v \in Pushing' : holding'[v].entry.n = holding'[u].entry.n => v = u
               /\ \A v \in Threads : holding'[u].entry.n \notin seen'[v]
               /\ holding'[u].entry.n \notin cancelled'
    <3>1. CASE u = t
      <4>1. holding'[u].entry.n = m
        BY <1>2, <1>6, <3>1
      <4>2. \A v \in Pushing : holding[v].entry.n # m
        BY <2>2, EntriesArePosted DEF IInv
      <4>3. \A v \in Pushing' : v # t => holding'[v].entry.n # m
        BY <1>6, <4>2
      <4> QED
        BY <1>1, <1>5, <2>2, <2>3, <3>1, <4>1, <4>3
    <3>2. CASE u # t
      <4>1. u \in Pushing /\ holding'[u] = holding[u]
        BY <1>6, <3>2
      <4>2. holding[u].entry.n # m
        BY <2>2, <4>1, EntriesArePosted DEF IInv
      <4>3. holding'[t].entry.n = m
        BY <1>2, <1>5, <1>6
      <4>4. \A v \in Pushing' : holding'[v].entry.n = holding'[u].entry.n => v = u
        BY <1>6, <4>1, <4>2, <4>3 DEF IInv, SerialInv
      <4> QED
        BY <1>1, <1>5, <4>1, <4>4 DEF IInv, SerialInv
    <3> QED
      BY <3>1, <3>2
  <2> QED
    BY <2>1, <2>4 DEF SerialInv
<1>11. CancelInv'
  <2>1. \A u \in Threads : op'[u] \in {"clear", "wait_clear"} => op[u] \in {"clear", "wait_clear"}
    BY <1>1 DEF IInv, Types
  <2> QED
    BY <1>1, <1>5, <2>1 DEF IInv, CancelInv, CancelledNeverRuns
<1>12. DropInv'
  <2>1. Cancelling' => overlapped' = 1..posts'
    BY <1>1, <1>3, <1>5 DEF IInv, DropInv
  <2>2. overlapped \subseteq overlapped'
    BY <1>1
  <2>3. \A x \in Entries' \cup Held' : x.n \notin overlapped' =>
          x.generation = generation' /\ x.deadlock = deadlock'
    BY <1>1, <1>2, <1>5, <1>7, <2>2 DEF IInv, DropInv
  <2> QED
    BY <1>1, <2>1, <2>2, <2>3 DEF IInv, DropInv, DroppedOnlyIfCancelled
<1> QED
  BY <1>8, <1>9, <1>10, <1>11, <1>12 DEF IInv

(* callback() pushes the entry, with the generation and the deadlock bit it *)
(* read when it took its count.                                             *)
LEMMA PushCallbackIInv ==
  ASSUME IInv, NEW t \in Threads, PushCallback(t)
  PROVE  IInv'
<1> DEFINE e == holding[t].entry
           d == holding[t].to
<1>1. /\ op[t] = "push" /\ queue' = [queue EXCEPT ![d] = Append(queue[d], e)]
      /\ holding' = [holding EXCEPT ![t] = <<>>]
      /\ op' = [op EXCEPT ![t] = "release"]
      /\ UNCHANGED <<generation, deadlock, counter, proc, current, posts, seen, cancelled, overlapped>>
  BY DEF PushCallback, word, ghost
<1>2. t \in Pushing /\ e \in Held /\ e \in Posted /\ d \in Threads
  BY <1>1, EntriesArePosted DEF IInv, Pushing
<1> HIDE DEF e, d
<1>3. /\ Pushing' = Pushing \ {t} /\ Posting' = Posting /\ Processing' = Processing
      /\ Cancelling' = Cancelling
      /\ \A u \in Threads : op'[u] \in {"clear", "wait_clear"} => op[u] \in {"clear", "wait_clear"}
  BY <1>1 DEF IInv, Types, Pushing, Posting, Processing, Cancelling, CancelOps
<1>4. \A u \in Pushing' : u \in Pushing /\ u # t /\ holding'[u] = holding[u]
  BY <1>1, <1>3 DEF IInv, Types, Pushing
<1>5. Held' \subseteq Held
  BY <1>4 DEF Held
<1>6. Append(queue[d], e) \in Seq(Posted) /\ Range(Append(queue[d], e)) = Range(queue[d]) \cup {e}
  BY <1>2, AppendRange DEF IInv, Types
<1>7. Entries' \subseteq Entries \cup {e}
  <2>1. \A u \in Threads : Range(queue'[u]) \subseteq Range(queue[u]) \cup {e}
    BY <1>1, <1>2, <1>6 DEF IInv, Types
  <2> QED
    BY <2>1 DEF Entries
<1>8. Types'
  <2>1. queue' \in [Threads -> Seq(Posted)]
    BY <1>1, <1>6 DEF IInv, Types
  <2>2. /\ holding' \in [Threads -> [to : Threads, entry : Posted] \cup {<<>>}]
        /\ op' \in [Threads -> {"none", "push", "release"} \cup CancelOps]
    BY <1>1 DEF IInv, Types
  <2>3. \A u \in Pushing' : holding'[u] \in [to : Threads, entry : Posted]
    BY <1>4 DEF IInv, Types
  <2> QED
    BY <1>1, <2>1, <2>2, <2>3 DEF IInv, Types
<1>9. CounterInv'
  BY <1>1, <1>3 DEF IInv, CounterInv
<1>10. SerialInv'
  <2>1. \A x \in Entries' \cup Held' : x.n <= posts' /\ x.generation <= generation'
    BY <1>1, <1>2, <1>5, <1>7 DEF IInv, SerialInv
  <2>2. ASSUME NEW u \in Pushing'
        PROVE  /\ \A x \in Entries' : x.n # holding'[u].entry.n
               /\ \A v \in Pushing' : holding'[v].entry.n = holding'[u].entry.n => v = u
               /\ \A v \in Threads : holding'[u].entry.n \notin seen'[v]
               /\ holding'[u].entry.n \notin cancelled'
    <3>1. u \in Pushing /\ u # t /\ holding'[u] = holding[u]
      BY <1>4
    <3>2. holding[u].entry.n # e.n
      BY <1>2, <3>1 DEF IInv, SerialInv, e
    <3>3. \A v \in Pushing' : holding'[v].entry.n = holding'[u].entry.n => v = u
      BY <1>4, <3>1 DEF IInv, SerialInv
    <3>4. \A x \in Entries' : x.n # holding'[u].entry.n
      BY <1>7, <3>1, <3>2 DEF IInv, SerialInv
    <3> QED
      BY <1>1, <3>1, <3>3, <3>4 DEF IInv, SerialInv
  <2> QED
    BY <2>1, <2>2 DEF SerialInv
<1>11. CancelInv'
  <2>1. e.n \notin cancelled /\ \A u \in Threads : e.n \notin seen[u]
    BY <1>2 DEF IInv, SerialInv, e
  <2> QED
    BY <1>1, <1>3, <1>7, <2>1 DEF IInv, CancelInv, CancelledNeverRuns
<1>12. DropInv'
  BY <1>1, <1>2, <1>3, <1>5, <1>7 DEF IInv, DropInv, DroppedOnlyIfCancelled
<1> QED
  BY <1>8, <1>9, <1>10, <1>11, <1>12 DEF IInv

(* callback() gives its count back once the entry is in the list.           *)
LEMMA ReleaseCallbackIInv ==
  ASSUME IInv, NEW t \in Threads, ReleaseCallback(t)
  PROVE  IInv'
<1>1. /\ op[t] = "release" /\ counter' = counter - 1
      /\ op' = [op EXCEPT ![t] = "none"]
      /\ UNCHANGED <<generation, deadlock, queue, proc, current, holding, posts, seen, cancelled,
                     overlapped>>
  BY DEF ReleaseCallback, ghost
<1>2. /\ Pushing' = Pushing /\ Posting' = Posting \ {t} /\ t \in Posting /\ Processing' = Processing
      /\ Cancelling' = Cancelling /\ Entries' = Entries
      /\ \A u \in Threads : op'[u] \in {"clear", "wait_clear"} => op[u] \in {"clear", "wait_clear"}
  BY <1>1 DEF IInv, Types, Pushing, Posting, Processing, Cancelling, CancelOps, Entries
<1>3. Held' = Held
  BY <1>1, <1>2 DEF Held
<1>4. Types'
  <2>1. counter' \in Int /\ op' \in [Threads -> {"none", "push", "release"} \cup CancelOps]
    BY <1>1 DEF IInv, Types
  <2> QED
    BY <1>1, <1>2, <2>1 DEF IInv, Types
<1>5. CounterInv'
  <2>1. Posting \in SUBSET Threads /\ Processing \in SUBSET Threads
    BY DEF Posting, Processing
  <2>2. Cardinality(Posting) \in Nat /\ Cardinality(Processing) \in Nat
    BY <2>1, CountThread
  <2>3. Cardinality(Posting') = Cardinality(Posting) - 1
    BY <1>2, <2>1, CountThread
  <2> QED
    BY <1>1, <1>2, <2>2, <2>3 DEF IInv, CounterInv
<1>6. SerialInv' /\ CancelInv' /\ DropInv'
  BY <1>1, <1>2, <1>3 DEF IInv, SerialInv, CancelInv, DropInv, CancelledNeverRuns, DroppedOnlyIfCancelled
<1> QED
  BY <1>4, <1>5, <1>6 DEF IInv

(* A callback that runs is of the present generation and flag: not          *)
(* cancelled.  One that is dropped is not: some cancel overlapped it.       *)
LEMMA ProcessIInv ==
  ASSUME IInv, NEW t \in Threads, Process(t)
  PROVE  IInv'
<1> DEFINE e == Head(queue[t])
<1>1. /\ op[t] = "none" /\ proc[t] = "none" /\ queue[t] # <<>>
      /\ proc' = [proc EXCEPT ![t] = IF e = Expected(e.n) THEN "run" ELSE "skip"]
      /\ current' = [current EXCEPT ![t] = e.n]
      /\ counter' = counter + 1
      /\ queue' = [queue EXCEPT ![t] = Tail(queue[t])]
      /\ UNCHANGED <<generation, deadlock, op, holding, posts, seen, cancelled, overlapped>>
  BY DEF Process, ghost
<1>2. /\ Tail(queue[t]) \in Seq(Posted) /\ Range(Tail(queue[t])) \subseteq Range(queue[t])
      /\ e \in Range(queue[t]) /\ e \in Posted
  BY <1>1, HeadTailRange DEF IInv, Types
<1> HIDE DEF e
<1>3. e \in Entries
  BY <1>2 DEF Entries
<1>4. /\ Pushing' = Pushing /\ Posting' = Posting /\ Cancelling' = Cancelling
      /\ Processing' = Processing \cup {t} /\ t \notin Processing
  BY <1>1 DEF IInv, Types, Pushing, Posting, Processing, Cancelling
<1>5. Held' = Held
  BY <1>1, <1>4 DEF Held
<1>6. Entries' \subseteq Entries
  <2>1. \A u \in Threads : Range(queue'[u]) \subseteq Range(queue[u])
    BY <1>1, <1>2 DEF IInv, Types
  <2> QED
    BY <2>1 DEF Entries
<1>7. Types'
  <2>1. queue' \in [Threads -> Seq(Posted)]
    BY <1>1, <1>2 DEF IInv, Types
  <2>2. /\ proc' \in [Threads -> {"none", "skip", "run"}] /\ current' \in [Threads -> Nat]
        /\ counter' \in Int
    BY <1>1, <1>2 DEF IInv, Types, Posted
  <2> QED
    BY <1>1, <1>4, <2>1, <2>2 DEF IInv, Types
<1>8. CounterInv'
  <2>1. Posting \in SUBSET Threads /\ Processing \in SUBSET Threads
    BY DEF Posting, Processing
  <2>2. Cardinality(Posting) \in Nat /\ Cardinality(Processing) \in Nat
    BY <2>1, CountThread
  <2>3. Cardinality(Processing') = Cardinality(Processing) + 1
    BY <1>4, <2>1, CountThread
  <2> QED
    BY <1>1, <1>4, <2>2, <2>3 DEF IInv, CounterInv
<1>9. SerialInv'
  BY <1>1, <1>4, <1>5, <1>6 DEF IInv, SerialInv
<1>10. CancelledNeverRuns'
  <2>1. ASSUME NEW u \in Threads, proc'[u] = "run" PROVE current'[u] \notin cancelled
    <3>1. CASE u = t
      <4>1. e = Expected(e.n) /\ current'[t] = e.n
        BY <1>1, <2>1, <3>1 DEF IInv, Types
      <4>2. e.generation = generation /\ generation \in Nat
        BY <4>1 DEF Expected, IInv, Types
      <4>3. ~(e.generation < generation)
        BY <4>2
      <4> QED
        BY <1>3, <3>1, <4>1, <4>3 DEF IInv, CancelInv
    <3>2. CASE u # t
      BY <1>1, <2>1, <3>2 DEF IInv, Types, CancelInv, CancelledNeverRuns
    <3> QED
      BY <3>1, <3>2
  <2> QED
    BY <1>1, <2>1 DEF CancelledNeverRuns
<1>11. CancelInv'
  BY <1>1, <1>6, <1>10 DEF IInv, CancelInv
<1>12. DroppedOnlyIfCancelled'
  <2>1. ASSUME NEW u \in Threads, proc'[u] = "skip" PROVE current'[u] \in overlapped
    <3>1. CASE u = t
      <4>1. e # Expected(e.n) /\ current'[t] = e.n
        BY <1>1, <2>1, <3>1 DEF IInv, Types
      <4>2. ~(e.generation = generation /\ e.deadlock = deadlock)
        BY <1>2, <4>1 DEF Expected, Posted
      <4> QED
        BY <1>3, <3>1, <4>1, <4>2 DEF IInv, DropInv
    <3>2. CASE u # t
      BY <1>1, <2>1, <3>2 DEF IInv, Types, DropInv, DroppedOnlyIfCancelled
    <3> QED
      BY <3>1, <3>2
  <2> QED
    BY <1>1, <2>1 DEF DroppedOnlyIfCancelled
<1>13. DropInv'
  BY <1>1, <1>4, <1>5, <1>6, <1>12 DEF IInv, DropInv
<1> QED
  BY <1>7, <1>8, <1>9, <1>11, <1>13 DEF IInv

(* A callback returned or was skipped: its thread gives back its count.     *)
LEMMA ProcessedIInv ==
  ASSUME IInv, NEW t \in Threads, Processed(t)
  PROVE  IInv'
<1>1. /\ proc[t] # "none" /\ counter' = counter - 1
      /\ proc' = [proc EXCEPT ![t] = "none"] /\ current' = [current EXCEPT ![t] = 0]
      /\ UNCHANGED <<generation, deadlock, queue, op, holding, posts, seen, cancelled, overlapped>>
  BY DEF Processed, ghost
<1>2. /\ Pushing' = Pushing /\ Posting' = Posting /\ Cancelling' = Cancelling /\ Entries' = Entries
      /\ Processing' = Processing \ {t} /\ t \in Processing
  BY <1>1 DEF IInv, Types, Pushing, Posting, Processing, Cancelling, Entries
<1>3. Held' = Held
  BY <1>1, <1>2 DEF Held
<1>4. Types'
  <2>1. /\ proc' \in [Threads -> {"none", "skip", "run"}] /\ current' \in [Threads -> Nat]
        /\ counter' \in Int
    BY <1>1 DEF IInv, Types
  <2> QED
    BY <1>1, <1>2, <2>1 DEF IInv, Types
<1>5. CounterInv'
  <2>1. Posting \in SUBSET Threads /\ Processing \in SUBSET Threads
    BY DEF Posting, Processing
  <2>2. Cardinality(Posting) \in Nat /\ Cardinality(Processing) \in Nat
    BY <2>1, CountThread
  <2>3. Cardinality(Processing') = Cardinality(Processing) - 1
    BY <1>2, <2>1, CountThread
  <2> QED
    BY <1>1, <1>2, <2>2, <2>3 DEF IInv, CounterInv
<1>6. CancelledNeverRuns' /\ DroppedOnlyIfCancelled'
  BY <1>1 DEF IInv, Types, CancelInv, DropInv, CancelledNeverRuns, DroppedOnlyIfCancelled
<1>7. SerialInv' /\ CancelInv' /\ DropInv'
  BY <1>1, <1>2, <1>3, <1>6 DEF IInv, SerialInv, CancelInv, DropInv
<1> QED
  BY <1>4, <1>5, <1>7 DEF IInv

(* A cancel that starts sees the numbers that are queued.                   *)
LEMMA QueuedNumbers ==
  ASSUME IInv
  PROVE  /\ Queued \subseteq 1..posts
         /\ \A k \in Queued : \E e \in Entries : e.n = k
<1>1. ASSUME NEW k \in Queued PROVE \E e \in Entries : e.n = k
  <2>1. PICK t \in Threads : \E i \in DOMAIN queue[t] : k = queue[t][i].n
    BY DEF Queued
  <2> QED
    BY <2>1 DEF Entries, Range
<1>2. ASSUME NEW e \in Entries PROVE e.n \in 1..posts
  <2>1. e.n \in Nat \ {0} /\ e.n <= posts /\ posts \in Nat
    BY EntriesArePosted DEF IInv, Types, SerialInv, Posted
  <2> QED
    BY <2>1
<1> QED
  BY <1>1, <1>2

(* cancel_callback_and_wait() starts.                                       *)
LEMMA CancelIInv ==
  ASSUME IInv, NEW t \in Threads, Cancel(t)
  PROVE  IInv'
<1>1. /\ op[t] = "none" /\ \E x \in {"try", "wait"} : op' = [op EXCEPT ![t] = x]
      /\ seen' = [seen EXCEPT ![t] = Queued] /\ overlapped' = 1..posts
      /\ UNCHANGED <<generation, deadlock, counter, queue, proc, current, holding, posts, cancelled>>
  BY DEF Cancel, word
<1>2. /\ Pushing' = Pushing /\ Posting' = Posting /\ Processing' = Processing /\ Entries' = Entries
      /\ \A u \in Threads : op'[u] \in {"clear", "wait_clear"} => op[u] \in {"clear", "wait_clear"} /\ u # t
  BY <1>1 DEF IInv, Types, Pushing, Posting, Processing, Entries
<1>3. Held' = Held
  BY <1>1, <1>2 DEF Held
<1>4. Types'
  <2>1. /\ op' \in [Threads -> {"none", "push", "release"} \cup CancelOps]
        /\ seen' \in [Threads -> SUBSET (1..posts)]
    BY <1>1, QueuedNumbers DEF IInv, Types, CancelOps
  <2> QED
    BY <1>1, <1>2, <2>1 DEF IInv, Types
<1>5. CounterInv'
  BY <1>1, <1>2 DEF IInv, CounterInv
<1>6. SerialInv'
  <2>1. ASSUME NEW u \in Pushing, NEW v \in Threads PROVE holding[u].entry.n \notin seen'[v]
    <3>1. CASE v = t
      <4>1. seen'[v] = Queued
        BY <1>1, <3>1 DEF IInv, Types
      <4>2. \A e \in Entries : e.n # holding[u].entry.n
        BY DEF IInv, SerialInv
      <4> QED
        BY <4>1, <4>2, QueuedNumbers
    <3>2. CASE v # t
      BY <1>1, <3>2 DEF IInv, Types, SerialInv
    <3> QED
      BY <3>1, <3>2
  <2> QED
    BY <1>1, <1>2, <1>3, <2>1 DEF IInv, SerialInv
<1>7. CancelInv'
  <2>1. \A u \in Threads : u # t => seen'[u] = seen[u]
    BY <1>1 DEF IInv, Types
  <2> QED
    BY <1>1, <1>2, <2>1 DEF IInv, CancelInv, CancelledNeverRuns
<1>8. DropInv'
  <2>1. overlapped \subseteq overlapped'
    BY <1>1 DEF IInv, Types
  <2> QED
    BY <1>1, <1>2, <1>3, <2>1 DEF IInv, DropInv, DroppedOnlyIfCancelled
<1> QED
  BY <1>4, <1>5, <1>6, <1>7, <1>8 DEF IInv

(* The generation is bumped by a thread that cancels, which overlaps every  *)
(* callback: no callback is expected to be of the present word.             *)
LEMMA BumpFacts ==
  ASSUME IInv, Cancelling
  PROVE  /\ generation + 1 \in Nat
         /\ \A e \in Entries \cup Held :
              /\ e.n \in overlapped /\ e.generation < generation + 1 /\ e.generation <= generation + 1
<1>1. ASSUME NEW e \in Entries \cup Held
      PROVE  e.n \in overlapped /\ e.generation < generation + 1 /\ e.generation <= generation + 1
  <2>1. /\ e.n \in Nat \ {0} /\ e.n <= posts /\ posts \in Nat /\ overlapped = 1..posts
        /\ e.generation \in Nat /\ e.generation <= generation /\ generation \in Nat
    BY EntriesArePosted DEF IInv, Types, SerialInv, DropInv, Posted
  <2> QED
    BY <2>1
<1> QED
  BY <1>1 DEF IInv, Types

(* The counter is zero: no thread is inside a callback or holds one.        *)
LEMMA CancelWaitIInv ==
  ASSUME IInv, NEW t \in Threads, CancelWait(t)
  PROVE  IInv'
<1>1. /\ op[t] = "wait" /\ counter = 0 /\ generation' = generation + 1
      /\ op' = [op EXCEPT ![t] = "none"] /\ seen' = [seen EXCEPT ![t] = {}]
      /\ cancelled' = cancelled \cup 1..posts
      /\ UNCHANGED <<deadlock, counter, queue, proc, current, holding, posts, overlapped>>
  BY DEF CancelWait, CancelReturns
<1>2. Processing = {} /\ Posting = {}
  <2>1. Posting \in SUBSET Threads /\ Processing \in SUBSET Threads
    BY DEF Posting, Processing
  <2>2. Cardinality(Posting) \in Nat /\ Cardinality(Processing) \in Nat
    BY <2>1, CountThread
  <2>3. Cardinality(Posting) = 0 /\ Cardinality(Processing) = 0
    BY <1>1, <2>2 DEF IInv, CounterInv
  <2> QED
    BY <2>1, <2>3, CountThread
<1>3. Pushing = {} /\ Pushing' = {} /\ Posting' = {} /\ Processing' = {} /\ Entries' = Entries
  BY <1>1, <1>2 DEF IInv, Types, Pushing, Posting, Processing, Entries
<1>4. Held' = {} /\ Cancelling
  BY <1>1, <1>3 DEF Held, Cancelling, CancelOps
<1>5. Types'
  <2>1. /\ op' \in [Threads -> {"none", "push", "release"} \cup CancelOps]
        /\ seen' \in [Threads -> SUBSET (1..posts)] /\ cancelled' \in SUBSET (1..posts)
    BY <1>1 DEF IInv, Types
  <2> QED
    BY <1>1, <1>3, <1>4, <2>1, BumpFacts DEF IInv, Types
<1>6. CounterInv'
  BY <1>1, <1>2, <1>3 DEF IInv, CounterInv
<1>7. SerialInv'
  BY <1>1, <1>3, <1>4, BumpFacts DEF IInv, SerialInv
<1>8. CancelInv'
  <2>1. CancelledNeverRuns'
    BY <1>3 DEF CancelledNeverRuns, Processing
  <2> QED
    BY <1>1, <1>3, <1>4, <2>1, BumpFacts DEF CancelInv
<1>9. DropInv'
  <2>1. overlapped' = 1..posts'
    BY <1>1, <1>4 DEF IInv, DropInv
  <2> QED
    BY <1>1, <1>3, <1>4, <2>1, BumpFacts DEF IInv, DropInv, DroppedOnlyIfCancelled
<1> QED
  BY <1>5, <1>6, <1>7, <1>8, <1>9 DEF IInv

(* A cancel inside a callback sets the flag, or bumps the generation.       *)
LEMMA CancelGoesOn ==
  ASSUME IInv, NEW t \in Threads, op[t] \in {"try", "bump"}, deadlock' \in BOOLEAN,
         \/ op' = [op EXCEPT ![t] = "bump"] /\ generation' = generation
         \/ op' = [op EXCEPT ![t] = "clear"] /\ generation' = generation + 1
         \/ op' = [op EXCEPT ![t] = "wait_clear"] /\ generation' = generation + 1,
         UNCHANGED <<counter, queue, proc, current, holding, posts, seen, cancelled, overlapped>>
  PROVE  IInv'
<1>1. /\ Pushing' = Pushing /\ Posting' = Posting /\ Processing' = Processing /\ Entries' = Entries
      /\ Cancelling
  BY DEF IInv, Types, Pushing, Posting, Processing, Entries, Cancelling, CancelOps
<1>2. Held' = Held
  BY <1>1 DEF Held
<1>3. overlapped = 1..posts
  BY <1>1 DEF IInv, DropInv
<1>4. generation' \in Nat /\ \A e \in Entries \cup Held : e.generation <= generation'
  BY <1>1, BumpFacts DEF IInv, Types, SerialInv
<1>5. /\ \A u \in Threads : op'[u] \in {"clear", "wait_clear"} =>
           \/ u # t /\ op[u] \in {"clear", "wait_clear"}
           \/ generation' = generation + 1
      /\ op' \in [Threads -> {"none", "push", "release"} \cup CancelOps]
  BY DEF IInv, Types, CancelOps
<1>6. \A e \in Entries : e.generation < generation => e.generation < generation'
  <2>1. \A e \in Entries : e.generation \in Nat
    BY EntriesArePosted DEF IInv, Posted
  <2> QED
    BY <2>1 DEF IInv, Types
<1>7. Types'
  BY <1>1, <1>4, <1>5 DEF IInv, Types
<1>8. CounterInv' /\ SerialInv'
  BY <1>1, <1>2, <1>4 DEF IInv, CounterInv, SerialInv
<1>9. CancelInv'
  BY <1>1, <1>5, <1>6, BumpFacts DEF IInv, CancelInv, CancelledNeverRuns
<1>10. DropInv'
  BY <1>1, <1>2, <1>3, BumpFacts DEF IInv, DropInv, DroppedOnlyIfCancelled
<1> QED
  BY <1>7, <1>8, <1>9, <1>10 DEF IInv

(* It covers what it saw queued and nobody runs.                            *)
LEMMA CancelEnds ==
  ASSUME IInv, NEW t \in Threads, op[t] \in {"clear", "wait_clear"}, deadlock' \in BOOLEAN,
         CancelReturns(t, seen[t] \ Running),
         UNCHANGED <<generation, counter, queue, proc, current, holding, posts, overlapped>>
  PROVE  IInv'
<1>1. /\ op' = [op EXCEPT ![t] = "none"] /\ seen' = [seen EXCEPT ![t] = {}]
      /\ cancelled' = cancelled \cup (seen[t] \ Running)
  BY DEF CancelReturns
<1>2. /\ Pushing' = Pushing /\ Posting' = Posting /\ Processing' = Processing /\ Entries' = Entries
      /\ Cancelling
      /\ \A u \in Threads : op'[u] \in {"clear", "wait_clear"} => op[u] \in {"clear", "wait_clear"} /\ u # t
      /\ \A u \in Threads : seen'[u] \subseteq seen[u]
  BY <1>1 DEF IInv, Types, Pushing, Posting, Processing, Entries, Cancelling, CancelOps
<1>3. Held' = Held
  BY <1>2 DEF Held
<1>4. Types'
  <2>1. /\ op' \in [Threads -> {"none", "push", "release"} \cup CancelOps]
        /\ seen' \in [Threads -> SUBSET (1..posts)] /\ cancelled' \in SUBSET (1..posts)
    BY <1>1 DEF IInv, Types
  <2> QED
    BY <1>2, <2>1 DEF IInv, Types
<1>5. CounterInv' /\ SerialInv'
  BY <1>1, <1>2, <1>3 DEF IInv, CounterInv, SerialInv
<1>6. CancelInv'
  <2>1. CancelledNeverRuns'
    BY <1>1 DEF IInv, CancelInv, CancelledNeverRuns, Running
  <2>2. \A e \in Entries : e.n \in cancelled' => e.generation < generation
    BY <1>1 DEF IInv, CancelInv
  <2> QED
    BY <1>2, <2>1, <2>2 DEF IInv, CancelInv
<1>7. DropInv'
  <2>1. overlapped = 1..posts
    BY <1>2 DEF IInv, DropInv
  <2> QED
    BY <1>2, <1>3, <2>1, BumpFacts DEF IInv, DropInv, DroppedOnlyIfCancelled
<1> QED
  BY <1>4, <1>5, <1>6, <1>7 DEF IInv

(* Every step of every thread keeps the invariant.                          *)
LEMMA StepIInv == IInv /\ [Next]_vars => IInv'
<1> SUFFICES ASSUME IInv, [Next]_vars PROVE IInv'
  OBVIOUS
<1>1. CASE UNCHANGED vars
  <2>1. /\ Pushing' = Pushing /\ Posting' = Posting /\ Processing' = Processing /\ Entries' = Entries
        /\ Cancelling' = Cancelling /\ Held' = Held
    BY <1>1 DEF vars, word, ghost, Pushing, Posting, Processing, Entries, Cancelling, Held
  <2>2. Types'
    BY <1>1, <2>1 DEF IInv, Types, vars, word, ghost
  <2>3. CounterInv' /\ SerialInv' /\ CancelInv' /\ DropInv'
    BY <1>1, <2>1 DEF IInv, CounterInv, SerialInv, CancelInv, DropInv, CancelledNeverRuns,
                      DroppedOnlyIfCancelled, vars, word, ghost
  <2> QED
    BY <2>2, <2>3 DEF IInv
<1>2. ASSUME NEW t \in Threads, NEW to \in Threads, Callback(t, to) PROVE IInv'
  BY <1>2, CallbackIInv
<1>3. ASSUME NEW t \in Threads, Step(t) \/ Cancel(t) PROVE IInv'
  <2>1. CASE CancelTry(t)
    <3>1. deadlock' \in BOOLEAN
      BY <2>1 DEF CancelTry, IInv, Types
    <3> QED
      BY <2>1, <3>1, CancelGoesOn DEF CancelTry, ghost
  <2>2. CASE CancelBump(t)
    <3>1. deadlock' \in BOOLEAN
      BY <2>2 DEF CancelBump, IInv, Types
    <3> QED
      BY <2>2, <3>1, CancelGoesOn DEF CancelBump, ghost
  <2>3. CASE CancelClear(t)
    BY <2>3, CancelEnds DEF CancelClear
  <2>4. CASE CancelWaitClear(t)
    <3>1. deadlock' \in BOOLEAN
      BY <2>4 DEF CancelWaitClear, word, IInv, Types
    <3> QED
      BY <2>4, <3>1, CancelEnds DEF CancelWaitClear, word
  <2> QED
    BY <1>3, <2>1, <2>2, <2>3, <2>4, PushCallbackIInv, ReleaseCallbackIInv, ProcessIInv,
       ProcessedIInv, CancelIInv, CancelWaitIInv
    DEF Step
<1> QED
  BY <1>1, <1>2, <1>3 DEF Next

(* The invariant holds in every reachable state.                            *)
LEMMA AlwaysIInv == Spec => []IInv
  BY InitIInv, StepIInv, PTL DEF Spec

(* Once cancel_callback_and_wait() returned, none of the callbacks it covers *)
(* is running or will run, whichever threads post, process and cancel.      *)
THEOREM CancelIsFinal == Spec => []CancelledNeverRuns
  BY AlwaysIInv, PTL DEF IInv, CancelInv

(* process_callbacks() drops no callback without a cancel that overlaps it. *)
THEOREM NoneDropped == Spec => []DroppedOnlyIfCancelled
  BY AlwaysIInv, PTL DEF IInv, DropInv

(* The counter is never negative, and with at most three threads it stays   *)
(* below the value at which callback() throws "lower id overflow".          *)
THEOREM CounterFits ==
  ASSUME Cardinality(Threads) <= 3
  PROVE  Spec => [](counter \in 0..6)
<1>1. IInv => counter \in 0..6
  <2> SUFFICES ASSUME IInv PROVE counter \in 0..6
    OBVIOUS
  <2>1. Posting \subseteq Threads /\ Processing \subseteq Threads
    BY DEF Posting, Processing
  <2>2. /\ Cardinality(Posting) \in Nat /\ Cardinality(Processing) \in Nat /\ Cardinality(Threads) \in Nat
        /\ Cardinality(Posting) <= Cardinality(Threads)
        /\ Cardinality(Processing) <= Cardinality(Threads)
    BY <2>1, BoundsAssumption, FS_Subset, FS_CardinalityType
  <2> QED
    BY <2>2 DEF IInv, CounterInv
<1> QED
  BY <1>1, AlwaysIInv, PTL
=============================================================================
