---------------------------- MODULE SessionProofs ----------------------------
(***************************************************************************)
(* Proofs about what a session keeps going: the timers of its threads, the *)
(* descriptors that are still to be closed, the life of a download, and    *)
(* its resume data across crashes.                                         *)
(***************************************************************************)
EXTENDS Scheduler, FdCloseQueue, DownloadLifecycle, ResumeData, TLAPS

-----------------------------------------------------------------------------
(* Scheduler: the pointers between entries and handles, and that a thread  *)
(* never sleeps past a timer, for any entries, delays and bounds.          *)

\* What clearing a back pointer does: the same handles, at the same times, and
\* only the named one loses its entry.
LEMMA ClearEntryFacts ==
  ASSUME NEW heap \in SUBSET Handles, NEW id
  PROVE  /\ ClearEntry(heap, id) \in SUBSET Handles
         /\ \A h \in heap : h.id # id => h \in ClearEntry(heap, id)
         /\ \A h \in ClearEntry(heap, id) :
              \/ h \in heap /\ h.id # id
              \/ /\ h.id = id /\ h.entry = NoEntry
                 /\ \E g \in heap : g.id = id /\ h = [g EXCEPT !.entry = NoEntry]
  BY DEF ClearEntry, Handles

\* Pushing a handle for an entry that has none left in `heap'.
LEMMA PushFacts ==
  ASSUME TimerTypeOK, NEW heap \in SUBSET Handles, NEW e \in Entries, NEW time \in Nat,
         \A h \in heap : h.id < sc.next,
         \A g, h \in heap : g.id = h.id => g = h,
         \A x \in Entries \ {e} : sc.handle[x] # 0 =>
           \E h \in heap : h.id = sc.handle[x] /\ h.entry = x,
         \A h \in heap : h.entry # NoEntry =>
           h.entry # e /\ sc.handle[h.entry] = h.id /\ sc.due[h.entry] = h.time,
         sc' = PushEntry(sc, heap, e, time)
  PROVE  TimerTypeOK' /\ HandlesMatch'
<1> DEFINE new == [id |-> sc.next, entry |-> e, time |-> time]
<1>1. new \in Handles
  BY DEF TimerTypeOK, Handles
<1>2. /\ sc'.heap = heap \cup {new}
      /\ sc'.handle = [sc.handle EXCEPT ![e] = sc.next]
      /\ sc'.due = [sc.due EXCEPT ![e] = time]
      /\ sc'.next = sc.next + 1
      /\ sc'.cached = sc.cached /\ sc'.performing = sc.performing
      /\ sc'.polling = sc.polling /\ sc'.wake = sc.wake
  BY DEF PushEntry, TimerTypeOK
<1>3. sc' \in [heap : SUBSET Handles, handle : [Entries -> Nat], due : [Entries -> Nat],
              next : Nat \ {0}, cached : Nat, performing : Nat, polling : Nat, wake : Nat]
  <2>1. /\ heap \cup {new} \in SUBSET Handles
        /\ [sc.handle EXCEPT ![e] = sc.next] \in [Entries -> Nat]
        /\ [sc.due EXCEPT ![e] = time] \in [Entries -> Nat]
        /\ sc.next + 1 \in Nat \ {0}
    BY <1>1 DEF TimerTypeOK
  <2>2. sc' = [heap |-> heap \cup {new}, handle |-> [sc.handle EXCEPT ![e] = sc.next],
              due |-> [sc.due EXCEPT ![e] = time], next |-> sc.next + 1,
              cached |-> sc.cached, performing |-> sc.performing,
              polling |-> sc.polling, wake |-> sc.wake]
    BY Zenon DEF PushEntry, TimerTypeOK
  <2> HIDE DEF new
  <2> QED
    BY <2>1, <2>2 DEF TimerTypeOK
<1>4. \A h \in sc'.heap : h.id < sc'.next
  BY <1>2 DEF TimerTypeOK, Handles
<1>5. \A g, h \in sc'.heap : g.id = h.id => g = h
  BY <1>2 DEF TimerTypeOK, Handles
<1>6. \A x \in Entries : sc'.handle[x] # 0 =>
        \E h \in sc'.heap : h.id = sc'.handle[x] /\ h.entry = x
  <2>1. new \in sc'.heap /\ new.id = sc.next /\ new.entry = e
    BY <1>2
  <2>2. sc'.handle[e] = sc.next /\ \A x \in Entries \ {e} : sc'.handle[x] = sc.handle[x]
    BY <1>2 DEF TimerTypeOK
  <2>3. \A h \in heap : h \in sc'.heap
    BY <1>2
  <2> HIDE DEF new
  <2> QED
    BY <2>1, <2>2, <2>3
<1>7. \A h \in sc'.heap : h.entry # NoEntry =>
        sc'.handle[h.entry] = h.id /\ sc'.due[h.entry] = h.time
  BY <1>1, <1>2, EntriesAssumption DEF TimerTypeOK, Handles
<1> QED
  BY <1>3, <1>4, <1>5, <1>6, <1>7 DEF TimerTypeOK, HandlesMatch

\* The heap without the entry's handle, as erase() and update_wait_until() leave
\* it, meets what PushFacts asks for.
LEMMA Cleared ==
  ASSUME TimerTypeOK, HandlesMatch, NEW e \in Entries, sc.handle[e] # 0
  PROVE  LET heap == ClearEntry(sc.heap, sc.handle[e]) IN
         /\ heap \in SUBSET Handles
         /\ \A h \in heap : h.id < sc.next
         /\ \A g, h \in heap : g.id = h.id => g = h
         /\ \A x \in Entries \ {e} : sc.handle[x] # 0 =>
              \E h \in heap : h.id = sc.handle[x] /\ h.entry = x
         /\ \A h \in heap : h.entry # NoEntry =>
              h.entry # e /\ sc.handle[h.entry] = h.id /\ sc.due[h.entry] = h.time
<1> DEFINE heap == ClearEntry(sc.heap, sc.handle[e])
<1>1. sc.heap \in SUBSET Handles
  BY DEF TimerTypeOK
<1>2. /\ heap \in SUBSET Handles
      /\ \A h \in sc.heap : h.id # sc.handle[e] => h \in heap
      /\ \A h \in heap :
           \/ h \in sc.heap /\ h.id # sc.handle[e]
           \/ /\ h.id = sc.handle[e] /\ h.entry = NoEntry
              /\ \E g \in sc.heap : g.id = sc.handle[e] /\ h = [g EXCEPT !.entry = NoEntry]
  BY <1>1, ClearEntryFacts
<1> HIDE DEF heap
<1>3. \A h \in heap : h.id < sc.next
  BY <1>2 DEF HandlesMatch
<1>4. \A g, h \in heap : g.id = h.id => g = h
  BY <1>1, <1>2 DEF HandlesMatch, Handles
<1>5. \A x \in Entries \ {e} : sc.handle[x] # 0 =>
        \E h \in heap : h.id = sc.handle[x] /\ h.entry = x
  <2>1. SUFFICES ASSUME NEW x \in Entries \ {e}, sc.handle[x] # 0
                 PROVE  \E h \in heap : h.id = sc.handle[x] /\ h.entry = x
    OBVIOUS
  <2>2. PICK h \in sc.heap : h.id = sc.handle[x] /\ h.entry = x
    BY <2>1 DEF HandlesMatch
  <2>3. PICK g \in sc.heap : g.id = sc.handle[e] /\ g.entry = e
    BY DEF HandlesMatch
  <2>4. h.id # sc.handle[e]
    BY <2>2, <2>3 DEF HandlesMatch
  <2> QED
    BY <1>2, <2>2, <2>4
<1>6. \A h \in heap : h.entry # NoEntry =>
        h.entry # e /\ sc.handle[h.entry] = h.id /\ sc.due[h.entry] = h.time
  BY <1>2 DEF HandlesMatch
<1> QED
  BY <1>2, <1>3, <1>4, <1>5, <1>6 DEF heap

TimerInv == TimerTypeOK /\ HandlesMatch /\ SleepsNoLonger

(* No entry is scheduled and the heap is empty.                             *)
LEMMA TimerStarts == TimerInit => TimerInv
<1> SUFFICES ASSUME TimerInit PROVE TimerInv
  OBVIOUS
<1>1. TimerTypeOK
  BY DEF TimerInit, TimerTypeOK
<1> QED
  BY <1>1 DEF TimerInit, TimerInv, HandlesMatch, SleepsNoLonger

(* Every call of the interface and every turn of perform() keeps the        *)
(* invariant.                                                               *)
LEMMA TimerSteps == TimerInv /\ [TimerNext]_sc => TimerInv'
<1> SUFFICES ASSUME TimerInv, [TimerNext]_sc PROVE TimerInv'
  OBVIOUS
<1> USE DEF TimerInv
<1>1. ASSUME NEW e \in Entries, Erase(e) PROVE TimerInv'
  <2> DEFINE heap == ClearEntry(sc.heap, sc.handle[e])
  <2>1. /\ heap \in SUBSET Handles
        /\ \A h \in heap : h.id < sc.next
        /\ \A g, h \in heap : g.id = h.id => g = h
        /\ \A x \in Entries \ {e} : sc.handle[x] # 0 =>
             \E h \in heap : h.id = sc.handle[x] /\ h.entry = x
        /\ \A h \in heap : h.entry # NoEntry =>
             h.entry # e /\ sc.handle[h.entry] = h.id /\ sc.due[h.entry] = h.time
    BY <1>1, Cleared DEF Erase, IsScheduled
  <2>2. sc' = [sc EXCEPT !.heap = heap, !.handle[e] = 0] /\ sc.polling = 0
    BY <1>1 DEF Erase, Awake
  <2> HIDE DEF heap
  <2>3. TimerTypeOK'
    BY <2>1, <2>2, ZenonT(60) DEF TimerTypeOK
  <2>4. sc'.heap = heap /\ sc'.handle = [sc.handle EXCEPT ![e] = 0]
        /\ sc'.due = sc.due /\ sc'.next = sc.next /\ sc'.polling = sc.polling
    BY <2>2 DEF TimerTypeOK
  <2>5. \A h \in heap : h.entry # NoEntry => h.entry \in Entries
    BY <2>1 DEF Handles
  <2>6. HandlesMatch'
    BY <2>1, <2>4, <2>5 DEF HandlesMatch, TimerTypeOK
  <2> QED
    BY <2>2, <2>3, <2>4, <2>6 DEF SleepsNoLonger
<1>2. ASSUME NEW e \in Entries, NEW delay \in Delays, WaitFor(e, delay) PROVE TimerInv'
  <2>1. sc.cached + delay \in Nat /\ sc.heap \in SUBSET Handles
    BY TimesAssumption DEF TimerTypeOK
  <2>2. sc.handle[e] = 0 /\ sc.polling = 0 /\ sc' = PushEntry(sc, sc.heap, e, sc.cached + delay)
    BY <1>2 DEF WaitFor, Awake, IsScheduled
  <2>3. \A h \in sc.heap : h.entry # NoEntry =>
          h.entry # e /\ sc.handle[h.entry] = h.id /\ sc.due[h.entry] = h.time
    BY <2>1, <2>2 DEF HandlesMatch, Handles
  <2>4. /\ \A h \in sc.heap : h.id < sc.next
        /\ \A g, h \in sc.heap : g.id = h.id => g = h
        /\ \A x \in Entries \ {e} : sc.handle[x] # 0 =>
             \E h \in sc.heap : h.id = sc.handle[x] /\ h.entry = x
    BY DEF HandlesMatch
  <2>5. TimerTypeOK' /\ HandlesMatch'
    BY <2>1, <2>2, <2>3, <2>4, PushFacts
  <2> QED
    BY <2>2, <2>5 DEF SleepsNoLonger, PushEntry, TimerTypeOK
<1>3. ASSUME NEW e \in Entries, NEW delay \in Delays, UpdateWaitFor(e, delay) PROVE TimerInv'
  <2>1. CASE sc.handle[e] = 0
    <3>1. WaitFor(e, delay)
      BY <1>3, <2>1 DEF WaitFor, UpdateWaitFor, UpdateHeap, IsScheduled
    <3> QED
      BY <3>1, <1>2
  <2>2. CASE sc.handle[e] # 0
    <3> DEFINE heap == ClearEntry(sc.heap, sc.handle[e])
    <3>1. sc.cached + delay \in Nat
      BY TimesAssumption DEF TimerTypeOK
    <3>2. sc.polling = 0 /\ sc' = PushEntry(sc, heap, e, sc.cached + delay)
      BY <1>3, <2>2 DEF UpdateWaitFor, UpdateHeap, IsScheduled, Awake
    <3>3. /\ heap \in SUBSET Handles
          /\ \A h \in heap : h.id < sc.next
          /\ \A g, h \in heap : g.id = h.id => g = h
          /\ \A x \in Entries \ {e} : sc.handle[x] # 0 =>
               \E h \in heap : h.id = sc.handle[x] /\ h.entry = x
          /\ \A h \in heap : h.entry # NoEntry =>
               h.entry # e /\ sc.handle[h.entry] = h.id /\ sc.due[h.entry] = h.time
      BY <2>2, Cleared
    <3> HIDE DEF heap
    <3>4. TimerTypeOK' /\ HandlesMatch'
      BY <3>1, <3>2, <3>3, PushFacts
    <3> QED
      BY <3>2, <3>4 DEF SleepsNoLonger, PushEntry, TimerTypeOK
  <2> QED
    BY <2>1, <2>2
<1>4. CASE PerformOne
  <2>1. PICK h \in sc.heap :
          sc' = [sc EXCEPT !.heap = sc.heap \ {h},
                         !.handle = [e \in Entries |-> IF e = h.entry THEN 0 ELSE sc.handle[e]]]
    BY <1>4, Zenon DEF PerformOne, TimerTypeOK
  <2>2. TimerTypeOK'
    BY <2>1, Zenon DEF TimerTypeOK
  <2>3. /\ sc'.heap = sc.heap \ {h} /\ sc'.due = sc.due /\ sc'.next = sc.next
        /\ sc'.handle = [e \in Entries |-> IF e = h.entry THEN 0 ELSE sc.handle[e]]
        /\ sc'.polling = sc.polling
    BY <2>1 DEF TimerTypeOK
  <2>4. \A g \in sc.heap : g.entry # NoEntry => g.entry \in Entries
    BY DEF TimerTypeOK, Handles
  <2>5. HandlesMatch'
    BY <2>3, <2>4, EntriesAssumption DEF HandlesMatch
  <2> QED
    BY <1>4, <2>2, <2>3, <2>5 DEF SleepsNoLonger, PerformOne, Awake
<1>5. CASE PerformEnds
  <2>1. sc' = [sc EXCEPT !.performing = 0] /\ sc.polling = 0
    BY <1>5 DEF PerformEnds, Awake
  <2>2. TimerTypeOK'
    BY <2>1 DEF TimerTypeOK
  <2> QED
    BY <2>1, <2>2 DEF HandlesMatch, SleepsNoLonger, TimerTypeOK
<1>6. CASE DropFront
  <2>1. PICK h \in sc.heap : h.entry = NoEntry /\ sc' = [sc EXCEPT !.heap = sc.heap \ {h}]
    BY <1>6, Zenon DEF DropFront, TimerTypeOK
  <2>2. TimerTypeOK'
    BY <2>1 DEF TimerTypeOK
  <2>3. /\ sc'.heap = sc.heap \ {h} /\ sc'.handle = sc.handle /\ sc'.due = sc.due
        /\ sc'.next = sc.next /\ sc'.polling = sc.polling
    BY <2>1 DEF TimerTypeOK
  <2>4. HandlesMatch'
    BY <2>1, <2>3, EntriesAssumption DEF HandlesMatch
  <2> QED
    BY <1>6, <2>2, <2>3, <2>4 DEF SleepsNoLonger, DropFront, Awake
<1>7. CASE StartPoll
  <2>1. PICK wake \in sc.cached..(sc.cached + MaxTimeout) :
          NextTimeout(sc, wake) /\ sc' = [sc EXCEPT !.polling = 1, !.wake = wake]
    BY <1>7, Zenon DEF StartPoll
  <2>2. TimerTypeOK'
    <3>1. wake \in Nat
      BY TimesAssumption DEF TimerTypeOK
    <3> QED
      BY <2>1, <3>1, Zenon DEF TimerTypeOK
  <2>3. /\ sc'.heap = sc.heap /\ sc'.handle = sc.handle /\ sc'.due = sc.due
        /\ sc'.next = sc.next /\ sc'.cached = sc.cached /\ sc'.wake = wake
    BY <2>1 DEF TimerTypeOK
  <2>4. HandlesMatch'
    BY <2>3 DEF HandlesMatch
  <2>5. ASSUME NEW e \in Entries, sc.handle[e] # 0 PROVE sc.due[e] >= wake \/ wake = sc.cached
    <3>1. PICK g \in sc.heap : g.entry = e
      BY <2>5 DEF HandlesMatch
    <3>2. g.time = sc.due[e] /\ g.time \in Nat
      BY <3>1, EntriesAssumption DEF HandlesMatch, TimerTypeOK, Handles
    <3>3. ASSUME NEW h \in sc.heap, IsFront(sc, h), h.time < sc.cached + MaxTimeout,
                 wake = IF h.time > sc.cached THEN h.time ELSE sc.cached
          PROVE  sc.due[e] >= wake \/ wake = sc.cached
      BY <3>2, <3>3 DEF IsFront, TimerTypeOK, Handles
    <3> QED
      BY <2>1, <3>2, <3>3 DEF NextTimeout
  <2> QED
    BY <2>2, <2>3, <2>4, <2>5 DEF SleepsNoLonger
<1>8. CASE Wakes
  <2>1. PICK now \in sc.cached..sc.wake :
          sc' = [sc EXCEPT !.polling = 0, !.cached = now, !.performing = 1]
    BY <1>8, Zenon DEF Wakes
  <2>2. TimerTypeOK'
    <3>1. now \in Nat
      BY DEF TimerTypeOK
    <3> QED
      BY <2>1, <3>1, Zenon DEF TimerTypeOK
  <2> QED
    BY <2>1, <2>2 DEF HandlesMatch, SleepsNoLonger, TimerTypeOK
<1>9. CASE UNCHANGED sc
  BY <1>9 DEF TimerTypeOK, HandlesMatch, SleepsNoLonger
<1> QED
  BY <1>1, <1>2, <1>3, <1>4, <1>5, <1>6, <1>7, <1>8, <1>9 DEF TimerNext

\* Whatever is scheduled, moved and erased, also by the slots that perform() runs,
\* the pointers of entries and handles agree.
THEOREM HandlesAlwaysMatch == TimerSpec => []HandlesMatch
<1>1. TimerInv => HandlesMatch
  BY DEF TimerInv
<1> QED
  BY <1>1, TimerStarts, TimerSteps, PTL DEF TimerSpec

\* next_timeout() never lets the thread sleep past the time an entry was last
\* asked to run at.
THEOREM NeverOversleeps == TimerSpec => []SleepsNoLonger
<1>1. TimerInv => SleepsNoLonger
  BY DEF TimerInv
<1> QED
  BY <1>1, TimerStarts, TimerSteps, PTL DEF TimerSpec

-----------------------------------------------------------------------------
(* FdCloseQueue, for any descriptors closed in any groups.                 *)

\* What the wake-up flag, the two program counters and the queue owe to each
\* other: a stored wake-up has work behind it, the one who found the queue empty
\* has not stored its own yet, and a worker that exits leaves nothing behind.
WakeupTells ==
  /\ s.wakeup = 1 /\ s.stopping = 0 => s.queue # {}
  /\ s.worker = "woken" => s.wakeup = 1
  /\ s.pc = "notify" => s.wakeup = 0 /\ s.queue # {}
  /\ s.stopping = 1 <=> s.pc \in {"destroy", "join", "destroyed"}
  /\ s.fds # {} <=> s.pc = "counted"
  /\ s.worker # "closing" => s.batch = {}
  /\ s.worker = "closing" /\ s.last = 1 => s.stopping = 1 /\ s.queue = {}
  /\ s.worker = "exited" => s.stopping = 1 /\ s.queue = {}
  /\ s.pc = "destroyed" => s.worker = "exited"

IInv == TypeOK /\ NeverWokenForNothing /\ NoneForgotten /\ ClosedOnce /\ WakeupTells

(* The queue starts empty and nobody is woken.                              *)
LEMMA InitIInv == Init => IInv
  BY DEF Init, IInv, TypeOK, NeverWokenForNothing, NoneForgotten, ClosedOnce, WakeupTells

(* Every step keeps the types.                                              *)
LEMMA StepTypeOK == TypeOK /\ [Next \/ Destroyed]_s => TypeOK'
<1> SUFFICES ASSUME TypeOK, [Next \/ Destroyed]_s PROVE TypeOK'
  OBVIOUS
<1>1. ASSUME NEW fds \in SUBSET Fds, CloseFds(fds) PROVE TypeOK'
  BY <1>1, Zenon DEF TypeOK, CloseFds
<1>2. CASE Queue
  BY <1>2, Zenon DEF TypeOK, Queue, Queued
<1>3. CASE Notify
  BY <1>3, Zenon DEF TypeOK, Notify
<1>4. CASE Destroy
  BY <1>4, Zenon DEF TypeOK, Destroy
<1>5. CASE DestroyNotify
  BY <1>5, Zenon DEF TypeOK, DestroyNotify
<1>6. CASE Join
  BY <1>6 DEF TypeOK, Join
<1>7. CASE Wake
  BY <1>7 DEF TypeOK, Wake
<1>8. CASE Take
  BY <1>8, Zenon DEF TypeOK, Take
<1>9. CASE CloseOne
  <2>1. PICK fd \in s.batch : s' = [s EXCEPT !.batch = s.batch \ {fd},
                                             !.closed = s.closed \cup {fd}]
    BY <1>9, Zenon DEF CloseOne
  <2> QED
    BY <2>1, Zenon DEF TypeOK
<1>10. CASE BatchEnds
  BY <1>10 DEF TypeOK, BatchEnds
<1>11. CASE UNCHANGED s
  BY <1>11 DEF TypeOK
<1> QED
  BY <1>1, <1>2, <1>3, <1>4, <1>5, <1>6, <1>7, <1>8, <1>9, <1>10, <1>11 DEF Next, Destroyed

(* Every step of the producer, the worker and the destructor keeps the      *)
(* invariant.                                                               *)
LEMMA StepIInv == IInv /\ [Next \/ Destroyed]_s => IInv'
<1> SUFFICES ASSUME IInv, [Next \/ Destroyed]_s PROVE IInv'
  OBVIOUS
<1>0. TypeOK'
  BY StepTypeOK DEF IInv
<1> USE DEF IInv, TypeOK, NeverWokenForNothing, NoneForgotten, ClosedOnce, WakeupTells
<1>1. ASSUME NEW fds \in SUBSET Fds, CloseFds(fds) PROVE IInv'
  BY <1>1, Zenon DEF CloseFds, Seen
<1>2. CASE Queue
  <2>1. /\ s.pc = "counted" /\ s'.pc \in {"notify", "idle"}
        /\ s'.pc = "notify" <=> s.queue = {}
        /\ s'.queue = s.queue \cup s.fds /\ s'.fds = {}
        /\ s'.batch = s.batch /\ s'.closed = s.closed /\ s'.wakeup = s.wakeup
        /\ s'.stopping = s.stopping /\ s'.worker = s.worker /\ s'.last = s.last
    BY <1>2 DEF Queue, Queued
  <2> QED
    BY <1>0, <2>1
<1>3. CASE Notify
  <2>1. /\ s.pc = "notify" /\ s'.pc = "idle" /\ s'.wakeup = 1
        /\ s'.fds = s.fds /\ s'.queue = s.queue /\ s'.batch = s.batch
        /\ s'.closed = s.closed /\ s'.stopping = s.stopping
        /\ s'.worker = s.worker /\ s'.last = s.last
    BY <1>3 DEF Notify
  <2> QED
    BY <1>0, <2>1
<1>4. CASE Destroy
  BY <1>4, Zenon DEF Destroy
<1>5. CASE DestroyNotify
  BY <1>5, Zenon DEF DestroyNotify
<1>6. CASE Join
  BY <1>6 DEF Join
<1>7. CASE Wake
  BY <1>7 DEF Wake
<1>8. CASE Take
  <2>1. CASE s.queue # {}
    <3>1. /\ s.worker = "woken" /\ s'.worker = "closing" /\ s'.last = s.stopping
          /\ s'.batch = s.queue /\ s'.queue = {} /\ s'.wakeup = 0
          /\ s'.pc = s.pc /\ s'.fds = s.fds /\ s'.closed = s.closed
          /\ s'.stopping = s.stopping
      BY <1>8, <2>1, Zenon DEF Take
    <3> QED
      BY <1>0, <3>1
  <2>2. CASE s.queue = {}
    <3>1. s.stopping = 1 /\ s.worker = "woken" /\ s' = [s EXCEPT !.worker = "exited"]
      BY <1>8, <2>2 DEF Take
    <3> QED
      BY <2>2, <3>1
  <2> QED
    BY <2>1, <2>2
<1>9. CASE CloseOne
  <2>1. PICK fd \in s.batch : s' = [s EXCEPT !.batch = s.batch \ {fd},
                                             !.closed = s.closed \cup {fd}]
    BY <1>9, Zenon DEF CloseOne
  <2>2. /\ s.worker = "closing"
        /\ s'.batch = s.batch \ {fd} /\ s'.closed = s.closed \cup {fd}
        /\ s'.pc = s.pc /\ s'.fds = s.fds /\ s'.queue = s.queue /\ s'.wakeup = s.wakeup
        /\ s'.stopping = s.stopping /\ s'.worker = s.worker /\ s'.last = s.last
    BY <1>9, <2>1, Zenon DEF CloseOne
  <2> QED
    BY <1>0, <2>2
<1>10. CASE BatchEnds
  BY <1>10 DEF BatchEnds
<1>11. CASE UNCHANGED s
  BY <1>11
<1> QED
  BY <1>1, <1>2, <1>3, <1>4, <1>5, <1>6, <1>7, <1>8, <1>9, <1>10, <1>11, Zenon DEF Next, Destroyed

\* FdCloseQueue's worker never throws for an empty queue.
THEOREM WorkerNeverThrows == Spec => []NeverWokenForNothing
<1>1. IInv => NeverWokenForNothing
  BY DEF IInv
<1> QED
  BY <1>1, InitIInv, StepIInv, PTL DEF Spec

\* A queued descriptor always has its wake-up stored or about to be stored.
THEOREM WakeupNeverLost == Spec => []NoneForgotten
<1>1. IInv => NoneForgotten
  BY DEF IInv
<1> QED
  BY <1>1, InitIInv, StepIInv, PTL DEF Spec

\* Every descriptor is closed once, all of them before the queue is destroyed.
THEOREM EachClosedOnce == Spec => []ClosedOnce
<1>1. IInv => ClosedOnce
  BY DEF IInv
<1> QED
  BY <1>1, InitIInv, StepIInv, PTL DEF Spec

-----------------------------------------------------------------------------
(* DownloadLifecycle.  The inductive invariant, of a state t of the        *)
(* download so that it can be stated of the states between two steps of a  *)
(* call.                                                                   *)

LifeDelays == {"checked", "done", "partial", "restarted", "request", "disconnect"}

LifeState ==
  [open : BOOLEAN, active : BOOLEAN, listActive : BOOLEAN, filesOpen : BOOLEAN,
   allocated : BOOLEAN, bits : SUBSET Chunks, wanted : SUBSET Chunks, sized : BOOLEAN,
   selector : BOOLEAN, check : {"idle", "running", "quick", "waiting", "failed", "checked"},
   ranges : SUBSET Chunks, outstanding : SUBSET Chunks, hashing : SUBSET Chunks,
   delays : SUBSET LifeDelays, seeding : BOOLEAN, type : {"leech", "initial", "seed"},
   peers : {0, 1}, tracker : {"disabled", "enabled", "closed"}, opens : Nat,
   gone : BOOLEAN, thrown : BOOLEAN]

\* Closed means reset; DownloadMain's sizes are there while it is open.
OpenInv(t) ==
  /\ t.sized = t.open
  /\ ~t.open => ~t.active /\ ~t.selector /\ t.check = "idle" /\ t.delays = {}

\* Connections, and the tasks that act on them, only while active.
ActiveInv(t) ==
  /\ t.active => t.filesOpen /\ t.check = "checked"
  /\ ~t.active => /\ t.peers = 0 /\ ~t.listActive
                  /\ "request" \notin t.delays /\ "disconnect" \notin t.delays

\* What each phase of the hash check has established, and who is in the queue.
CheckInv(t) ==
  /\ t.check # "idle" => t.open /\ t.allocated
  /\ t.check = "checked" => t.selector
  /\ ("checked" \in t.delays) <=> (t.check \in {"waiting", "failed"})
  /\ t.outstanding # {} => t.check = "running"
  /\ t.hashing # {} => t.check = "checked"
  /\ "done" \in t.delays => t.check = "checked" /\ t.bits = Chunks

LifeInv(t) == t \in LifeState /\ ~t.thrown /\ OpenInv(t) /\ ActiveInv(t) /\ CheckInv(t)

LifeInvHolds == LifeInv(d)

\* What a call may rely on when it closes a stopped download: more than LifeInv
\* allows, as receive_initial_hash() closes one whose check is half undone.
Closable(t) ==
  /\ t \in LifeState /\ ~t.thrown /\ OpenInv(t) /\ ActiveInv(t) /\ ~t.active
  /\ ~t.open => t.outstanding = {} /\ t.hashing = {}

-----------------------------------------------------------------------------
(* Proofs.                                                                 *)

\* A consistent download that is not active can be closed.
LEMMA StoppedClosable ==
  ASSUME NEW t, LifeInv(t), ~t.active
  PROVE  Closable(t)
  BY DEF LifeInv, Closable, OpenInv, CheckInv

\* DownloadMain::stop() leaves a consistent download that is not active.
LEMMA MainStopInv ==
  ASSUME NEW t, LifeInv(t)
  PROVE  LifeInv(MainStop(t)) /\ ~MainStop(t).active
<1>1. CASE ~t.active
  BY <1>1 DEF MainStop
<1>2. CASE t.active
  <2> DEFINE u == MainStop(t)
  <2>1. u = [t EXCEPT !.active = FALSE, !.listActive = FALSE, !.peers = 0,
                      !.seeding = FALSE, !.delays = @ \ {"disconnect", "request"}]
    BY <1>2 DEF MainStop
  <2>2. t \in LifeState
    BY DEF LifeInv
  <2>3. u \in LifeState
    <3> DEFINE delays == t.delays \ {"disconnect", "request"}
    <3>1. delays \in SUBSET LifeDelays
      BY <2>2 DEF LifeState
    <3>2. u = [t EXCEPT !.active = FALSE, !.listActive = FALSE, !.peers = 0,
                        !.seeding = FALSE, !.delays = delays]
      BY <2>1
    <3> HIDE DEF delays, u
    <3> QED
      BY <3>1, <3>2, <2>2, ZenonT(60) DEF LifeState
  <2>4. /\ ~u.active /\ ~u.listActive /\ u.peers = 0
        /\ u.delays = t.delays \ {"disconnect", "request"}
        /\ u.thrown = t.thrown /\ u.open = t.open /\ u.sized = t.sized /\ u.selector = t.selector
        /\ u.check = t.check /\ u.allocated = t.allocated /\ u.bits = t.bits
        /\ u.outstanding = t.outstanding /\ u.hashing = t.hashing
    BY <2>1, <2>2 DEF LifeState
  <2> HIDE DEF u
  <2>5. LifeInv(u) /\ ~u.active
    BY <2>3, <2>4, <2>2 DEF LifeInv, OpenInv, ActiveInv, CheckInv, LifeState
  <2> QED
    BY <2>5 DEF u
<1> QED
  BY <1>1, <1>2 DEF LifeInv, LifeState

\* DownloadWrapper::close() ends the check, empties the queue, closes what is
\* below and drops the signals, in this order, and throws nothing.
LEMMA WrapperCloseInv ==
  ASSUME NEW t, Closable(t)
  PROVE  LifeInv(WrapperClose(t)) /\ ~WrapperClose(t).active
<1> DEFINE u1 == CheckerClear(t)
           u2 == QueueRemove(u1)
           u3 == MainClose(u2)
           u4 == [u3 EXCEPT !.delays = @ \ {"done", "partial", "restarted"}]
<1>0. t \in LifeState
  BY DEF Closable
<1>1. /\ u1 \in LifeState
      /\ u1.check = "idle" /\ u1.delays = t.delays \ {"checked"}
      /\ u1.outstanding = t.outstanding /\ u1.hashing = t.hashing /\ u1.open = t.open
      /\ u1.active = t.active /\ u1.thrown = t.thrown /\ u1.listActive = t.listActive
      /\ u1.peers = t.peers /\ u1.sized = t.sized /\ u1.selector = t.selector
      /\ u1.filesOpen = t.filesOpen
  BY <1>0, Zenon DEF CheckerClear, LifeState
<1> HIDE DEF u1
<1>2. /\ u2 \in LifeState
      /\ u2.outstanding = {} /\ u2.hashing = {} /\ ~u2.thrown
      /\ u2.check = "idle" /\ u2.delays = t.delays \ {"checked"} /\ u2.open = t.open
      /\ ~u2.active /\ ~u2.listActive
      /\ u2.peers = 0 /\ u2.sized = t.sized /\ u2.selector = t.selector
  <2> DEFINE ranges == u1.ranges \cup (IF Checking(u1) THEN u1.outstanding ELSE {})
             thrown == u1.thrown \/ (u1.outstanding \cup u1.hashing # {} /\ ~u1.open)
  <2>1. u2 = [u1 EXCEPT !.outstanding = {}, !.hashing = {}, !.ranges = ranges, !.thrown = thrown]
    BY DEF QueueRemove
  <2>2. ranges \in SUBSET Chunks
    BY <1>1 DEF LifeState
  <2>3. thrown = FALSE
    BY <1>1 DEF Closable
  <2> HIDE DEF ranges, thrown, u2
  <2>4. u2 \in LifeState
    BY <2>1, <2>2, <2>3, <1>1, ZenonT(60) DEF LifeState
  <2>5. /\ u2.outstanding = {} /\ u2.hashing = {} /\ u2.thrown = FALSE
        /\ u2.check = u1.check /\ u2.delays = u1.delays /\ u2.open = u1.open
        /\ u2.active = u1.active /\ u2.listActive = u1.listActive
        /\ u2.peers = u1.peers /\ u2.sized = u1.sized /\ u2.selector = u1.selector
    BY <2>1, <2>3, <1>1 DEF LifeState
  <2> QED
    BY <2>4, <2>5, <1>1 DEF Closable, ActiveInv
<1> HIDE DEF u2
<1>3. /\ u3 \in LifeState
      /\ u3.outstanding = {} /\ u3.hashing = {} /\ ~u3.thrown
      /\ u3.check = "idle" /\ u3.delays = t.delays \ {"checked"}
      /\ ~u3.open /\ ~u3.active /\ ~u3.listActive
      /\ u3.peers = 0 /\ ~u3.sized /\ ~u3.selector
  <2>1. CASE ~t.open
    <3>1. u3 = u2
      BY <2>1, <1>2 DEF MainClose
    <3> QED
      BY <3>1, <2>1, <1>2 DEF Closable, OpenInv, LifeState
  <2>2. CASE t.open
    <3>1. PICK allocated \in BOOLEAN, bits \in SUBSET Chunks :
            u3 = [u2 EXCEPT !.open = FALSE, !.sized = FALSE, !.selector = FALSE, !.filesOpen = FALSE,
                            !.allocated = allocated, !.bits = bits]
      <4>1. u3 = [u2 EXCEPT !.open = FALSE, !.sized = FALSE, !.selector = FALSE, !.filesOpen = FALSE,
                            !.allocated = u2.allocated /\ ~u2.filesOpen,
                            !.bits = IF u2.filesOpen THEN {} ELSE u2.bits]
        BY <2>2, <1>2 DEF MainClose
      <4>2. /\ (u2.allocated /\ ~u2.filesOpen) \in BOOLEAN
            /\ (IF u2.filesOpen THEN {} ELSE u2.bits) \in SUBSET Chunks
        BY <1>2 DEF LifeState
      <4> HIDE DEF u3
      <4> QED
        BY <4>1, <4>2, Zenon
    <3> HIDE DEF u3
    <3>2. u3 \in LifeState
      <4> DEFINE v == [u2 EXCEPT !.open = FALSE, !.sized = FALSE, !.selector = FALSE]
      <4>1. v \in LifeState
        BY <1>2, ZenonT(60) DEF LifeState
      <4>2. u3 = [v EXCEPT !.filesOpen = FALSE, !.allocated = allocated, !.bits = bits]
        BY <3>1
      <4> HIDE DEF v
      <4> QED
        BY <4>1, <4>2, ZenonT(60) DEF LifeState
    <3> QED
      BY <3>1, <3>2, <1>2 DEF LifeState
  <2> QED
    BY <2>1, <2>2
<1> HIDE DEF u3
<1>4. /\ u4 \in LifeState
      /\ u4.outstanding = {} /\ u4.hashing = {} /\ ~u4.thrown
      /\ u4.check = "idle" /\ ~u4.open /\ ~u4.active /\ ~u4.listActive
      /\ u4.peers = 0 /\ ~u4.sized /\ ~u4.selector
      /\ u4.delays = (t.delays \ {"checked"}) \ {"done", "partial", "restarted"}
  BY <1>3 DEF LifeState
<1>5. u4.delays = {}
  <2>1. t.delays \in SUBSET LifeDelays /\ "request" \notin t.delays /\ "disconnect" \notin t.delays
    BY DEF Closable, LifeState, ActiveInv
  <2> QED
    BY <2>1, <1>4 DEF LifeDelays
<1>6. WrapperClose(t) = u4
  BY DEF WrapperClose, u1, u2, u3
<1> HIDE DEF u4
<1> QED
  BY <1>4, <1>5, <1>6 DEF LifeInv, OpenInv, ActiveInv, CheckInv, LifeState

\* receive_storage_error() and download_remove() close what they have stopped.
LEMMA StopCloseInv ==
  ASSUME NEW t, LifeInv(t)
  PROVE  LifeInv(WrapperClose(MainStop(t))) /\ ~WrapperClose(MainStop(t)).active
  BY MainStopInv, StoppedClosable, WrapperCloseInv

\* The tracker's state takes no part in the invariant.
LEMMA SetTrackerInv ==
  ASSUME NEW t, LifeInv(t), NEW x \in {"disabled", "enabled", "closed"}
  PROVE  LET u == [t EXCEPT !.tracker = x] IN LifeInv(u) /\ u.active = t.active
<1> DEFINE u == [t EXCEPT !.tracker = x]
<1>1. t \in LifeState
  BY DEF LifeInv
<1>2. u \in LifeState
  BY <1>1 DEF LifeState
<1>3. /\ u.open = t.open /\ u.active = t.active /\ u.listActive = t.listActive
      /\ u.filesOpen = t.filesOpen /\ u.allocated = t.allocated /\ u.bits = t.bits
      /\ u.sized = t.sized /\ u.selector = t.selector /\ u.check = t.check
      /\ u.outstanding = t.outstanding /\ u.hashing = t.hashing /\ u.delays = t.delays
      /\ u.peers = t.peers /\ u.thrown = t.thrown
  BY <1>1 DEF LifeState
<1> HIDE DEF u
<1>4. LifeInv(u) /\ u.active = t.active
  BY <1>2, <1>3 DEF LifeInv, OpenInv, ActiveInv, CheckInv
<1> QED
  BY <1>4 DEF u

\* receive_storage_error().
LEMMA StorageErrorInv ==
  ASSUME NEW t, LifeInv(t)
  PROVE  LifeInv(StorageErrorOf(t))
  BY StopCloseInv, SetTrackerInv, Zenon DEF StorageErrorOf

\* Download::stop().
LEMMA StopInv ==
  ASSUME NEW t, LifeInv(t)
  PROVE  LifeInv(StopOf(t)) /\ ~StopOf(t).active
  BY MainStopInv, SetTrackerInv, Zenon DEF StopOf

\* receive_update_priorities() schedules a signal of an active download only.
LEMMA UpdatePrioritiesInv ==
  ASSUME NEW t, LifeInv(t), NEW wanted \in SUBSET Chunks
  PROVE  LifeInv(UpdatePriorities(t, wanted))
<1> DEFINE u == [t EXCEPT !.wanted = wanted]
           v == UpdatePriorities(t, wanted)
<1>0. t \in LifeState
  BY DEF LifeInv
<1>1. u \in LifeState
  BY <1>0 DEF LifeState
<1>2. /\ u.open = t.open /\ u.active = t.active /\ u.listActive = t.listActive
      /\ u.filesOpen = t.filesOpen /\ u.allocated = t.allocated /\ u.bits = t.bits
      /\ u.sized = t.sized /\ u.selector = t.selector /\ u.check = t.check
      /\ u.outstanding = t.outstanding /\ u.hashing = t.hashing /\ u.delays = t.delays
      /\ u.peers = t.peers /\ u.thrown = t.thrown
  BY <1>0 DEF LifeState
<1>3. \/ v = u
      \/ u.active /\ \E x \in {"partial", "restarted"} :
           v = [u EXCEPT !.delays = (@ \ {"partial", "restarted"}) \cup {x}]
  BY Zenon DEF UpdatePriorities
<1> HIDE DEF u, v
<1>4. CASE v = u
  BY <1>4, <1>1, <1>2 DEF LifeInv, OpenInv, ActiveInv, CheckInv, v
<1>5. ASSUME u.active, NEW x \in {"partial", "restarted"},
             v = [u EXCEPT !.delays = (@ \ {"partial", "restarted"}) \cup {x}]
      PROVE  LifeInv(v)
  <2> DEFINE delays == (u.delays \ {"partial", "restarted"}) \cup {x}
  <2>1. delays \in SUBSET LifeDelays
    BY <1>1 DEF LifeState, LifeDelays
  <2>2. \A y \in {"checked", "done", "request", "disconnect"} : y \in delays <=> y \in t.delays
    BY <1>2
  <2> HIDE DEF delays
  <2>3. v = [u EXCEPT !.delays = delays]
    BY <1>5 DEF delays
  <2>4. v \in LifeState
    BY <2>3, <2>1, <1>1 DEF LifeState
  <2>5. /\ v.open = u.open /\ v.active = u.active /\ v.listActive = u.listActive
        /\ v.filesOpen = u.filesOpen /\ v.allocated = u.allocated /\ v.bits = u.bits
        /\ v.sized = u.sized /\ v.selector = u.selector /\ v.check = u.check
        /\ v.outstanding = u.outstanding /\ v.hashing = u.hashing /\ v.delays = delays
        /\ v.peers = u.peers /\ v.thrown = u.thrown
    BY <2>3, <1>1 DEF LifeState
  <2> QED
    BY <1>5, <2>2, <2>4, <2>5, <1>2 DEF LifeInv, OpenInv, ActiveInv, CheckInv
<1> QED
  BY <1>3, <1>4, <1>5 DEF v

\* Download::open() of a closed download, and its failure.
LEMMA OpenInvStep ==
  ASSUME LifeInv(d), Open
  PROVE  LifeInv(d')
<1>0. d \in LifeState /\ ~d.open /\ d.opens + 1 \in Nat
  BY DEF LifeInv, Open, LifeState
<1>1. CASE d' = [d EXCEPT !.open = TRUE, !.sized = TRUE, !.filesOpen = TRUE,
                          !.ranges = Chunks, !.opens = @ + 1]
  <2>1. d' \in LifeState
    <3>1. PICK n \in Nat : d' = [d EXCEPT !.open = TRUE, !.sized = TRUE, !.filesOpen = TRUE,
                                          !.ranges = Chunks, !.opens = n]
      BY <1>0, <1>1, Zenon
    <3> QED
      BY <1>0, <3>1, Zenon DEF LifeState
  <2>2. /\ d'.open /\ d'.sized /\ d'.filesOpen /\ d'.active = d.active
        /\ d'.listActive = d.listActive /\ d'.selector = d.selector /\ d'.check = d.check
        /\ d'.outstanding = d.outstanding /\ d'.hashing = d.hashing /\ d'.delays = d.delays
        /\ d'.peers = d.peers /\ d'.thrown = d.thrown
    BY <1>0, <1>1 DEF LifeState
  <2> QED
    BY <1>0, <2>1, <2>2 DEF LifeInv, OpenInv, ActiveInv, CheckInv
<1>2. CASE d' = [d EXCEPT !.filesOpen = FALSE, !.opens = @ + 1]
  <2>1. d' \in LifeState
    <3>1. PICK n \in Nat : d' = [d EXCEPT !.filesOpen = FALSE, !.opens = n]
      BY <1>0, <1>2, Zenon
    <3> QED
      BY <1>0, <3>1, Zenon DEF LifeState
  <2>2. /\ d'.open = d.open /\ d'.sized = d.sized /\ d'.active = d.active
        /\ d'.listActive = d.listActive /\ d'.selector = d.selector /\ d'.check = d.check
        /\ d'.outstanding = d.outstanding /\ d'.hashing = d.hashing /\ d'.delays = d.delays
        /\ d'.peers = d.peers /\ d'.thrown = d.thrown
    BY <1>0, <1>2 DEF LifeState
  <2> QED
    BY <1>0, <2>1, <2>2 DEF LifeInv, OpenInv, ActiveInv, CheckInv
<1> QED
  BY <1>1, <1>2 DEF Open

\* Download::start() of a download whose hash is checked, and its failure.
LEMMA StartInv ==
  ASSUME LifeInv(d), Start
  PROVE  LifeInv(d')
<1>0. d \in LifeState /\ d.open /\ d.check = "checked" /\ d.allocated /\ d.selector /\ ~d.active
  BY DEF LifeInv, CheckInv, Start, Checked
<1>1. PICK seeding \in BOOLEAN, type \in {"leech", "initial", "seed"} :
        LET t == [d EXCEPT !.seeding = seeding, !.type = type] IN
        \/ d' = [t EXCEPT !.filesOpen = TRUE, !.active = TRUE, !.listActive = TRUE,
                          !.tracker = "enabled", !.thrown = @ \/ ~d.allocated]
        \/ d' = [t EXCEPT !.filesOpen = FALSE]
  <2> DEFINE seeds == d.type = "initial" /\ IsDone(d)
             seeding == d.seeding \/ seeds
             type == IF d.type = "initial" /\ ~seeds THEN "seed" ELSE d.type
  <2>1. seeding \in BOOLEAN /\ type \in {"leech", "initial", "seed"}
    BY <1>0 DEF LifeState
  <2>2. LET t == [d EXCEPT !.seeding = seeding, !.type = type] IN
        \/ d' = [t EXCEPT !.filesOpen = TRUE, !.active = TRUE, !.listActive = TRUE,
                          !.tracker = "enabled", !.thrown = @ \/ ~d.allocated]
        \/ d' = [t EXCEPT !.filesOpen = FALSE]
    BY DEF Start
  <2> HIDE DEF seeding, type
  <2> QED
    BY <2>1, <2>2, Zenon
<1> DEFINE t == [d EXCEPT !.seeding = seeding, !.type = type]
<1>2. t \in LifeState
  BY <1>0, Zenon DEF LifeState
<1>3. /\ t.open = d.open /\ t.active = d.active /\ t.listActive = d.listActive
      /\ t.filesOpen = d.filesOpen /\ t.allocated = d.allocated /\ t.bits = d.bits
      /\ t.sized = d.sized /\ t.selector = d.selector /\ t.check = d.check
      /\ t.outstanding = d.outstanding /\ t.hashing = d.hashing /\ t.delays = d.delays
      /\ t.peers = d.peers /\ t.thrown = d.thrown
  BY <1>0, Zenon DEF LifeState
<1> HIDE DEF t
<1>4. CASE d' = [t EXCEPT !.filesOpen = TRUE, !.active = TRUE, !.listActive = TRUE,
                          !.tracker = "enabled", !.thrown = @ \/ ~d.allocated]
  <2>1. d' = [t EXCEPT !.filesOpen = TRUE, !.active = TRUE, !.listActive = TRUE,
                       !.tracker = "enabled", !.thrown = FALSE]
    <3>1. (t.thrown \/ ~d.allocated) = FALSE
      BY <1>0, <1>3 DEF LifeInv
    <3> QED
      BY <3>1, <1>4, Zenon
  <2>2. d' \in LifeState
    BY <2>1, <1>2, Zenon DEF LifeState
  <2>3. /\ d'.filesOpen /\ d'.active /\ ~d'.thrown
        /\ d'.open = t.open /\ d'.allocated = t.allocated /\ d'.bits = t.bits
        /\ d'.sized = t.sized /\ d'.selector = t.selector /\ d'.check = t.check
        /\ d'.outstanding = t.outstanding /\ d'.hashing = t.hashing /\ d'.delays = t.delays
    BY <2>1, <1>2 DEF LifeState
  <2> QED
    BY <2>2, <2>3, <1>0, <1>3, Zenon DEF LifeInv, OpenInv, ActiveInv, CheckInv
<1>5. CASE d' = [t EXCEPT !.filesOpen = FALSE]
  <2>2. d' \in LifeState
    BY <1>5, <1>2, Zenon DEF LifeState
  <2>3. /\ d'.open = t.open /\ d'.active = t.active /\ d'.listActive = t.listActive
        /\ d'.allocated = t.allocated /\ d'.bits = t.bits
        /\ d'.sized = t.sized /\ d'.selector = t.selector /\ d'.check = t.check
        /\ d'.outstanding = t.outstanding /\ d'.hashing = t.hashing /\ d'.delays = t.delays
        /\ d'.peers = t.peers /\ d'.thrown = t.thrown
    BY <1>5, <1>2 DEF LifeState
  <2> QED
    BY <2>2, <2>3, <1>0, <1>3, Zenon DEF LifeInv, OpenInv, ActiveInv, CheckInv
<1> QED
  BY <1>1, <1>4, <1>5 DEF t

\* Download::hash_check() starts from an idle checker with nothing in the queue.
LEMMA HashCheckInv ==
  ASSUME LifeInv(d), NEW quick \in BOOLEAN, NEW there \in SUBSET Chunks, HashCheck(quick, there)
  PROVE  LifeInv(d')
<1>0. /\ d \in LifeState /\ d.open /\ d.sized /\ ~d.active /\ d.check = "idle" /\ ~d.thrown
      /\ d.outstanding = {} /\ d.hashing = {} /\ "checked" \notin d.delays /\ "done" \notin d.delays
      /\ d.peers = 0 /\ ~d.listActive /\ "request" \notin d.delays /\ "disconnect" \notin d.delays
  BY DEF LifeInv, OpenInv, ActiveInv, CheckInv, HashCheck, Checked
<1>1. PICK ranges \in SUBSET Chunks, bits \in SUBSET Chunks :
        LET t == [d EXCEPT !.allocated = TRUE, !.ranges = ranges, !.bits = bits]
            found == ranges \cap there
        IN \/ \E x \in {"waiting", "failed"} :
                d' = [t EXCEPT !.check = x, !.delays = @ \cup {"checked"}]
           \/ d' = [t EXCEPT !.check = "quick", !.ranges = {c \in ranges : \E first \in found : first <= c}]
           \/ d' = [t EXCEPT !.check = "running", !.outstanding = found]
  <2> DEFINE ranges == IF d.allocated THEN d.ranges ELSE Chunks
             bits == IF quick /\ d.allocated THEN d.bits ELSE d.bits \ ranges
             t == [d EXCEPT !.allocated = TRUE, !.ranges = ranges, !.bits = bits]
             found == ranges \cap there
  <2>1. ranges \in SUBSET Chunks
    BY <1>0 DEF LifeState
  <2>2. bits \in SUBSET Chunks
    BY <1>0 DEF LifeState
  <2>3. \/ \E x \in {"waiting", "failed"} :
             d' = [t EXCEPT !.check = x, !.delays = @ \cup {"checked"}]
        \/ d' = [t EXCEPT !.check = "quick", !.ranges = {c \in ranges : \E first \in found : first <= c}]
        \/ d' = [t EXCEPT !.check = "running", !.outstanding = found]
    BY Zenon DEF HashCheck
  <2> HIDE DEF ranges, bits
  <2> QED
    BY <2>1, <2>2, <2>3, Zenon
<1> DEFINE t == [d EXCEPT !.allocated = TRUE, !.ranges = ranges, !.bits = bits]
           found == ranges \cap there
<1>2. t \in LifeState
  BY <1>0, ZenonT(60) DEF LifeState
<1>3. /\ t.open = d.open /\ t.active = d.active /\ t.listActive = d.listActive
      /\ t.allocated /\ t.sized = d.sized /\ t.check = d.check
      /\ t.outstanding = d.outstanding /\ t.hashing = d.hashing /\ t.delays = d.delays
      /\ t.peers = d.peers /\ t.thrown = d.thrown
  BY <1>0, Zenon DEF LifeState
<1> HIDE DEF t
<1>4. ASSUME NEW x \in {"waiting", "failed"}, d' = [t EXCEPT !.check = x, !.delays = @ \cup {"checked"}]
      PROVE  LifeInv(d')
  <2> DEFINE delays == t.delays \cup {"checked"}
  <2>1. delays \in SUBSET LifeDelays
    BY <1>2 DEF LifeState, LifeDelays
  <2>2. /\ "checked" \in delays
        /\ \A y \in {"done", "request", "disconnect"} : y \notin delays
    BY <1>0, <1>3
  <2> HIDE DEF delays
  <2>3. d' = [t EXCEPT !.check = x, !.delays = delays]
    BY <1>4 DEF delays
  <2>4. d' \in LifeState
    BY <2>1, <2>3, <1>2, Zenon DEF LifeState
  <2>5. /\ d'.check = x /\ d'.delays = delays
        /\ d'.open = t.open /\ d'.active = t.active /\ d'.listActive = t.listActive
        /\ d'.allocated = t.allocated /\ d'.sized = t.sized
        /\ d'.outstanding = t.outstanding /\ d'.hashing = t.hashing
        /\ d'.peers = t.peers /\ d'.thrown = t.thrown
    BY <2>3, <1>2 DEF LifeState
  <2> QED
    BY <2>2, <2>4, <2>5, <1>0, <1>3 DEF LifeInv, OpenInv, ActiveInv, CheckInv
<1>5. CASE d' = [t EXCEPT !.check = "quick", !.ranges = {c \in ranges : \E first \in found : first <= c}]
  <2>1. PICK left \in SUBSET Chunks : d' = [t EXCEPT !.check = "quick", !.ranges = left]
    <3>1. {c \in ranges : \E first \in found : first <= c} \in SUBSET Chunks
      OBVIOUS
    <3> QED
      BY <3>1, <1>5, Zenon
  <2>2. d' \in LifeState
    BY <2>1, <1>2, Zenon DEF LifeState
  <2>3. /\ d'.check = "quick" /\ d'.delays = t.delays
        /\ d'.open = t.open /\ d'.active = t.active /\ d'.listActive = t.listActive
        /\ d'.allocated = t.allocated /\ d'.sized = t.sized
        /\ d'.outstanding = t.outstanding /\ d'.hashing = t.hashing
        /\ d'.peers = t.peers /\ d'.thrown = t.thrown
    BY <2>1, <1>2 DEF LifeState
  <2> QED
    BY <2>2, <2>3, <1>0, <1>3 DEF LifeInv, OpenInv, ActiveInv, CheckInv
<1>6. CASE d' = [t EXCEPT !.check = "running", !.outstanding = found]
  <2>1. found \in SUBSET Chunks
    OBVIOUS
  <2> HIDE DEF found
  <2>2. d' \in LifeState
    BY <2>1, <1>6, <1>2, Zenon DEF LifeState
  <2>3. /\ d'.check = "running" /\ d'.delays = t.delays
        /\ d'.open = t.open /\ d'.active = t.active /\ d'.listActive = t.listActive
        /\ d'.allocated = t.allocated /\ d'.sized = t.sized /\ d'.hashing = t.hashing
        /\ d'.peers = t.peers /\ d'.thrown = t.thrown
    BY <1>6, <1>2 DEF LifeState
  <2> QED
    BY <2>2, <2>3, <1>0, <1>3 DEF LifeInv, OpenInv, ActiveInv, CheckInv
<1> QED
  BY <1>1, <1>4, <1>5, <1>6 DEF t

\* Download::hash_stop() takes the chunks of the check out of the queue.
LEMMA HashStopInv ==
  ASSUME LifeInv(d), HashStop
  PROVE  LifeInv(d')
<1>0. /\ d \in LifeState /\ d.open /\ ~d.active /\ d.hashing = {} /\ "done" \notin d.delays
      /\ ~d.thrown
  BY DEF LifeInv, OpenInv, ActiveInv, CheckInv, HashStop, Checking
<1> DEFINE t == [d EXCEPT !.ranges = IF d.check = "quick" THEN @ ELSE {}]
           u == QueueRemove(t)
<1>1. /\ t \in LifeState
      /\ t.open = d.open /\ t.active = d.active /\ t.listActive = d.listActive
      /\ t.allocated = d.allocated /\ t.sized = d.sized /\ t.check = d.check
      /\ t.outstanding = d.outstanding /\ t.hashing = d.hashing /\ t.delays = d.delays
      /\ t.peers = d.peers /\ t.thrown = d.thrown
  <2>1. PICK ranges \in SUBSET Chunks : t = [d EXCEPT !.ranges = ranges]
    <3>1. (IF d.check = "quick" THEN d.ranges ELSE {}) \in SUBSET Chunks
      BY <1>0 DEF LifeState
    <3> QED
      BY <3>1, Zenon
  <2> QED
    BY <2>1, <1>0, Zenon DEF LifeState
<1>2. d' = CheckerClear(u)
  BY DEF HashStop
<1> HIDE DEF t
<1>3. /\ u \in LifeState /\ u.outstanding = {} /\ u.hashing = {} /\ ~u.thrown
      /\ u.open = t.open /\ u.active = t.active /\ u.listActive = t.listActive
      /\ u.allocated = t.allocated /\ u.sized = t.sized
      /\ u.delays = t.delays /\ u.peers = t.peers
  <2>1. PICK ranges \in SUBSET Chunks :
          u = [t EXCEPT !.outstanding = {}, !.hashing = {}, !.ranges = ranges, !.thrown = FALSE]
    <3>1. t.ranges \cup (IF Checking(t) THEN t.outstanding ELSE {}) \in SUBSET Chunks
      BY <1>1 DEF LifeState
    <3>2. (t.thrown \/ (t.outstanding \cup t.hashing # {} /\ ~t.open)) = FALSE
      BY <1>0, <1>1
    <3> QED
      BY <3>1, <3>2, Zenon DEF QueueRemove
  <2> HIDE DEF u
  <2>2. u \in LifeState
    BY <2>1, <1>1, ZenonT(60) DEF LifeState
  <2> QED
    BY <2>1, <2>2, <1>1 DEF LifeState
<1> HIDE DEF u
<1>4. d' = [u EXCEPT !.check = "idle", !.delays = @ \ {"checked"}]
  BY <1>2 DEF CheckerClear
<1>5. d' \in LifeState
  BY <1>3, <1>4, Zenon DEF LifeState
<1>6. /\ d'.check = "idle" /\ d'.delays = u.delays \ {"checked"}
      /\ d'.open = u.open /\ d'.active = u.active /\ d'.listActive = u.listActive
      /\ d'.allocated = u.allocated /\ d'.sized = u.sized
      /\ d'.outstanding = u.outstanding /\ d'.hashing = u.hashing
      /\ d'.peers = u.peers /\ d'.thrown = u.thrown
  BY <1>3, <1>4 DEF LifeState
<1> QED
  BY <1>0, <1>1, <1>3, <1>5, <1>6, ZenonT(60) DEF LifeInv, OpenInv, ActiveInv, CheckInv

\* Download::set_bitfield(), which the signal of completion does not wait for.
LEMMA SetBitfieldInv ==
  ASSUME LifeInv(d), NEW bits \in {{}, {0}, Chunks}, SetBitfield(bits)
  PROVE  LifeInv(d')
<1>0. d \in LifeState /\ d.check # "checked" /\ bits \in SUBSET Chunks
  BY ChunksAssumption DEF LifeInv, OpenInv, SetBitfield, Checked
<1>1. d' = [d EXCEPT !.allocated = TRUE, !.bits = bits, !.ranges = {}]
  BY DEF SetBitfield
<1>2. d' \in LifeState
  BY <1>0, <1>1, Zenon DEF LifeState
<1>3. /\ d'.open = d.open /\ d'.active = d.active /\ d'.listActive = d.listActive
      /\ d'.filesOpen = d.filesOpen /\ d'.allocated
      /\ d'.sized = d.sized /\ d'.selector = d.selector /\ d'.check = d.check
      /\ d'.outstanding = d.outstanding /\ d'.hashing = d.hashing /\ d'.delays = d.delays
      /\ d'.peers = d.peers /\ d'.thrown = d.thrown
  BY <1>0, <1>1 DEF LifeState
<1> QED
  BY <1>0, <1>2, <1>3 DEF LifeInv, OpenInv, ActiveInv, CheckInv

\* Download::set_connection_type().
LEMMA SetConnectionTypeInv ==
  ASSUME LifeInv(d), NEW type \in {"leech", "initial"}, SetConnectionType(type)
  PROVE  LifeInv(d')
<1>0. d \in LifeState /\ d' = [d EXCEPT !.type = type]
  BY DEF LifeInv, SetConnectionType
<1>1. d' \in LifeState
  BY <1>0 DEF LifeState
<1>2. /\ d'.open = d.open /\ d'.active = d.active /\ d'.listActive = d.listActive
      /\ d'.filesOpen = d.filesOpen /\ d'.allocated = d.allocated /\ d'.bits = d.bits
      /\ d'.sized = d.sized /\ d'.selector = d.selector /\ d'.check = d.check
      /\ d'.outstanding = d.outstanding /\ d'.hashing = d.hashing /\ d'.delays = d.delays
      /\ d'.peers = d.peers /\ d'.thrown = d.thrown
  BY <1>0 DEF LifeState
<1> QED
  BY <1>1, <1>2 DEF LifeInv, OpenInv, ActiveInv, CheckInv

\* receive_chunkdone(): the last chunk of the check schedules its end.
LEMMA CheckAnswerInv ==
  ASSUME LifeInv(d), NEW c \in Chunks, NEW ok \in BOOLEAN, CheckAnswer(c, ok)
  PROVE  LifeInv(d')
<1>0. /\ d \in LifeState /\ d.open /\ d.check = "running" /\ ~d.active /\ d.hashing = {}
      /\ "done" \notin d.delays /\ "checked" \notin d.delays /\ ~d.thrown
  BY DEF LifeInv, OpenInv, ActiveInv, CheckInv, CheckAnswer
<1> DEFINE t == [d EXCEPT !.outstanding = @ \ {c}, !.bits = IF ok THEN @ \cup {c} ELSE @,
                          !.thrown = @ \/ ~d.open \/ d.check # "running"]
<1>1. d' = IF t.outstanding # {} THEN t
           ELSE [t EXCEPT !.check = "waiting", !.delays = @ \cup {"checked"}]
  BY DEF CheckAnswer
<1>2. PICK bits \in SUBSET Chunks, outstanding \in SUBSET Chunks :
        t = [d EXCEPT !.outstanding = outstanding, !.bits = bits, !.thrown = FALSE]
  <2>1. (IF ok THEN d.bits \cup {c} ELSE d.bits) \in SUBSET Chunks
    BY <1>0 DEF LifeState
  <2>2. d.outstanding \ {c} \in SUBSET Chunks
    BY <1>0 DEF LifeState
  <2>3. (d.thrown \/ ~d.open \/ d.check # "running") = FALSE
    BY <1>0
  <2> QED
    BY <2>1, <2>2, <2>3, Zenon
<1> HIDE DEF t
<1>3. t \in LifeState
  BY <1>0, <1>2, Zenon DEF LifeState
<1>4. /\ t.open = d.open /\ t.active = d.active /\ t.listActive = d.listActive
      /\ t.filesOpen = d.filesOpen /\ t.allocated = d.allocated
      /\ t.sized = d.sized /\ t.selector = d.selector /\ t.check = d.check
      /\ t.hashing = d.hashing /\ t.delays = d.delays /\ t.peers = d.peers /\ ~t.thrown
  BY <1>0, <1>2, Zenon DEF LifeState
<1>5. CASE t.outstanding # {}
  <2>1. d' = t
    BY <1>1, <1>5
  <2> QED
    BY <2>1, <1>0, <1>3, <1>4, Zenon DEF LifeInv, OpenInv, ActiveInv, CheckInv
<1>6. CASE t.outstanding = {}
  <2> DEFINE delays == t.delays \cup {"checked"}
  <2>1. delays \in SUBSET LifeDelays
    BY <1>3 DEF LifeState, LifeDelays
  <2>2. /\ "checked" \in delays
        /\ \A y \in {"done", "request", "disconnect"} : y \in delays <=> y \in d.delays
    BY <1>4
  <2> HIDE DEF delays
  <2>3. d' = [t EXCEPT !.check = "waiting", !.delays = delays]
    BY <1>1, <1>6 DEF delays
  <2>4. d' \in LifeState
    BY <2>1, <2>3, <1>3, Zenon DEF LifeState
  <2>5. /\ d'.check = "waiting" /\ d'.delays = delays
        /\ d'.open = t.open /\ d'.active = t.active /\ d'.listActive = t.listActive
        /\ d'.allocated = t.allocated /\ d'.sized = t.sized
        /\ d'.outstanding = t.outstanding /\ d'.hashing = t.hashing
        /\ d'.peers = t.peers /\ d'.thrown = t.thrown
    BY <2>3, <1>3 DEF LifeState
  <2> QED
    BY <2>2, <2>4, <2>5, <1>0, <1>4, <1>6, Zenon DEF LifeInv, OpenInv, ActiveInv, CheckInv
<1> QED
  BY <1>5, <1>6

\* receive_initial_hash(): the check is confirmed, or its error closes the download.
LEMMA InitialHashInv ==
  ASSUME LifeInv(d), InitialHash
  PROVE  LifeInv(d')
<1>0. /\ d \in LifeState /\ d.open /\ d.sized /\ d.check \in {"waiting", "failed"} /\ ~d.active
      /\ d.outstanding = {} /\ d.hashing = {} /\ ~d.thrown /\ d.allocated
      /\ "done" \notin d.delays
  BY DEF LifeInv, OpenInv, ActiveInv, CheckInv, InitialHash
<1> DEFINE t == [d EXCEPT !.delays = @ \ {"checked"}, !.thrown = @ \/ d.active]
<1>1. d' = IF ~Checking(d) THEN StorageErrorOf(t)
           ELSE UpdatePriorities([t EXCEPT !.check = "checked", !.selector = TRUE,
                                           !.thrown = @ \/ d.outstanding \cup d.hashing # {}], d.wanted)
  BY DEF InitialHash
<1>2. /\ t \in LifeState
      /\ t.open = d.open /\ t.active = d.active /\ t.listActive = d.listActive
      /\ t.filesOpen = d.filesOpen /\ t.allocated = d.allocated
      /\ t.sized = d.sized /\ t.selector = d.selector /\ t.check = d.check
      /\ t.outstanding = d.outstanding /\ t.hashing = d.hashing
      /\ t.delays = d.delays \ {"checked"} /\ t.peers = d.peers /\ ~t.thrown
  <2>1. t = [d EXCEPT !.delays = @ \ {"checked"}, !.thrown = FALSE]
    <3>1. (d.thrown \/ d.active) = FALSE
      BY <1>0
    <3> QED
      BY <3>1, Zenon
  <2> HIDE DEF t
  <2> QED
    BY <2>1, <1>0, Zenon DEF LifeState
<1> HIDE DEF t
<1>3. CASE ~Checking(d)
  <2>1. MainStop(t) = t
    BY <1>0, <1>2 DEF MainStop
  <2>2. Closable(t)
    BY <1>0, <1>2 DEF Closable, LifeInv, OpenInv, ActiveInv
  <2>3. LifeInv(WrapperClose(t))
    BY <2>2, WrapperCloseInv
  <2> QED
    BY <1>1, <1>3, <2>1, <2>3, SetTrackerInv, Zenon DEF StorageErrorOf
<1>4. CASE Checking(d)
  <2> DEFINE u == [t EXCEPT !.check = "checked", !.selector = TRUE, !.thrown = FALSE]
  <2>1. d' = UpdatePriorities(u, d.wanted)
    <3>1. (t.thrown \/ d.outstanding \cup d.hashing # {}) = FALSE
      BY <1>0, <1>2
    <3> QED
      BY <3>1, <1>1, <1>4, Zenon
  <2>2. u \in LifeState
    BY <1>2, Zenon DEF LifeState
  <2>3. /\ u.check = "checked" /\ u.selector /\ ~u.thrown
        /\ u.open = t.open /\ u.active = t.active /\ u.listActive = t.listActive
        /\ u.allocated = t.allocated /\ u.sized = t.sized
        /\ u.outstanding = t.outstanding /\ u.hashing = t.hashing
        /\ u.delays = t.delays /\ u.peers = t.peers
    BY <1>2 DEF LifeState
  <2> HIDE DEF u
  <2>4. LifeInv(u)
    BY <2>2, <2>3, <1>0, <1>2 DEF LifeInv, OpenInv, ActiveInv, CheckInv
  <2>5. d.wanted \in SUBSET Chunks
    BY <1>0, SMTT(60) DEF LifeState
  <2> QED
    BY <2>1, <2>4, <2>5, UpdatePrioritiesInv
<1> QED
  BY <1>3, <1>4

\* receive_chunk_done() finds an initialized selector.
LEMMA ChunkDoneInv ==
  ASSUME LifeInv(d), NEW c \in Chunks, ChunkDone(c)
  PROVE  LifeInv(d')
<1>0. d \in LifeState /\ d.active /\ d.check = "checked" /\ d.selector /\ ~d.thrown
  BY DEF LifeInv, ActiveInv, CheckInv, ChunkDone
<1>1. PICK hashing \in SUBSET Chunks : d' = [d EXCEPT !.hashing = hashing, !.thrown = FALSE]
  <2>1. d.hashing \cup {c} \in SUBSET Chunks
    BY <1>0 DEF LifeState
  <2>2. (d.thrown \/ ~d.selector) = FALSE
    BY <1>0
  <2> QED
    BY <2>1, <2>2, Zenon DEF ChunkDone
<1>2. d' \in LifeState
  BY <1>0, <1>1, Zenon DEF LifeState
<1>3. /\ d'.open = d.open /\ d'.active = d.active /\ d'.listActive = d.listActive
      /\ d'.filesOpen = d.filesOpen /\ d'.allocated = d.allocated /\ d'.bits = d.bits
      /\ d'.sized = d.sized /\ d'.selector = d.selector /\ d'.check = d.check
      /\ d'.outstanding = d.outstanding /\ d'.delays = d.delays
      /\ d'.peers = d.peers /\ ~d'.thrown
  BY <1>0, <1>1, Zenon DEF LifeState
<1> QED
  BY <1>0, <1>2, <1>3 DEF LifeInv, OpenInv, ActiveInv, CheckInv

\* receive_hash_done() of a downloaded chunk, also after a stop: the signal of
\* completion is scheduled only when every chunk is there.
LEMMA HashDoneInv ==
  ASSUME LifeInv(d), NEW c \in Chunks, NEW ok \in BOOLEAN, HashDone(c, ok)
  PROVE  LifeInv(d')
<1>0. /\ d \in LifeState /\ d.open /\ d.sized /\ d.check = "checked" /\ ~d.thrown
      /\ d.outstanding = {}
  BY DEF LifeInv, OpenInv, CheckInv, HashDone
<1> DEFINE t == [d EXCEPT !.hashing = @ \ {c}, !.bits = IF ok THEN @ \cup {c} ELSE @,
                          !.thrown = @ \/ ~d.open \/ Checking(d) \/ ~Checked(d)]
<1>1. \/ IsDone(t) /\ d' = [t EXCEPT !.delays = @ \cup {"done"}]
      \/ d' = [t EXCEPT !.delays = (@ \ {"restarted"}) \cup {"partial"}]
      \/ d' = t
  BY Zenon DEF HashDone, Finished
<1>2. PICK hashing \in SUBSET Chunks, bits \in SUBSET Chunks :
        /\ t = [d EXCEPT !.hashing = hashing, !.bits = bits, !.thrown = FALSE]
        /\ d.bits \subseteq bits
  <2>1. d.hashing \ {c} \in SUBSET Chunks
    BY <1>0 DEF LifeState
  <2>2. /\ (IF ok THEN d.bits \cup {c} ELSE d.bits) \in SUBSET Chunks
        /\ d.bits \subseteq (IF ok THEN d.bits \cup {c} ELSE d.bits)
    BY <1>0 DEF LifeState
  <2>3. (d.thrown \/ ~d.open \/ Checking(d) \/ ~Checked(d)) = FALSE
    BY <1>0 DEF Checking, Checked
  <2> QED
    BY <2>1, <2>2, <2>3, Zenon
<1> HIDE DEF t
<1>3. t \in LifeState
  BY <1>0, <1>2, Zenon DEF LifeState
<1>4. /\ t.open = d.open /\ t.active = d.active /\ t.listActive = d.listActive
      /\ t.filesOpen = d.filesOpen /\ t.allocated = d.allocated /\ t.bits = bits
      /\ t.sized = d.sized /\ t.selector = d.selector /\ t.check = d.check
      /\ t.outstanding = d.outstanding /\ t.delays = d.delays
      /\ t.peers = d.peers /\ ~t.thrown
  BY <1>0, <1>2, Zenon DEF LifeState
<1>5. "done" \in d.delays => t.bits = Chunks
  BY <1>2, <1>4 DEF LifeInv, CheckInv
<1>6. ASSUME NEW delays \in SUBSET LifeDelays, d' = [t EXCEPT !.delays = delays],
             \A y \in {"checked", "request", "disconnect"} : y \in delays <=> y \in d.delays,
             "done" \in delays => t.bits = Chunks
      PROVE  LifeInv(d')
  <2>1. d' \in LifeState
    BY <1>6, <1>3 DEF LifeState
  <2>2. /\ d'.open = t.open /\ d'.active = t.active /\ d'.listActive = t.listActive
        /\ d'.filesOpen = t.filesOpen /\ d'.allocated = t.allocated /\ d'.bits = t.bits
        /\ d'.sized = t.sized /\ d'.selector = t.selector /\ d'.check = t.check
        /\ d'.outstanding = t.outstanding /\ d'.delays = delays
        /\ d'.peers = t.peers /\ d'.thrown = t.thrown
    BY <1>6, <1>3 DEF LifeState
  <2> QED
    BY <1>6, <2>1, <2>2, <1>0, <1>4, ZenonT(60) DEF LifeInv, OpenInv, ActiveInv, CheckInv
<1>7. CASE IsDone(t) /\ d' = [t EXCEPT !.delays = @ \cup {"done"}]
  <2>1. t.delays \cup {"done"} \in SUBSET LifeDelays
    BY <1>3 DEF LifeState, LifeDelays
  <2> QED
    BY <2>1, <1>4, <1>6, <1>7 DEF IsDone
<1>8. CASE d' = [t EXCEPT !.delays = (@ \ {"restarted"}) \cup {"partial"}]
  <2>1. (t.delays \ {"restarted"}) \cup {"partial"} \in SUBSET LifeDelays
    BY <1>3, SMTT(60) DEF LifeState, LifeDelays
  <2> QED
    BY <2>1, <1>4, <1>5, <1>6, <1>8, Zenon
<1>9. CASE d' = t
  BY <1>9, <1>0, <1>3, <1>4, <1>5 DEF LifeInv, OpenInv, ActiveInv, CheckInv
<1> QED
  BY <1>1, <1>7, <1>8, <1>9

\* New connections, the answers of trackers and the entries that fire.
LEMMA DelaysInv ==
  ASSUME LifeInv(d), NEW delays \in SUBSET LifeDelays, NEW peers \in {0, 1},
         d' = [d EXCEPT !.delays = delays, !.peers = peers],
         ~d.active => peers = 0 /\ delays \subseteq d.delays,
         "checked" \in delays <=> "checked" \in d.delays,
         "done" \in delays => "done" \in d.delays
  PROVE  LifeInv(d')
<1>0. d \in LifeState
  BY DEF LifeInv
<1>1. d' \in LifeState
  BY <1>0, Zenon DEF LifeState
<1>2. /\ d'.open = d.open /\ d'.active = d.active /\ d'.listActive = d.listActive
      /\ d'.filesOpen = d.filesOpen /\ d'.allocated = d.allocated /\ d'.bits = d.bits
      /\ d'.sized = d.sized /\ d'.selector = d.selector /\ d'.check = d.check
      /\ d'.outstanding = d.outstanding /\ d'.hashing = d.hashing /\ d'.delays = delays
      /\ d'.peers = peers /\ d'.thrown = d.thrown
  BY <1>0 DEF LifeState
<1> QED
  BY <1>1, <1>2 DEF LifeInv, OpenInv, ActiveInv, CheckInv

\* download_remove(): the destructors find nothing scheduled and no connection.
LEMMA RemoveInv ==
  ASSUME LifeInv(d), Remove
  PROVE  LifeInv(d')
<1> DEFINE t == WrapperClose(MainStop(d))
<1>1. LifeInv(t) /\ ~t.active
  BY StopCloseInv
<1>2. d' = [t EXCEPT !.gone = TRUE, !.tracker = "closed",
                     !.thrown = @ \/ "request" \in t.delays \/ t.peers # 0]
  BY DEF Remove
<1> HIDE DEF t
<1>3. t \in LifeState /\ (t.thrown \/ "request" \in t.delays \/ t.peers # 0) = FALSE
  BY <1>1 DEF LifeInv, ActiveInv
<1>4. d' = [t EXCEPT !.gone = TRUE, !.tracker = "closed", !.thrown = FALSE]
  BY <1>2, <1>3, Zenon
<1>5. d' \in LifeState
  BY <1>3, <1>4, ZenonT(60) DEF LifeState
<1>6. /\ d'.open = t.open /\ d'.active = t.active /\ d'.listActive = t.listActive
      /\ d'.filesOpen = t.filesOpen /\ d'.allocated = t.allocated /\ d'.bits = t.bits
      /\ d'.sized = t.sized /\ d'.selector = t.selector /\ d'.check = t.check
      /\ d'.outstanding = t.outstanding /\ d'.hashing = t.hashing /\ d'.delays = t.delays
      /\ d'.peers = t.peers /\ ~d'.thrown
  BY <1>3, <1>4 DEF LifeState
<1> QED
  BY <1>1, <1>5, <1>6 DEF LifeInv, OpenInv, ActiveInv, CheckInv

\* A download that was just added satisfies the invariant.
LEMMA InitLifeInv == LifeInit => LifeInv(d)
<1> SUFFICES ASSUME LifeInit PROVE LifeInv(d)
  OBVIOUS
<1>1. d \in LifeState
  BY DEF LifeInit, Fresh, LifeState
<1> QED
  BY <1>1 DEF LifeInit, Fresh, LifeInv, OpenInv, ActiveInv, CheckInv

\* Every call and every event keeps the invariant.
LEMMA StepLifeInv == LifeInv(d) /\ [LifeNext]_d => LifeInv(d')
<1> SUFFICES ASSUME LifeInv(d), [LifeNext]_d PROVE LifeInv(d')
  OBVIOUS
<1>1. CASE Open
  BY <1>1, OpenInvStep
<1>2. CASE Close
  BY <1>2, StopInv, StoppedClosable, WrapperCloseInv DEF Close
<1>3. CASE Start
  BY <1>3, StartInv
<1>4. CASE Stop
  BY <1>4, StopInv DEF Stop
<1>5. CASE HashStop
  BY <1>5, HashStopInv
<1>6. CASE SyncFails
  BY <1>6, StorageErrorInv DEF SyncFails
<1>7. CASE Remove
  BY <1>7, RemoveInv
<1>8. CASE \E quick \in BOOLEAN, there \in SUBSET Chunks : HashCheck(quick, there)
  BY <1>8, HashCheckInv
<1>9. CASE \E bits \in {{}, {0}, Chunks} : SetBitfield(bits)
  BY <1>9, SetBitfieldInv
<1>10. CASE \E wanted \in {{}, {0}, Chunks} : SetPriorities(wanted)
  <2>1. \A wanted \in {{}, {0}, Chunks} : wanted \in SUBSET Chunks
    BY ChunksAssumption
  <2> QED
    BY <1>10, <2>1, UpdatePrioritiesInv DEF SetPriorities
<1>11. CASE \E type \in {"leech", "initial"} : SetConnectionType(type)
  BY <1>11, SetConnectionTypeInv
<1>12. CASE \E c \in Chunks, ok \in BOOLEAN : CheckAnswer(c, ok) \/ HashDone(c, ok)
  BY <1>12, CheckAnswerInv, HashDoneInv
<1>13. CASE \E c \in Chunks : ChunkDone(c)
  BY <1>13, ChunkDoneInv
<1>14. CASE InitialHash
  BY <1>14, InitialHashInv
<1>15. CASE Connect
  <2>1. d.delays \cup {"disconnect"} \in SUBSET LifeDelays
    BY DEF LifeInv, LifeState, LifeDelays
  <2>2. d' = [d EXCEPT !.delays = d.delays \cup {"disconnect"}, !.peers = 1] /\ d.active
    BY <1>15 DEF Connect
  <2> QED
    BY <2>1, <2>2, DelaysInv, Zenon
<1>16. CASE TrackerSuccess
  <2> DEFINE delays == IF d.active THEN d.delays \cup {"request"} ELSE d.delays
  <2>1. delays \in SUBSET LifeDelays /\ d.peers \in {0, 1} /\ (~d.active => d.peers = 0)
    BY DEF LifeInv, ActiveInv, LifeState, LifeDelays
  <2>2. d' = [d EXCEPT !.delays = delays, !.peers = d.peers]
    BY <1>16, Zenon DEF TrackerSuccess, LifeInv, LifeState
  <2> QED
    BY <2>1, <2>2, DelaysInv, Zenon
<1>17. ASSUME NEW delay \in {"done", "partial", "restarted", "request", "disconnect"}, Fires(delay)
       PROVE  LifeInv(d')
  <2> DEFINE peers == IF delay = "disconnect" THEN 0 ELSE d.peers
  <2>1. /\ d.delays \ {delay} \in SUBSET LifeDelays
        /\ peers \in {0, 1} /\ (~d.active => peers = 0)
    BY DEF LifeInv, ActiveInv, LifeState
  <2>2. d' = [d EXCEPT !.delays = d.delays \ {delay}, !.peers = peers]
    BY <1>17 DEF Fires
  <2> HIDE DEF peers
  <2> QED
    BY <2>1, <2>2, DelaysInv, Zenon
<1>18. CASE UNCHANGED d
  BY <1>18
<1> QED
  BY <1>1, <1>2, <1>3, <1>4, <1>5, <1>6, <1>7, <1>8, <1>9, <1>10, <1>11, <1>12, <1>13,
     <1>14, <1>15, <1>16, <1>17, <1>18 DEF LifeNext

\* Whatever the order of the client's calls, the storage errors, the hashes and the
\* delayed entries: a closed download keeps nothing, a stopped one is quiet, a
\* signal to come is true, an active download is ready, and none of the internal
\* errors of the life cycle is thrown, for any number of chunks.
THEOREM LifeIsConsistent == LifeSpec => []DownloadIsConsistent
<1>1. LifeInv(d) => DownloadIsConsistent
  BY DEF LifeInv, OpenInv, ActiveInv, CheckInv, DownloadIsConsistent, NoInternalError,
         ClosedIsReset, StoppedIsQuiet, DoneIsTrue, ActiveIsReady, IsDone, Checked
<1>2. LifeInit => LifeInvHolds
  BY InitLifeInv DEF LifeInvHolds
<1>3. LifeInvHolds /\ [LifeNext]_d => LifeInvHolds'
  BY StepLifeInv DEF LifeInvHolds
<1>4. LifeInvHolds => DownloadIsConsistent
  BY <1>1 DEF LifeInvHolds
<1> QED
  BY <1>2, <1>3, <1>4, PTL DEF LifeSpec


-----------------------------------------------------------------------------
(* ResumeData.  The inductive invariant.                                   *)

Marks == {0, ToCreate, NotCreated, Unreliable, Downloading}

ResumeState ==
  [up : BOOLEAN, checked : BOOLEAN, active : BOOLEAN, bits : SUBSET Indices,
   recheck : SUBSET Indices, good : SUBSET Indices, disk : SUBSET Indices,
   recent : SUBSET Indices, crashes : Nat,
   create : [Files -> BOOLEAN], exists : [Files -> BOOLEAN], sized : [Files -> BOOLEAN],
   writes : [Files -> Nat], mtime : [Files -> Nat], diskTime : [Files -> Nat],
   saved : BOOLEAN,
   obj : [bits : SUBSET Indices, mtime : [Files -> Marks \cup Nat], uncertain : SUBSET Indices]]

\* A session has claimed only what is good and in files that are there; what is not
\* recent of it is on the disk.
SessionInv(t) ==
  /\ t.disk \subseteq t.good /\ t.recent \subseteq t.bits
  /\ t.bits \subseteq t.good /\ t.bits \ t.recent \subseteq t.disk
  /\ t.active => t.checked
  /\ t.checked => t.up
  /\ ~t.checked => t.disk = t.good /\ t.recent = {}
  /\ ~t.up => t.bits = {}
  /\ t.active => \A f \in Files : t.exists[f]
  /\ \A f \in Files : ~t.exists[f] => t.bits \cap FileChunks[f] = {}

\* The next load will not take the object's word for what it says of a file.
Doubted(t, f) ==
  \/ ~t.exists[f]
  \/ t.obj.mtime[f] \in {0, ToCreate, NotCreated, Unreliable}
  \/ t.obj.mtime[f] > 0 /\ t.obj.mtime[f] < t.mtime[f] /\ t.obj.mtime[f] < t.diskTime[f]

\* A chunk that the object claims for sure is on the disk, or some file of it is
\* doubted; a file that goes missing after it was saved is not created again.
ObjectInv(t) ==
  /\ \A f \in Files :
       t.mtime[f] <= t.writes[f] /\ t.diskTime[f] <= t.writes[f] /\ t.obj.mtime[f] <= t.writes[f]
  /\ t.saved => \A i \in t.obj.bits \ t.obj.uncertain :
                   i \in t.disk \/ \E f \in FilesAt(i) : Doubted(t, f)
  /\ t.up /\ t.saved =>
       \A f \in Files : t.create[f] /\ ~t.exists[f] => t.obj.mtime[f] \in {0, ToCreate}
  /\ \A f \in Files : t.obj.mtime[f] = Downloading \/ t.obj.mtime[f] > 0 => t.exists[f] \/ f = 1

ResumeInv(t) == t \in ResumeState /\ SessionInv(t) /\ ObjectInv(t)

ResumeInvHolds == ResumeInv(rd)

-----------------------------------------------------------------------------
(* Each step preserves it.                                                 *)

\* Files are numbered from one, and each has chunks of the download.
LEMMA FilesTyped == Files \subseteq Nat \ {0} /\ \A f \in Files : FileChunks[f] \subseteq Indices
<1>1. PICK n \in Nat : FileChunks \in [1..n -> SUBSET Indices]
  BY ResumeAssumption
<1> QED BY <1>1 DEF Files

LEMMA CheckPreserves ==
  ASSUME ResumeInv(rd), CheckHashes
  PROVE  ResumeInv(rd')
<1> DEFINE new == {i \in rd.recheck : i \in rd.good /\ \A f \in FilesAt(i) : rd.exists[f]}
<1>1. rd' = [rd EXCEPT !.checked = TRUE, !.recheck = {}, !.recent = {}, !.bits = @ \cup new]
  BY DEF CheckHashes
<1>2. new \subseteq rd.good /\ new \subseteq Indices /\ \A i \in new : \A f \in FilesAt(i) : rd.exists[f]
  BY DEF ResumeInv, ResumeState
<1> HIDE DEF new
<1>3. rd' \in ResumeState
  BY <1>1, <1>2, Zenon DEF ResumeInv, ResumeState
<1>4. /\ rd'.checked = TRUE /\ rd'.recent = {} /\ rd'.bits = rd.bits \cup new /\ rd'.up = rd.up
      /\ rd'.active = rd.active /\ rd'.good = rd.good /\ rd'.disk = rd.disk /\ rd'.exists = rd.exists
      /\ rd'.create = rd.create /\ rd'.mtime = rd.mtime /\ rd'.diskTime = rd.diskTime
      /\ rd'.writes = rd.writes /\ rd'.saved = rd.saved /\ rd'.obj = rd.obj
  BY <1>1 DEF ResumeInv, ResumeState
<1>5. SessionInv(rd')
  BY <1>2, <1>4, FilesTyped DEF ResumeInv, SessionInv, CheckHashes, FilesAt
<1>6. ObjectInv(rd')
  BY <1>4 DEF ResumeInv, ObjectInv, Doubted
<1> QED BY <1>3, <1>5, <1>6, SMTT(60) DEF ResumeInv

\* File::prepare() creates only what the object says is still to be created.
LEMMA ActivatePreserves ==
  ASSUME ResumeInv(rd), Activate
  PROVE  ResumeInv(rd')
<1>1. rd' = [rd EXCEPT !.active = TRUE, !.exists = [f \in Files |-> TRUE],
                      !.create = [f \in Files |-> FALSE]]
  BY DEF Activate
<1>2. rd' \in ResumeState
  BY <1>1, Zenon DEF ResumeInv, ResumeState
<1>3. /\ rd'.active = TRUE
      /\ rd'.exists = [f \in Files |-> TRUE]
      /\ rd'.create = [f \in Files |-> FALSE]
      /\ rd'.up = rd.up /\ rd'.checked = rd.checked /\ rd'.bits = rd.bits /\ rd'.good = rd.good
      /\ rd'.disk = rd.disk /\ rd'.recent = rd.recent /\ rd'.writes = rd.writes /\ rd'.mtime = rd.mtime
      /\ rd'.diskTime = rd.diskTime /\ rd'.saved = rd.saved /\ rd'.obj = rd.obj
  BY <1>1 DEF ResumeInv, ResumeState
<1>4. SessionInv(rd')
  BY <1>3 DEF ResumeInv, SessionInv, Activate
<1>5. ObjectInv(rd')
  BY <1>3 DEF ResumeInv, ObjectInv, Doubted, Activate, FilesAt, ResumeState
<1> QED BY <1>2, <1>4, <1>5, SMTT(60) DEF ResumeInv

\* Stopping changes nothing on the disk.
LEMMA DeactivatePreserves ==
  ASSUME ResumeInv(rd), Deactivate
  PROVE  ResumeInv(rd')
<1>1. rd' = [rd EXCEPT !.active = FALSE]
  BY DEF Deactivate
<1>2. rd' \in ResumeState
  BY <1>1, Zenon DEF ResumeInv, ResumeState
<1>3. /\ rd'.active = FALSE
      /\ rd'.up = rd.up /\ rd'.checked = rd.checked /\ rd'.bits = rd.bits /\ rd'.good = rd.good
      /\ rd'.disk = rd.disk /\ rd'.recent = rd.recent /\ rd'.create = rd.create /\ rd'.exists = rd.exists
      /\ rd'.writes = rd.writes /\ rd'.mtime = rd.mtime /\ rd'.diskTime = rd.diskTime /\ rd'.saved = rd.saved
      /\ rd'.obj = rd.obj
  BY <1>1 DEF ResumeInv, ResumeState
<1>4. SessionInv(rd')
  BY <1>3, SMTT(60) DEF ResumeInv, SessionInv
<1>5. ObjectInv(rd')
  BY <1>3 DEF ResumeInv, ObjectInv, Doubted
<1> QED BY <1>2, <1>4, <1>5, SMTT(60) DEF ResumeInv

\* A chunk that completes is good and uncertain.
LEMMA CompletePreserves ==
  ASSUME ResumeInv(rd), NEW i \in Indices, Complete(i)
  PROVE  ResumeInv(rd')
<1> DEFINE sized == [f \in Files |-> rd.sized[f] \/ f \in FilesAt(i)]
           writes == [f \in Files |-> IF f \in FilesAt(i) THEN rd.writes[f] + 1 ELSE rd.writes[f]]
           mtime == [f \in Files |-> IF f \in FilesAt(i) THEN rd.writes[f] + 1 ELSE rd.mtime[f]]
<1>a. /\ sized \in [Files -> BOOLEAN] /\ writes \in [Files -> Nat] /\ mtime \in [Files -> Nat]
      /\ \A f \in Files : rd.writes[f] <= writes[f] /\ rd.mtime[f] <= mtime[f] /\ mtime[f] <= writes[f]
  BY DEF ResumeInv, ResumeState, ObjectInv
<1>b. \A f \in FilesAt(i) : rd.exists[f]
  BY DEF ResumeInv, SessionInv, Complete, FilesAt
<1>1. rd' = [rd EXCEPT !.bits = @ \cup {i}, !.good = @ \cup {i}, !.recent = @ \cup {i},
                      !.sized = sized, !.writes = writes, !.mtime = mtime]
  BY DEF Complete
<1> HIDE DEF sized, writes, mtime
<1>2. rd' \in ResumeState
  BY <1>1, <1>a, ZenonT(60) DEF ResumeInv, ResumeState
<1>3. /\ rd'.bits = rd.bits \cup {i} /\ rd'.good = rd.good \cup {i} /\ rd'.recent = rd.recent \cup {i}
      /\ rd'.writes = writes /\ rd'.mtime = mtime
      /\ rd'.up = rd.up /\ rd'.checked = rd.checked /\ rd'.active = rd.active /\ rd'.disk = rd.disk
      /\ rd'.create = rd.create /\ rd'.exists = rd.exists /\ rd'.diskTime = rd.diskTime /\ rd'.saved = rd.saved
      /\ rd'.obj = rd.obj
  BY <1>1 DEF ResumeInv, ResumeState
<1>4. SessionInv(rd')
  BY <1>3, <1>b DEF ResumeInv, SessionInv, Complete, FilesAt
<1>5. ObjectInv(rd')
  BY <1>3, <1>a DEF ResumeInv, ObjectInv, Doubted, ResumeState, Marks, FilesAt, ToCreate, NotCreated, Unreliable, Downloading
<1> QED BY <1>2, <1>4, <1>5, SMTT(60) DEF ResumeInv

\* What gets to the disk was good.
LEMMA WriteBackPreserves ==
  ASSUME ResumeInv(rd), NEW i \in Indices, WriteBack(i)
  PROVE  ResumeInv(rd')
<1>1. rd' = [rd EXCEPT !.disk = @ \cup {i}]
  BY DEF WriteBack
<1>2. rd' \in ResumeState
  BY <1>1, SMTT(60) DEF ResumeInv, ResumeState
<1>3. /\ rd'.disk = rd.disk \cup {i}
      /\ rd'.up = rd.up /\ rd'.checked = rd.checked /\ rd'.active = rd.active /\ rd'.bits = rd.bits
      /\ rd'.good = rd.good /\ rd'.recent = rd.recent /\ rd'.create = rd.create /\ rd'.exists = rd.exists
      /\ rd'.writes = rd.writes /\ rd'.mtime = rd.mtime /\ rd'.diskTime = rd.diskTime /\ rd'.saved = rd.saved
      /\ rd'.obj = rd.obj
  BY <1>1 DEF ResumeInv, ResumeState
<1>4. SessionInv(rd')
  BY <1>3 DEF ResumeInv, SessionInv, WriteBack
<1>5. ObjectInv(rd')
  BY <1>3 DEF ResumeInv, ObjectInv, Doubted
<1> QED BY <1>2, <1>4, <1>5, SMTT(60) DEF ResumeInv

\* The time on the disk becomes one that is no later than the last write.
LEMMA WriteTimePreserves ==
  ASSUME ResumeInv(rd), NEW f \in Files, WriteTime(f)
  PROVE  ResumeInv(rd')
<1>1. rd' = [rd EXCEPT !.diskTime[f] = rd.mtime[f]]
  BY DEF WriteTime
<1>2. rd' \in ResumeState
  BY <1>1, Zenon DEF ResumeInv, ResumeState
<1>3. /\ rd'.diskTime = [rd.diskTime EXCEPT ![f] = rd.mtime[f]]
      /\ rd'.up = rd.up /\ rd'.checked = rd.checked /\ rd'.active = rd.active /\ rd'.bits = rd.bits
      /\ rd'.good = rd.good /\ rd'.disk = rd.disk /\ rd'.recent = rd.recent /\ rd'.create = rd.create
      /\ rd'.exists = rd.exists /\ rd'.writes = rd.writes /\ rd'.mtime = rd.mtime /\ rd'.saved = rd.saved
      /\ rd'.obj = rd.obj
  BY <1>1 DEF ResumeInv, ResumeState
<1>4. SessionInv(rd')
  BY <1>3, SMTT(60) DEF ResumeInv, SessionInv
<1>5. ObjectInv(rd')
  BY <1>3 DEF ResumeInv, ObjectInv, Doubted, ResumeState, FilesAt
<1> QED BY <1>2, <1>4, <1>5, SMTT(60) DEF ResumeInv

\* A chunk is no longer uncertain once it is on the disk.
LEMMA AgePreserves ==
  ASSUME ResumeInv(rd), NEW i \in Indices, Age(i)
  PROVE  ResumeInv(rd')
<1>1. rd' = [rd EXCEPT !.recent = @ \ {i}]
  BY DEF Age
<1>2. rd' \in ResumeState
  BY <1>1, SMTT(60) DEF ResumeInv, ResumeState
<1>3. /\ rd'.recent = rd.recent \ {i}
      /\ rd'.up = rd.up /\ rd'.checked = rd.checked /\ rd'.active = rd.active /\ rd'.bits = rd.bits
      /\ rd'.good = rd.good /\ rd'.disk = rd.disk /\ rd'.create = rd.create /\ rd'.exists = rd.exists
      /\ rd'.writes = rd.writes /\ rd'.mtime = rd.mtime /\ rd'.diskTime = rd.diskTime /\ rd'.saved = rd.saved
      /\ rd'.obj = rd.obj
  BY <1>1 DEF ResumeInv, ResumeState
<1>4. SessionInv(rd')
  BY <1>3 DEF ResumeInv, SessionInv, Age
<1>5. ObjectInv(rd')
  BY <1>3 DEF ResumeInv, ObjectInv, Doubted
<1> QED BY <1>2, <1>4, <1>5, SMTT(60) DEF ResumeInv

\* resume_save_progress(): what is claimed and not uncertain is on the disk.
LEMMA SavePreserves ==
  ASSUME ResumeInv(rd), Save
  PROVE  ResumeInv(rd')
<1> DEFINE mtime == [f \in Files |-> SaveFile(rd, f)]
           obj == [bits |-> rd.bits, mtime |-> mtime, uncertain |-> rd.recent]
<1>1. rd' = [rd EXCEPT !.saved = TRUE, !.obj = obj]
  BY DEF Save, SaveUncertain
<1>2. \A f \in Files :
         /\ mtime[f] \in Marks \cup Nat
         /\ mtime[f] <= rd.writes[f]
         /\ mtime[f] = Downloading \/ mtime[f] > 0 => rd.exists[f]
         /\ rd.create[f] /\ ~rd.exists[f] => mtime[f] = ToCreate
  BY DEF SaveFile, ResumeInv, ResumeState, ObjectInv, Marks, ToCreate, NotCreated, Downloading
<1>3. mtime \in [Files -> Marks \cup Nat]
  BY <1>2
<1>4. obj \in [bits : SUBSET Indices, mtime : [Files -> Marks \cup Nat], uncertain : SUBSET Indices]
  BY <1>3 DEF ResumeInv, ResumeState
<1>5. obj.bits = rd.bits /\ obj.mtime = mtime /\ obj.uncertain = rd.recent
  OBVIOUS
<1> HIDE DEF obj, mtime
<1>6. rd' \in ResumeState
  BY <1>1, <1>4, Zenon DEF ResumeInv, ResumeState
<1>7. /\ rd'.saved = TRUE /\ rd'.obj = obj
      /\ rd'.up = rd.up /\ rd'.checked = rd.checked /\ rd'.active = rd.active /\ rd'.bits = rd.bits
      /\ rd'.good = rd.good /\ rd'.disk = rd.disk /\ rd'.recent = rd.recent /\ rd'.create = rd.create
      /\ rd'.exists = rd.exists /\ rd'.writes = rd.writes /\ rd'.mtime = rd.mtime
      /\ rd'.diskTime = rd.diskTime
  BY <1>1 DEF ResumeInv, ResumeState
<1>8. SessionInv(rd')
  BY <1>7 DEF ResumeInv, SessionInv
<1>9. rd'.obj.bits \ rd'.obj.uncertain \subseteq rd'.disk
  BY <1>5, <1>7, SMTT(60) DEF ResumeInv, SessionInv
<1>10. ObjectInv(rd')
  BY <1>2, <1>5, <1>7, <1>9 DEF ResumeInv, ObjectInv
<1> QED BY <1>6, <1>8, <1>10, SMTT(60) DEF ResumeInv

\* The end of a session keeps an object that claims what is on the disk.
LEMMA EndPreserves ==
  ASSUME NEW t \in ResumeState, ObjectInv(t), t.disk \subseteq t.good
  PROVE  ResumeInv(EndSession(t))
<1> DEFINE u == EndSession(t)
           v == [t EXCEPT !.up = FALSE, !.checked = FALSE, !.active = FALSE, !.bits = {}]
<1>1. v \in ResumeState
  BY Zenon DEF ResumeState
<1>2. u = [v EXCEPT !.recheck = {}, !.recent = {}, !.disk = t.good, !.diskTime = t.mtime]
  BY DEF EndSession, ResumeState
<1>3. /\ v.good = t.good /\ v.create = t.create /\ v.exists = t.exists /\ v.writes = t.writes
      /\ v.mtime = t.mtime /\ v.saved = t.saved /\ v.obj = t.obj
      /\ v.up = FALSE /\ v.checked = FALSE /\ v.active = FALSE /\ v.bits = {}
  BY DEF ResumeState
<1> HIDE DEF v
<1>4. u \in ResumeState
  BY <1>1, <1>2, ZenonT(60) DEF ResumeState
<1>5. /\ u.up = FALSE /\ u.checked = FALSE /\ u.active = FALSE /\ u.bits = {} /\ u.recent = {}
      /\ u.good = t.good /\ u.disk = t.good /\ u.create = t.create /\ u.exists = t.exists
      /\ u.writes = t.writes /\ u.mtime = t.mtime /\ u.diskTime = t.mtime
      /\ u.saved = t.saved /\ u.obj = t.obj
  BY <1>1, <1>2, <1>3 DEF ResumeState
<1> HIDE DEF u
<1>6. SessionInv(u)
  BY <1>5 DEF SessionInv
<1>7. ObjectInv(u)
  BY <1>5 DEF ObjectInv, Doubted
<1> QED BY <1>4, <1>6, <1>7 DEF ResumeInv, u

\* A failed sync may lose chunks, and then the object is believed in nothing.
LEMMA SaveFailsPreserves ==
  ASSUME ResumeInv(rd), NEW lost \in SUBSET (rd.good \ rd.disk), SaveFails(lost)
  PROVE  ResumeInv(rd')
<1> DEFINE mtime == IF rd.saved THEN [f \in Files |-> Unreliable] ELSE rd.obj.mtime
           obj == [rd.obj EXCEPT !.mtime = mtime]
           t == [rd EXCEPT !.up = FALSE, !.good = @ \ lost, !.obj = obj]
<1>1. rd' = EndSession(t)
  BY ZenonT(60) DEF SaveFails, EndSession, ResumeInv, ResumeState
<1>2. mtime \in [Files -> Marks \cup Nat]
  BY DEF ResumeInv, ResumeState, Marks
<1>3. \A f \in Files : mtime[f] = Unreliable \/ mtime[f] = rd.obj.mtime[f]
  OBVIOUS
<1>4. rd.saved => \A f \in Files : mtime[f] = Unreliable
  OBVIOUS
<1> HIDE DEF mtime
<1>5. /\ obj \in [bits : SUBSET Indices, mtime : [Files -> Marks \cup Nat], uncertain : SUBSET Indices]
      /\ obj.bits = rd.obj.bits /\ obj.uncertain = rd.obj.uncertain /\ obj.mtime = mtime
  BY <1>2 DEF ResumeInv, ResumeState
<1> HIDE DEF obj
<1>6. t \in ResumeState
  BY <1>5, Zenon DEF ResumeInv, ResumeState
<1>7. /\ t.obj = obj /\ t.good = rd.good \ lost /\ t.disk = rd.disk /\ t.saved = rd.saved
      /\ t.up = FALSE /\ t.create = rd.create /\ t.exists = rd.exists /\ t.writes = rd.writes
      /\ t.mtime = rd.mtime /\ t.diskTime = rd.diskTime
  BY DEF ResumeInv, ResumeState
<1> HIDE DEF t
<1>8. t.disk \subseteq t.good
  BY <1>7 DEF ResumeInv, SessionInv
<1>9. \A f \in Files : t.obj.mtime[f] <= t.writes[f]
  BY <1>3, <1>5, <1>7 DEF ResumeInv, ObjectInv, ResumeState, Unreliable
<1>10. t.saved => \A i \in t.obj.bits \ t.obj.uncertain : i \in t.disk \/ \E f \in FilesAt(i) : Doubted(t, f)
  <2> SUFFICES ASSUME t.saved, NEW i \in t.obj.bits \ t.obj.uncertain, i \notin t.disk
               PROVE  \E f \in FilesAt(i) : Doubted(t, f)
    BY SMTT(60)
  <2>1. PICK f \in FilesAt(i) : TRUE
    BY <1>5, <1>7, SMTT(60) DEF ResumeInv, ObjectInv
  <2> QED BY <2>1, <1>4, <1>5, <1>7 DEF Doubted, FilesAt
<1>11. ObjectInv(t)
  BY <1>3, <1>5, <1>7, <1>9, <1>10 DEF ResumeInv, ObjectInv, Unreliable, Downloading
<1> QED BY <1>1, <1>6, <1>8, <1>11, EndPreserves

\* A crash keeps what is on the disk, with the times that got there.
LEMMA CrashPreserves ==
  ASSUME ResumeInv(rd), NEW power \in BOOLEAN, Crash(power)
  PROVE  ResumeInv(rd')
<1> DEFINE good == IF power THEN rd.disk ELSE rd.good
           mtime == IF power THEN rd.diskTime ELSE rd.mtime
           t == [rd EXCEPT !.crashes = @ + 1, !.good = good, !.mtime = mtime]
<1>1. rd' = EndSession(t)
  BY DEF Crash
<1>2. /\ good \in SUBSET Indices /\ rd.disk \subseteq good /\ mtime \in [Files -> Nat]
      /\ mtime = rd.diskTime \/ mtime = rd.mtime
  BY DEF ResumeInv, ResumeState, SessionInv
<1>c. rd.crashes + 1 \in Nat
  BY DEF ResumeInv, ResumeState
<1> HIDE DEF good, mtime
<1>3. t \in ResumeState
  BY <1>2, <1>c, Zenon DEF ResumeInv, ResumeState
<1>4. /\ t.good = good /\ t.mtime = mtime /\ t.disk = rd.disk /\ t.saved = rd.saved /\ t.up = rd.up
      /\ t.create = rd.create /\ t.exists = rd.exists /\ t.writes = rd.writes
      /\ t.diskTime = rd.diskTime /\ t.obj = rd.obj
  BY DEF ResumeInv, ResumeState
<1> HIDE DEF t
<1>5. t.disk \subseteq t.good
  BY <1>2, <1>4, SMTT(60)
<1>6. ObjectInv(t)
  BY <1>2, <1>4 DEF ResumeInv, ObjectInv, Doubted
<1> QED BY <1>1, <1>3, <1>5, <1>6, EndPreserves

\* A file that somebody else changes gets a time that no object has.
LEMMA TamperPreserves ==
  ASSUME ResumeInv(rd), NEW f \in Files, NEW i \in Indices, Tamper(f, i)
  PROVE  ResumeInv(rd')
<1> DEFINE now == rd.writes[f] + 1
           writes == [rd.writes EXCEPT ![f] = now]
           mtime == [rd.mtime EXCEPT ![f] = now]
           diskTime == [rd.diskTime EXCEPT ![f] = now]
<1>1. rd' = [rd EXCEPT !.good = @ \ {i}, !.disk = @ \ {i}, !.writes = writes,
                       !.mtime = mtime, !.diskTime = diskTime]
  BY SMTT(60) DEF Tamper, ResumeInv, ResumeState
<1>2. /\ writes \in [Files -> Nat] /\ mtime \in [Files -> Nat] /\ diskTime \in [Files -> Nat]
      /\ rd.obj.mtime[f] < mtime[f] /\ rd.obj.mtime[f] < diskTime[f]
      /\ \A g \in Files : /\ mtime[g] <= writes[g] /\ diskTime[g] <= writes[g]
                          /\ rd.obj.mtime[g] <= writes[g]
                          /\ g # f => mtime[g] = rd.mtime[g] /\ diskTime[g] = rd.diskTime[g]
  BY DEF ResumeInv, ResumeState, ObjectInv, Marks, ToCreate, NotCreated, Unreliable, Downloading
<1> HIDE DEF now, writes, mtime, diskTime
<1>3. rd' \in ResumeState
  BY <1>1, <1>2, ZenonT(60) DEF ResumeInv, ResumeState
<1>4. /\ rd'.good = rd.good \ {i} /\ rd'.disk = rd.disk \ {i} /\ rd'.writes = writes
      /\ rd'.mtime = mtime /\ rd'.diskTime = diskTime
      /\ rd'.up = rd.up /\ rd'.checked = rd.checked /\ rd'.active = rd.active /\ rd'.bits = rd.bits
      /\ rd'.recent = rd.recent /\ rd'.create = rd.create /\ rd'.exists = rd.exists
      /\ rd'.saved = rd.saved /\ rd'.obj = rd.obj
  BY <1>1 DEF ResumeInv, ResumeState
<1>5. ~rd.up /\ rd.obj.mtime[f] > 0 /\ f \in FilesAt(i)
  BY DEF Tamper, FilesAt
<1>6. SessionInv(rd')
  <2>1. ~rd.active /\ ~rd.checked /\ rd.bits = {} /\ rd.recent = {} /\ rd.disk = rd.good
    BY <1>5 DEF ResumeInv, SessionInv
  <2> QED BY <1>4, <1>5, <2>1, SMTT(60) DEF SessionInv
<1>7. Doubted(rd', f) /\ \A g \in Files : Doubted(rd, g) => Doubted(rd', g)
  BY <1>2, <1>4, <1>5, SMTT(60) DEF Doubted
<1>8. rd.saved => \A j \in rd.obj.bits \ rd.obj.uncertain :
                     j \in rd'.disk \/ \E g \in FilesAt(j) : Doubted(rd', g)
  BY <1>4, <1>5, <1>7, SMTT(60) DEF ResumeInv, ObjectInv, FilesAt
<1>9. ObjectInv(rd')
  BY <1>2, <1>4, <1>5, <1>8 DEF ResumeInv, ObjectInv
<1> QED BY <1>3, <1>6, <1>9, SMTT(60) DEF ResumeInv

\* A file that is deleted is doubted for its absence.
LEMMA DeletePreserves ==
  ASSUME ResumeInv(rd), NEW f \in Files, Delete(f)
  PROVE  ResumeInv(rd')
<1> DEFINE exists == [rd.exists EXCEPT ![f] = FALSE]
<1>1. rd' = [rd EXCEPT !.exists = exists, !.good = @ \ FileChunks[f], !.disk = @ \ FileChunks[f]]
  BY DEF Delete, ResumeInv, ResumeState
<1>2. exists \in [Files -> BOOLEAN] /\ ~exists[f] /\ \A g \in Files : g # f => exists[g] = rd.exists[g]
  BY DEF ResumeInv, ResumeState
<1> HIDE DEF exists
<1>3. rd' \in ResumeState
  BY <1>1, <1>2, Zenon DEF ResumeInv, ResumeState
<1>4. /\ rd'.exists = exists /\ rd'.good = rd.good \ FileChunks[f] /\ rd'.disk = rd.disk \ FileChunks[f]
      /\ rd'.up = rd.up /\ rd'.checked = rd.checked /\ rd'.active = rd.active /\ rd'.bits = rd.bits
      /\ rd'.recent = rd.recent /\ rd'.create = rd.create /\ rd'.writes = rd.writes
      /\ rd'.mtime = rd.mtime /\ rd'.diskTime = rd.diskTime /\ rd'.saved = rd.saved /\ rd'.obj = rd.obj
  BY <1>1 DEF ResumeInv, ResumeState
<1>5. ~rd.up /\ f = 1
  BY ResumeAssumption DEF Delete
<1>6. SessionInv(rd')
  BY <1>4, <1>5, SMTT(60) DEF ResumeInv, SessionInv
<1>7. \A g \in Files : Doubted(rd, g) \/ g = f => Doubted(rd', g)
  BY <1>2, <1>4, SMTT(60) DEF Doubted
<1>8. rd.saved => \A j \in rd.obj.bits \ rd.obj.uncertain :
                     j \in rd'.disk \/ \E g \in FilesAt(j) : Doubted(rd', g)
  BY <1>4, <1>7, SMTT(60) DEF ResumeInv, ObjectInv, FilesAt
<1>9. ObjectInv(rd')
  BY <1>2, <1>4, <1>5, <1>8, SMTT(60) DEF ResumeInv, ObjectInv
<1> QED BY <1>3, <1>6, <1>9, SMTT(60) DEF ResumeInv

\* What resume_load_progress() says of a file: one whose range is not cleared was
\* saved as downloading or with the time it has.
LEMMA LoadKeeps ==
  ASSUME NEW t \in ResumeState, NEW f \in Files, NEW stale \in BOOLEAN,
         NEW load, load = LoadFile(t, f, Stat(t, f, stale)),
         t.obj.mtime[f] = Downloading \/ t.obj.mtime[f] > 0 => t.exists[f] \/ f = 1
  PROVE  /\ load.clear \in BOOLEAN /\ load.create \in BOOLEAN
         /\ load.create => t.obj.mtime[f] \in {0, ToCreate}
         /\ ~load.clear => t.exists[f] /\ ~Doubted(t, f)
<1> DEFINE mtime == t.obj.mtime[f]
           stat == Stat(t, f, stale)
<1>1. mtime \in Marks \cup Nat /\ t.exists[f] \in BOOLEAN
  BY DEF ResumeState
<1>2. f \in Nat /\ f # 0
  BY FilesTyped, SMTT(60)
<1>3. stat.sized \in BOOLEAN /\ stat.mtime \in Nat
  <2>1. f > 1 => f - 1 \in Files
    <3>1. PICK n \in Nat : FileChunks \in [1..n -> SUBSET Indices]
      BY ResumeAssumption, SMTT(60)
    <3> QED BY <3>1, <1>2 DEF Files
  <2> QED BY <2>1, <1>2 DEF Stat, ResumeState
<1>4. t.exists[f] \/ f = 1 => stat.sized = (t.exists[f] /\ t.sized[f])
  BY <1>2, SMTT(60) DEF Stat, ResumeState
<1>5. t.exists[f] => stat.mtime = t.mtime[f]
  BY <1>2, SMTT(60) DEF Stat, ResumeState
<1> HIDE DEF stat
<1>6. CASE mtime = 0
  <2>1. load = Verdict(TRUE, TRUE, TRUE)
    BY <1>6 DEF LoadFile, stat, ToCreate, NotCreated, Downloading
  <2> QED BY <2>1, <1>6 DEF Verdict
<1>7. CASE mtime \in {ToCreate, NotCreated}
  <2>1. load = Verdict(mtime = ToCreate, TRUE, t.exists[f])
    <3>1. /\ mtime # 0 /\ mtime # Downloading
          /\ ~(mtime \notin {0, ToCreate, NotCreated} /\ ~stat.sized)
      BY <1>7, SMTT(60) DEF ToCreate, NotCreated, Downloading
    <3> QED BY <3>1, <1>7, Zenon DEF LoadFile, stat
  <2>2. load.create = (mtime = ToCreate) /\ load.clear = TRUE
    BY <2>1, SMTT(60) DEF Verdict
  <2> QED BY <2>2, Zenon
<1>8. CASE mtime \notin {0, ToCreate, NotCreated} /\ ~stat.sized
  <2>1. load = Verdict(FALSE, TRUE, TRUE)
    BY <1>8, Zenon DEF LoadFile, stat
  <2> QED BY <2>1 DEF Verdict
<1>9. CASE mtime = Downloading /\ stat.sized
  <2>1. load = Verdict(FALSE, FALSE, FALSE)
    BY <1>9, <1>3 DEF LoadFile, Verdict, stat, ToCreate, NotCreated, Downloading
  <2>2. t.exists[f]
    BY <1>9, <1>4, Zenon
  <2> QED BY <2>1, <2>2, <1>9
       DEF Verdict, Doubted, ToCreate, NotCreated, Downloading, Unreliable
<1>10. CASE mtime \notin {0, ToCreate, NotCreated, Downloading} /\ stat.sized
  <2>1. load = Verdict(FALSE, mtime # stat.mtime, mtime # stat.mtime)
    BY <1>10, <1>3 DEF LoadFile, Verdict, stat, ToCreate, NotCreated, Downloading
  <2>2. ASSUME mtime = stat.mtime PROVE t.exists[f] /\ ~Doubted(t, f)
    <3>1. mtime > 0
      BY <2>2, <1>10, <1>3
    <3>2. t.exists[f]
      BY <3>1, <1>10, <1>4, Zenon
    <3>3. mtime = t.mtime[f]
      BY <3>2, <1>5, <2>2, SMTT(60)
    <3> QED BY <3>1, <3>2, <3>3, <1>3, <2>2
         DEF Doubted, ToCreate, NotCreated, Unreliable, ResumeState
  <2>3. load.create = FALSE /\ load.clear = (mtime # stat.mtime)
    BY <2>1, SMTT(60) DEF Verdict
  <2> QED BY <2>2, <2>3, Zenon
<1> QED BY <1>3, <1>6, <1>7, <1>8, <1>9, <1>10

\* resume_load_progress(): whatever it lets through is on the disk.
LEMMA StartPreserves ==
  ASSUME ResumeInv(rd), NEW stale \in BOOLEAN, StartSession(stale)
  PROVE  ResumeInv(rd')
<1> DEFINE t == [rd EXCEPT !.up = TRUE, !.checked = FALSE, !.active = FALSE]
           load == [f \in Files |-> LoadFile(t, f, Stat(t, f, stale))]
<1>1. rd' = LoadProgress(t, stale) /\ ~rd.up
  BY DEF StartSession
<1>2. t \in ResumeState
  BY Zenon DEF ResumeInv, ResumeState
<1>3. /\ t.up = TRUE /\ t.checked = FALSE /\ t.active = FALSE /\ t.bits = rd.bits
      /\ t.good = rd.good /\ t.disk = rd.disk /\ t.recent = rd.recent /\ t.create = rd.create
      /\ t.exists = rd.exists /\ t.writes = rd.writes /\ t.mtime = rd.mtime
      /\ t.diskTime = rd.diskTime /\ t.saved = rd.saved /\ t.obj = rd.obj
  BY DEF ResumeInv, ResumeState
<1>4. rd.disk = rd.good /\ rd.recent = {}
  BY <1>1 DEF ResumeInv, SessionInv
<1> HIDE DEF t
<1>5. CASE ~rd.saved
  <2>1. rd' = [t EXCEPT !.bits = {}, !.recheck = Indices]
    BY <1>1, <1>3, <1>5 DEF LoadProgress
  <2>2. rd' \in ResumeState
    BY <2>1, <1>2, ZenonT(60) DEF ResumeState
  <2>3. /\ rd'.bits = {} /\ rd'.up = TRUE /\ rd'.checked = FALSE /\ rd'.active = FALSE
        /\ rd'.good = rd.good /\ rd'.disk = rd.disk /\ rd'.recent = rd.recent
        /\ rd'.create = rd.create /\ rd'.exists = rd.exists /\ rd'.writes = rd.writes
        /\ rd'.mtime = rd.mtime /\ rd'.diskTime = rd.diskTime /\ rd'.saved = rd.saved
        /\ rd'.obj = rd.obj
    BY <2>1, <1>2, <1>3 DEF ResumeState
  <2>4. SessionInv(rd') /\ ObjectInv(rd')
    BY <2>3, <1>4, <1>5 DEF ResumeInv, SessionInv, ObjectInv
  <2> QED BY <2>2, <2>4, SMTT(60) DEF ResumeInv
<1>6. CASE rd.saved
  <2> DEFINE claimed == {i \in t.obj.bits : \A f \in FilesAt(i) : ~load[f].clear}
             recheck == {i \in Indices : \E f \in FilesAt(i) : load[f].recheck}
             create == [f \in Files |-> load[f].create]
             u == [t EXCEPT !.bits = claimed, !.recheck = recheck, !.create = create]
  <2>1. rd' = [u EXCEPT !.bits = @ \ t.obj.uncertain, !.recheck = @ \cup t.obj.uncertain]
    BY <1>1, <1>2, <1>3, <1>6, Zenon DEF LoadProgress, LoadUncertain, ClearRange, ResumeState
  <2>2. \A f \in Files :
          /\ load[f].clear \in BOOLEAN /\ load[f].create \in BOOLEAN
          /\ load[f].create => t.obj.mtime[f] \in {0, ToCreate}
          /\ ~load[f].clear => t.exists[f] /\ ~Doubted(t, f)
    <3> TAKE f \in Files
    <3>1. load[f] = LoadFile(t, f, Stat(t, f, stale))
      BY SMTT(60)
    <3>2. \A g \in Files : t.obj.mtime[g] = Downloading \/ t.obj.mtime[g] > 0 => t.exists[g] \/ g = 1
      BY <1>3, SMTT(60) DEF ResumeInv, ObjectInv
    <3> HIDE DEF load
    <3> QED BY <3>1, <3>2, <1>2, LoadKeeps, SMTT(60)
  <2> HIDE DEF load
  <2>3. claimed \in SUBSET Indices /\ recheck \in SUBSET Indices /\ create \in [Files -> BOOLEAN]
    BY <2>2, <1>2 DEF ResumeState
  <2>4. \A i \in claimed : \A f \in FilesAt(i) : t.exists[f] /\ ~Doubted(t, f)
    BY <2>2, SMTT(60) DEF FilesAt
  <2>5. \A f \in Files : create[f] => rd.obj.mtime[f] \in {0, ToCreate}
    BY <2>2, <1>3
  <2>6. claimed \subseteq rd.obj.bits
    BY <1>3
  <2> HIDE DEF claimed, recheck, create
  <2>7. u \in ResumeState
    BY <2>3, <1>2, Zenon DEF ResumeState
  <2>8. /\ u.bits = claimed /\ u.recheck = recheck /\ u.create = create
        /\ u.up = TRUE /\ u.checked = FALSE /\ u.active = FALSE
        /\ u.good = rd.good /\ u.disk = rd.disk /\ u.recent = rd.recent
        /\ u.exists = rd.exists /\ u.writes = rd.writes
        /\ u.mtime = rd.mtime /\ u.diskTime = rd.diskTime /\ u.saved = rd.saved /\ u.obj = rd.obj
    BY <1>2, <1>3 DEF ResumeState
  <2> HIDE DEF u
  <2>9. rd' \in ResumeState
    BY <2>1, <2>7, <1>2, Zenon DEF ResumeState
  <2>10. /\ rd'.bits = claimed \ rd.obj.uncertain /\ rd'.create = create
         /\ rd'.up = TRUE /\ rd'.checked = FALSE /\ rd'.active = FALSE
         /\ rd'.good = rd.good /\ rd'.disk = rd.disk /\ rd'.recent = rd.recent
         /\ rd'.exists = rd.exists /\ rd'.writes = rd.writes /\ rd'.mtime = rd.mtime
         /\ rd'.diskTime = rd.diskTime /\ rd'.saved = rd.saved /\ rd'.obj = rd.obj
    BY <2>1, <2>7, <2>8, <1>3 DEF ResumeState
  <2>11. \A i \in rd'.bits : i \in rd.disk /\ \A f \in FilesAt(i) : rd.exists[f]
    <3> TAKE i \in rd'.bits
    <3>1. i \in claimed /\ i \in rd.obj.bits \ rd.obj.uncertain
      BY <2>6, <2>10, SMTT(60)
    <3>2. \A f \in FilesAt(i) : rd.exists[f] /\ ~Doubted(rd, f)
      BY <3>1, <2>4, <1>3, SMTT(60) DEF Doubted
    <3> QED BY <3>1, <3>2, <1>6 DEF ResumeInv, ObjectInv
  <2>12. SessionInv(rd')
    BY <2>10, <2>11, <1>4, SMTT(60) DEF ResumeInv, SessionInv, FilesAt
  <2>13. ObjectInv(rd')
    BY <2>5, <2>10, SMTT(60) DEF ResumeInv, ObjectInv, Doubted
  <2> QED BY <2>9, <2>12, <2>13, SMTT(60) DEF ResumeInv
<1> QED BY <1>5, <1>6 DEF ResumeInv, ResumeState

-----------------------------------------------------------------------------
(* The theorem.                                                            *)

\* Whatever crashes, power losses, failed syncs, changes by others and a missing first
\* file come between, resume_load_progress() and the session after it claim only
\* chunks that are right and whose files are there.
THEOREM ResumeIsSound == ResumeSpec => []ResumedIsRight
<1>1. ResumeInit => ResumeInvHolds
  <2> SUFFICES ASSUME ResumeInit PROVE ResumeInv(rd)
    BY DEF ResumeInvHolds
  <2>1. /\ ~rd.up /\ ~rd.checked /\ ~rd.active /\ ~rd.saved
        /\ rd.bits = {} /\ rd.good = {} /\ rd.disk = {} /\ rd.recent = {}
    BY DEF ResumeInit
  <2>2. \A f \in Files : rd.writes[f] = 1 /\ rd.mtime[f] = 1 /\ rd.diskTime[f] = 1
    BY DEF ResumeInit
  <2>3. \A f \in Files : rd.obj.mtime[f] = 0
    BY DEF ResumeInit
  <2>4. rd \in ResumeState
    <3>1. /\ [f \in Files |-> TRUE] \in [Files -> BOOLEAN]
          /\ [f \in Files |-> FALSE] \in [Files -> BOOLEAN]
          /\ [f \in Files |-> 1] \in [Files -> Nat]
          /\ [f \in Files |-> 0] \in [Files -> Marks \cup Nat]
      OBVIOUS
    <3> QED BY <3>1, Zenon DEF ResumeInit, ResumeState
  <2>5. SessionInv(rd)
    BY <2>1 DEF SessionInv
  <2>6. ObjectInv(rd)
    BY <2>1, <2>2, <2>3 DEF ObjectInv, Downloading
  <2> QED BY <2>4, <2>5, <2>6 DEF ResumeInv
<1>2. ResumeInvHolds /\ [ResumeNext]_rd => ResumeInvHolds'
  <2> SUFFICES ASSUME ResumeInv(rd), [ResumeNext]_rd PROVE ResumeInv(rd')
    BY DEF ResumeInvHolds
  <2>1. ASSUME NEW stale \in BOOLEAN, StartSession(stale) PROVE ResumeInv(rd')
    BY <2>1, StartPreserves
  <2>2. CASE CheckHashes
    BY <2>2, CheckPreserves
  <2>3. CASE Activate
    BY <2>3, ActivatePreserves
  <2>4. CASE Deactivate
    BY <2>4, DeactivatePreserves
  <2>5. CASE Save
    BY <2>5, SavePreserves
  <2>6. ASSUME NEW lost \in SUBSET (rd.good \ rd.disk), SaveFails(lost) PROVE ResumeInv(rd')
    BY <2>6, SaveFailsPreserves
  <2>7. ASSUME NEW i \in Indices, Complete(i) \/ WriteBack(i) \/ Age(i) PROVE ResumeInv(rd')
    BY <2>7, CompletePreserves, WriteBackPreserves, AgePreserves
  <2>8. ASSUME NEW power \in BOOLEAN, Crash(power) PROVE ResumeInv(rd')
    BY <2>8, CrashPreserves
  <2>9. ASSUME NEW f \in Files, WriteTime(f) \/ Delete(f) \/ \E i \in Indices : Tamper(f, i)
        PROVE  ResumeInv(rd')
    BY <2>9, WriteTimePreserves, DeletePreserves, TamperPreserves
  <2>10. CASE UNCHANGED rd
    BY <2>10
  <2> QED BY <2>1, <2>2, <2>3, <2>4, <2>5, <2>6, <2>7, <2>8, <2>9, <2>10 DEF ResumeNext
<1>3. ResumeInvHolds => ResumedIsRight
  BY DEF ResumeInvHolds, ResumeInv, SessionInv, ResumedIsRight, ClaimedIsRight, MissingIsRechecked
<1> QED BY <1>1, <1>2, <1>3, PTL DEF ResumeSpec
=============================================================================
