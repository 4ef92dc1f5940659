------------------------------ MODULE Scheduler ------------------------------
(***************************************************************************)
(* The timers of a thread (system::Scheduler): a heap of handles, each     *)
(* with a back pointer to its SchedulerEntry that erase() and              *)
(* update_wait_until() clear, and the entry's pointer to its handle.       *)
(*                                                                         *)
(* A handle's address is a number that is never used again; 0 is nullptr.  *)
(* The heap is the set of its handles: among those with the least time     *)
(* either may be its front.  Slots are whatever calls follow while         *)
(* perform() runs.                                                         *)
(***************************************************************************)
EXTENDS Integers

CONSTANTS
  Entries,    \* SchedulerEntry objects
  NoEntry,    \* nullptr for an entry
  Delays,     \* what wait_for() and update_wait_for() are called with
  MaxTimeout, \* the longest a thread polls
  MaxTime, MaxHandles \* bounds on the clock and on the handles made

ASSUME EntriesAssumption == NoEntry \notin Entries
ASSUME TimesAssumption ==
  Delays \subseteq Nat /\ MaxTimeout \in Nat /\ MaxTime \in Nat /\ MaxHandles \in Nat

VARIABLE sc

\* due: the time the entry was last asked to run at; polling: until `wake'.
TimerInit ==
  sc = [heap |-> {}, handle |-> [e \in Entries |-> 0], due |-> [e \in Entries |-> 0],
       next |-> 1, cached |-> 0, performing |-> 0, polling |-> 0, wake |-> 0]

Awake(t) == t.polling = 0
IsScheduled(t, e) == t.handle[e] # 0
IsFront(t, h) == h \in t.heap /\ \A g \in t.heap : h.time <= g.time

\* Clearing the back pointer of the handle of an entry.
ClearEntry(heap, id) ==
  {h \in heap : h.id # id} \cup {[h EXCEPT !.entry = NoEntry] : h \in {g \in heap : g.id = id}}

PushEntry(t, heap, e, time) ==
  [t EXCEPT !.heap = heap \cup {[id |-> t.next, entry |-> e, time |-> time]},
            !.handle[e] = t.next, !.due[e] = time, !.next = @ + 1]

\* erase(): the handle stays in the heap without its entry.
Erase(e) ==
  /\ Awake(sc) /\ IsScheduled(sc, e)
  /\ sc' = [sc EXCEPT !.heap = ClearEntry(@, sc.handle[e]), !.handle[e] = 0]

\* wait_for(), only for an entry that is not scheduled.
WaitFor(e, delay) ==
  /\ Awake(sc) /\ ~IsScheduled(sc, e) /\ sc.next <= MaxHandles
  /\ sc' = PushEntry(sc, sc.heap, e, sc.cached + delay)

\* The old handle keeps its entry.
UpdateHeapKeeps(t, e) == t.heap

UpdateHeap(t, e) == IF IsScheduled(t, e) THEN ClearEntry(t.heap, t.handle[e]) ELSE t.heap

\* update_wait_for().
UpdateWaitFor(e, delay) ==
  /\ Awake(sc) /\ sc.next <= MaxHandles
  /\ sc' = PushEntry(sc, UpdateHeap(sc, e), e, sc.cached + delay)

\* perform(): one handle that is due is taken off the front; a live one loses
\* its handle and its slot runs.
PerformOne ==
  /\ Awake(sc) /\ sc.performing = 1
  /\ \E h \in sc.heap :
       /\ IsFront(sc, h) /\ h.time <= sc.cached
       /\ sc' = [sc EXCEPT !.heap = @ \ {h},
                         !.handle = [e \in Entries |-> IF e = h.entry THEN 0 ELSE @[e]]]

PerformEnds ==
  /\ Awake(sc) /\ sc.performing = 1
  /\ \A h \in sc.heap : h.time > sc.cached
  /\ sc' = [sc EXCEPT !.performing = 0]

\* next_timeout(): handles without an entry leave the front, then the front says
\* how long to poll.
DropFront ==
  /\ Awake(sc) /\ sc.performing = 0
  /\ \E h \in sc.heap :
       /\ IsFront(sc, h) /\ h.entry = NoEntry
       /\ sc' = [sc EXCEPT !.heap = @ \ {h}]

\* The timeout taken from a front whose entry was erased.
NextTimeoutStale(t, wake) ==
  wake = t.cached + MaxTimeout

NextTimeout(t, wake) ==
  \/ wake = t.cached + MaxTimeout /\ \A h \in t.heap : h.time >= wake
  \/ \E h \in t.heap : /\ IsFront(t, h) /\ h.time < t.cached + MaxTimeout
                       /\ wake = IF h.time > t.cached THEN h.time ELSE t.cached

StartPoll ==
  /\ Awake(sc) /\ sc.performing = 0
  /\ \A h \in sc.heap : IsFront(sc, h) => h.entry # NoEntry
  /\ \E wake \in sc.cached..(sc.cached + MaxTimeout) :
       /\ NextTimeout(sc, wake)
       /\ sc' = [sc EXCEPT !.polling = 1, !.wake = wake]

\* The poll returns, on time or for an event, and the thread takes the time and
\* performs.
Wakes ==
  /\ ~Awake(sc) /\ sc.cached < MaxTime
  /\ \E now \in sc.cached..sc.wake :
       sc' = [sc EXCEPT !.polling = 0, !.cached = now, !.performing = 1]

TimerNext ==
  \/ \E e \in Entries : \/ Erase(e)
                        \/ \E delay \in Delays : WaitFor(e, delay) \/ UpdateWaitFor(e, delay)
  \/ PerformOne \/ PerformEnds \/ DropFront \/ StartPoll \/ Wakes

TimerSpec == TimerInit /\ [][TimerNext]_sc

-----------------------------------------------------------------------------
(* Properties.                                                             *)

Handles == [id : Nat \ {0}, entry : Entries \cup {NoEntry}, time : Nat]

TimerTypeOK ==
  sc \in [heap : SUBSET Handles, handle : [Entries -> Nat], due : [Entries -> Nat],
         next : Nat \ {0}, cached : Nat, performing : Nat, polling : Nat, wake : Nat]

\* The pointers of entries and handles agree, with the time last asked for: an
\* entry that is scheduled has one handle that runs it, at that time, and one
\* that was erased, moved or run has none, however many stale handles the heap
\* still holds.
HandlesMatch ==
  /\ \A h \in sc.heap : h.id < sc.next
  /\ \A g, h \in sc.heap : g.id = h.id => g = h
  /\ \A e \in Entries : sc.handle[e] # 0 => \E h \in sc.heap : h.id = sc.handle[e] /\ h.entry = e
  /\ \A h \in sc.heap : h.entry # NoEntry => sc.handle[h.entry] = h.id /\ sc.due[h.entry] = h.time

\* The thread does not sleep past a timer: nothing scheduled is due before the
\* time the poll returns, whatever was erased or moved before it.
SleepsNoLonger ==
  sc.polling = 1 => \A e \in Entries : sc.handle[e] # 0 => sc.due[e] >= sc.wake \/ sc.wake = sc.cached

=============================================================================
