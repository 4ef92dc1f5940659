--------------------------- MODULE ThreadCallbacks ---------------------------
(***************************************************************************)
(* The event loop of a torrent::system::Thread and the way other threads   *)
(* hand it work: Thread::callback, Thread::process_callbacks,              *)
(* Poll::do_poll / poll / process, Poll::do_interrupt and the eventfd that *)
(* wakes epoll_wait up.                                                    *)
(*                                                                         *)
(* A step is one atomic operation of the code: one critical section of     *)
(* m_callbacks_lock, one operation on an atomic, one system call, or one   *)
(* callback.  Memory is sequentially consistent.                           *)
(***************************************************************************)
EXTENDS Naturals, FiniteSets, Sequences, FiniteSetTheorems, TLAPS

CONSTANTS
  Posters,      \* the threads that call callback() on this thread
  Main,         \* the one of them that starts and stops the threads
  Self,         \* the thread that runs the loop; it may post to itself
  MaxByMain,    \* bound: how many callbacks Main posts
  MaxByOther    \* bound: how many callbacks each other thread posts

ASSUME ThreadsAssumption == Main \in Posters /\ Self \notin Posters

VARIABLES
  m_callbacks, m_interrupt_callbacks,          \* the two lists, under m_callbacks_lock
  m_has_callbacks, m_has_interrupt_callbacks,  \* the atomic flags that mirror them
  m_polling_state,     \* SUBSET {"polling", "interrupted"}
  wake_event,          \* the eventfd is readable
  do_shutdown,         \* flag_do_shutdown of m_flags
  pc,                  \* where the loop is
  only_interrupt,      \* the argument of the running process_callbacks()
  batch,               \* its local vector, the part that has not run
  zero_timeout,        \* poll() decided not to sleep
  ready,               \* the events epoll_wait returned that are not handled yet
  poster,              \* where each posting thread is
  posted,              \* for each thread, the kinds of the callbacks it posted
  ran                  \* the callbacks that ran

lists == <<m_callbacks, m_interrupt_callbacks>>
flags == <<m_has_callbacks, m_has_interrupt_callbacks>>
loop  == <<pc, only_interrupt, batch, zero_timeout, ready>>
ghost == <<posted, ran>>
vars  == <<lists, flags, m_polling_state, wake_event, do_shutdown, loop, poster, ghost>>

Callers == Posters \cup {Self}

ASSUME MaxPostsAssumption == MaxByMain \in Nat /\ MaxByOther \in Nat

MaxPosts == [t \in Callers |-> IF t = Main THEN MaxByMain ELSE MaxByOther]

(* A callback: the n-th one posted by a thread, and the list it goes to.    *)
Callback == UNION {[by : {t}, n : 1..MaxPosts[t], interrupt : BOOLEAN] : t \in Callers}

Posted == {c \in Callback : c.n <= Len(posted[c.by]) /\ posted[c.by][c.n] = c.interrupt}

LoopStates == {"events", "store", "take", "run", "perform", "enter", "check",
               "check_interrupt", "wait", "leave", "process", "dispatch", "exited"}

(* Every variable has its type; the poll is never interrupted without       *)
(* polling, so that fetch_or(flag_polling) always starts from a clear state.*)
TypeOK ==
  /\ m_callbacks \in Seq(Callback) /\ m_interrupt_callbacks \in Seq(Callback)
  /\ m_has_callbacks \in BOOLEAN /\ m_has_interrupt_callbacks \in BOOLEAN
  /\ m_polling_state \in {{}, {"polling"}, {"polling", "interrupted"}}
  /\ wake_event \in BOOLEAN /\ do_shutdown \in BOOLEAN
  /\ pc \in LoopStates
  /\ only_interrupt \in BOOLEAN
  /\ batch \in Seq(Callback)
  /\ zero_timeout \in BOOLEAN
  /\ ready \in SUBSET {"wake", "fd"}
  /\ poster \in [Posters -> {"idle", "interrupt", "signal"}]
  /\ posted \in [Callers -> Seq(BOOLEAN)] /\ ran \in SUBSET Callback

Init ==
  /\ m_callbacks = <<>> /\ m_interrupt_callbacks = <<>>
  /\ m_has_callbacks = FALSE /\ m_has_interrupt_callbacks = FALSE
  /\ m_polling_state = {}
  /\ wake_event = FALSE /\ do_shutdown = FALSE
  /\ pc = "events" /\ only_interrupt = FALSE /\ batch = <<>>
  /\ zero_timeout = FALSE /\ ready = {}
  /\ poster = [p \in Posters |-> "idle"]
  /\ posted = [t \in Callers |-> <<>>] /\ ran = {}

-----------------------------------------------------------------------------
(* Posting.                                                                *)

(* The critical section of callback(): the flag of the list is set when the *)
(* list was empty, and only then is the poll to be interrupted.             *)
Push(t, interrupt) ==
  LET c == [by |-> t, n |-> Len(posted[t]) + 1, interrupt |-> interrupt]
  IN  /\ Len(posted[t]) < MaxPosts[t]
      /\ posted' = [posted EXCEPT ![t] = Append(@, interrupt)]
      /\ IF interrupt
         THEN /\ m_interrupt_callbacks' = Append(m_interrupt_callbacks, c)
              /\ m_has_interrupt_callbacks' =
                   (m_has_interrupt_callbacks \/ m_interrupt_callbacks = <<>>)
              /\ UNCHANGED <<m_callbacks, m_has_callbacks>>
         ELSE /\ m_callbacks' = Append(m_callbacks, c)
              /\ m_has_callbacks' = (m_has_callbacks \/ m_callbacks = <<>>)
              /\ UNCHANGED <<m_interrupt_callbacks, m_has_interrupt_callbacks>>
      /\ UNCHANGED ran

ListWasEmpty(interrupt) ==
  IF interrupt THEN m_interrupt_callbacks = <<>> ELSE m_callbacks = <<>>

Post(p, interrupt) ==
  /\ poster[p] = "idle"
  /\ ~(p = Main /\ do_shutdown)
  /\ Push(p, interrupt)
  /\ poster' = [poster EXCEPT ![p] =
                  IF ListWasEmpty(interrupt) THEN "interrupt" ELSE "idle"]
  /\ UNCHANGED <<m_polling_state, wake_event, do_shutdown, loop>>

(* stop_thread_wait(): sets the flag, interrupts the poll, then joins, so   *)
(* that Main posts nothing more.                                            *)
Stop ==
  /\ poster[Main] = "idle" /\ ~do_shutdown
  /\ do_shutdown' = TRUE
  /\ poster' = [poster EXCEPT ![Main] = "interrupt"]
  /\ UNCHANGED <<lists, flags, m_polling_state, wake_event, loop, ghost>>

(* The compare-exchange of do_interrupt(): it succeeds only when the state  *)
(* is exactly flag_polling.                                                 *)
DoInterrupt(p) ==
  /\ poster[p] = "interrupt"
  /\ IF m_polling_state = {"polling"}
     THEN /\ m_polling_state' = {"polling", "interrupted"}
          /\ poster' = [poster EXCEPT ![p] = "signal"]
     ELSE /\ poster' = [poster EXCEPT ![p] = "idle"]
          /\ UNCHANGED m_polling_state
  /\ UNCHANGED <<lists, flags, wake_event, do_shutdown, loop, ghost>>

SendSignal(p) ==
  /\ poster[p] = "signal"
  /\ wake_event' = TRUE
  /\ poster' = [poster EXCEPT ![p] = "idle"]
  /\ UNCHANGED <<lists, flags, m_polling_state, do_shutdown, loop, ghost>>

-----------------------------------------------------------------------------
(* The event loop.                                                         *)

(* Mutant: call_events() does not look at flag_do_shutdown.                 *)
CallEventsNoShutdown ==
  /\ pc = "events"
  /\ pc' = "store"
  /\ UNCHANGED <<lists, flags, m_polling_state, wake_event, do_shutdown,
                 only_interrupt, batch, zero_timeout, ready, poster, ghost>>

(* call_events() of a worker thread: shut down before running callbacks.    *)
CallEvents ==
  /\ pc = "events"
  /\ pc' = IF do_shutdown THEN "exited" ELSE "store"
  /\ UNCHANGED <<lists, flags, m_polling_state, wake_event, do_shutdown,
                 only_interrupt, batch, zero_timeout, ready, poster, ghost>>

(* process_callbacks(): the unlocked store at its head.                     *)
StoreFlag ==
  /\ pc = "store"
  /\ m_has_interrupt_callbacks' = FALSE
  /\ pc' = "take"
  /\ UNCHANGED <<lists, m_has_callbacks, m_polling_state, wake_event, do_shutdown,
                 only_interrupt, batch, zero_timeout, ready, poster, ghost>>

(* Mutant: process_callbacks() always stops after the interrupt callbacks.  *)
TakeBatchInterruptOnly ==
  /\ pc = "take"
  /\ batch' = m_interrupt_callbacks
  /\ m_interrupt_callbacks' = <<>>
  /\ pc' = IF batch' # <<>> THEN "run" ELSE IF only_interrupt THEN "dispatch" ELSE "perform"
  /\ only_interrupt' = (only_interrupt /\ batch' # <<>>)
  /\ UNCHANGED <<m_callbacks, flags, m_polling_state, wake_event, do_shutdown,
                 zero_timeout, ready, poster, ghost>>

(* Its critical section: interrupt callbacks first, then the others unless  *)
(* only_interrupt, and the flags are cleared when there is nothing to take. *)
TakeBatch ==
  /\ pc = "take"
  /\ \/ /\ m_interrupt_callbacks # <<>>
        /\ batch' = m_interrupt_callbacks
        /\ m_interrupt_callbacks' = <<>>
        /\ pc' = "run"
        /\ UNCHANGED <<m_callbacks, flags, only_interrupt>>
     \/ /\ m_interrupt_callbacks = <<>> /\ only_interrupt
        /\ m_has_interrupt_callbacks' = FALSE
        /\ pc' = "dispatch" /\ only_interrupt' = FALSE
        /\ UNCHANGED <<lists, m_has_callbacks, batch>>
     \/ /\ m_interrupt_callbacks = <<>> /\ ~only_interrupt /\ m_callbacks # <<>>
        /\ batch' = m_callbacks
        /\ m_callbacks' = <<>>
        /\ pc' = "run"
        /\ UNCHANGED <<m_interrupt_callbacks, flags, only_interrupt>>
     \/ /\ m_interrupt_callbacks = <<>> /\ ~only_interrupt /\ m_callbacks = <<>>
        /\ m_has_callbacks' = FALSE
        /\ m_has_interrupt_callbacks' = FALSE
        /\ pc' = "perform"
        /\ UNCHANGED <<lists, batch, only_interrupt>>
  /\ UNCHANGED <<m_polling_state, wake_event, do_shutdown, zero_timeout, ready,
                 poster, ghost>>

(* Mutant: the batch is run from its back.                                  *)
RunLastCallback ==
  /\ pc = "run"
  /\ ran' = ran \cup {batch[Len(batch)]}
  /\ batch' = SubSeq(batch, 1, Len(batch) - 1)
  /\ pc' = IF Len(batch) = 1 THEN "take" ELSE "run"
  /\ UNCHANGED <<lists, flags, m_polling_state, wake_event, do_shutdown,
                 only_interrupt, zero_timeout, ready, poster, posted>>

RunCallback ==
  /\ pc = "run"
  /\ ran' = ran \cup {Head(batch)}
  /\ batch' = Tail(batch)
  /\ pc' = IF Tail(batch) = <<>> THEN "take" ELSE "run"
  /\ UNCHANGED <<lists, flags, m_polling_state, wake_event, do_shutdown,
                 only_interrupt, zero_timeout, ready, poster, posted>>

(* A callback, a scheduler entry or an event handler of this thread posts   *)
(* to its own thread.  The do_interrupt() that may follow finds the poll    *)
(* not polling and does nothing.                                            *)
SelfPost(interrupt) ==
  /\ pc \in {"run", "perform", "dispatch"}
  /\ Push(Self, interrupt)
  /\ UNCHANGED <<m_polling_state, wake_event, do_shutdown, loop, poster>>

(* Scheduler::perform() returns; the loop goes on to poll.                  *)
Perform ==
  /\ pc = "perform"
  /\ pc' = "enter"
  /\ UNCHANGED <<lists, flags, m_polling_state, wake_event, do_shutdown,
                 only_interrupt, batch, zero_timeout, ready, poster, ghost>>

(* Poll::poll(): fetch_or(flag_polling).                                    *)
EnterPoll ==
  /\ pc = "enter"
  /\ zero_timeout' = ("interrupted" \in m_polling_state)
  /\ m_polling_state' = m_polling_state \cup {"polling"}
  /\ pc' = IF zero_timeout' THEN "wait" ELSE "check"
  /\ UNCHANGED <<lists, flags, wake_event, do_shutdown, only_interrupt, batch,
                 ready, poster, ghost>>

(* Mutant: poll() does not look at m_has_callbacks after it announced itself.*)
CheckNoCallbacks ==
  /\ pc = "check"
  /\ pc' = "check_interrupt"
  /\ UNCHANGED <<lists, flags, m_polling_state, wake_event, do_shutdown,
                 only_interrupt, batch, zero_timeout, ready, poster, ghost>>

(* has_any_callbacks(): two loads, the second only if the first was false.  *)
CheckCallbacks ==
  /\ pc = "check"
  /\ zero_timeout' = m_has_callbacks
  /\ pc' = IF m_has_callbacks THEN "wait" ELSE "check_interrupt"
  /\ UNCHANGED <<lists, flags, m_polling_state, wake_event, do_shutdown,
                 only_interrupt, batch, ready, poster, ghost>>

CheckInterruptCallbacks ==
  /\ pc = "check_interrupt"
  /\ zero_timeout' = m_has_interrupt_callbacks
  /\ pc' = "wait"
  /\ UNCHANGED <<lists, flags, m_polling_state, wake_event, do_shutdown,
                 only_interrupt, batch, ready, poster, ghost>>

(* epoll_wait() returns: at once with a zero timeout, or when the eventfd   *)
(* or another descriptor is ready.                                          *)
ReturnFromWait(events) ==
  /\ pc = "wait"
  /\ ready' = events
  /\ pc' = "leave"
  /\ UNCHANGED <<lists, flags, m_polling_state, wake_event, do_shutdown,
                 only_interrupt, batch, zero_timeout, poster, ghost>>

Woken == IF wake_event THEN {"wake"} ELSE {}

Wait        == (zero_timeout \/ wake_event) /\ ReturnFromWait(Woken)
WaitFdReady == ReturnFromWait(Woken \cup {"fd"})
WaitTimeout == ~wake_event /\ ReturnFromWait({})

(* fetch_and(~flag_state_mask).                                             *)
LeavePoll ==
  /\ pc = "leave"
  /\ m_polling_state' = {}
  /\ pc' = "process" /\ zero_timeout' = FALSE
  /\ UNCHANGED <<lists, flags, wake_event, do_shutdown, only_interrupt, batch,
                 ready, poster, ghost>>

(* Poll::process(): the head of its loop.                                   *)
NextEvent ==
  /\ pc = "process"
  /\ pc' = CASE ready = {} -> "events"
             [] ready # {} /\ m_has_interrupt_callbacks -> "store"
             [] OTHER -> "dispatch"
  /\ only_interrupt' = (ready # {} /\ m_has_interrupt_callbacks)
  /\ UNCHANGED <<lists, flags, m_polling_state, wake_event, do_shutdown, batch,
                 zero_timeout, ready, poster, ghost>>

(* One event: EventFd::event_read() drains the eventfd.                     *)
Dispatch(event) ==
  /\ pc = "dispatch"
  /\ event \in ready
  /\ ready' = ready \ {event}
  /\ wake_event' = IF event = "wake" THEN FALSE ELSE wake_event
  /\ pc' = "process"
  /\ UNCHANGED <<lists, flags, m_polling_state, do_shutdown, only_interrupt,
                 batch, zero_timeout, poster, ghost>>

-----------------------------------------------------------------------------
LoopStep ==
  \/ CallEvents \/ StoreFlag \/ TakeBatch \/ RunCallback \/ Perform
  \/ EnterPoll \/ CheckCallbacks \/ CheckInterruptCallbacks \/ Wait
  \/ LeavePoll \/ NextEvent
  \/ \E event \in {"wake", "fd"} : Dispatch(event)

PosterStep(p) ==
  \/ \E interrupt \in BOOLEAN : Post(p, interrupt)
  \/ DoInterrupt(p) \/ SendSignal(p)

Next ==
  \/ LoopStep
  \/ \E interrupt \in BOOLEAN : SelfPost(interrupt)
  \/ WaitFdReady
  \/ WaitTimeout
  \/ Stop
  \/ \E p \in Posters : PosterStep(p)

(* The loop thread and the posting threads are scheduled fairly.  Nothing   *)
(* makes a descriptor ready, and no timeout of epoll_wait is counted on.    *)
Fairness ==
  /\ WF_vars(LoopStep)
  /\ \A p \in Posters : WF_vars(DoInterrupt(p) \/ SendSignal(p))

Spec == Init /\ [][Next]_vars /\ Fairness

-----------------------------------------------------------------------------
(* Properties.                                                             *)

(* No wake-up is lost: when the loop sleeps in epoll_wait while a list is   *)
(* not empty, the eventfd is readable, or a thread that is still inside     *)
(* callback() is about to make it so.  The has-flags, the polling state and *)
(* the order of their reads and writes in callback(), process_callbacks(),  *)
(* do_interrupt() and poll() are all needed for this.                       *)
NoLostWakeup ==
  pc = "wait" /\ ~zero_timeout /\ (m_callbacks # <<>> \/ m_interrupt_callbacks # <<>>) =>
    \/ wake_event
    \/ \E p \in Posters : poster[p] = "signal"
    \/ m_polling_state = {"polling"} /\ \E p \in Posters : poster[p] = "interrupt"

(* Every posted callback is in exactly one place: it ran, or it is in the   *)
(* local batch of process_callbacks() or in a list, once.  Callbacks that   *)
(* one thread posts to the same list run in the order in which they were    *)
(* posted, whatever batches process_callbacks() makes.                      *)
EachOnceInOrder ==
  LET pending == batch \o m_interrupt_callbacks \o m_callbacks
      queued  == {pending[i] : i \in DOMAIN pending}
  IN  /\ Posted = ran \cup queued
      /\ Cardinality(queued) = Len(pending)
      /\ ran \cap queued = {}
      /\ \A c \in ran, d \in queued :
           c.by = d.by /\ c.interrupt = d.interrupt => c.n < d.n

(* A posted callback runs, unless the thread is told to shut down first,    *)
(* and no timeout of epoll_wait is needed for it.  The number of posts is   *)
(* bounded, so that a time comes when all that were posted have run.        *)
EveryCallbackRuns == Posted # ran ~> (Posted = ran \/ do_shutdown)

(* stop_thread_wait() ends: the loop notices flag_do_shutdown and leaves.   *)
(* The interrupt may find the thread between call_events() and poll() and   *)
(* be dropped, so here the timeout of epoll_wait (next_timeout(), 10 s)     *)
(* must expire.                                                             *)
ShutdownCompletes == WF_vars(WaitTimeout) => (do_shutdown ~> pc = "exited")

-----------------------------------------------------------------------------
(* Proofs, for any set of posting threads and any number of callbacks.     *)

(* A wake-up is on its way: the eventfd is readable, or a thread that won   *)
(* the compare-exchange is about to make it so.                             *)
Waking == wake_event \/ \E p \in Posters : poster[p] = "signal"

(* ... or a thread inside callback() will win the compare-exchange.         *)
Pending ==
  Waking \/ (m_polling_state = {"polling"} /\ \E p \in Posters : poster[p] = "interrupt")

(* The has-flags over-approximate the lists.  process_callbacks() clears    *)
(* m_has_interrupt_callbacks before it takes the lock, hence the exception. *)
FlagInv ==
  /\ m_callbacks # <<>> => m_has_callbacks
  /\ m_interrupt_callbacks # <<>> => m_has_interrupt_callbacks \/ pc = "take"

(* flag_polling is set exactly between fetch_or and fetch_and, and          *)
(* flag_interrupted only while a wake-up is on its way.                     *)
PollInv ==
  /\ m_polling_state # {} <=> pc \in {"check", "check_interrupt", "wait", "leave"}
  /\ m_polling_state = {"polling", "interrupted"} => Waking

(* Once poll() found a has-flag clear, a callback on that list comes with   *)
(* a wake-up.                                                               *)
SleepInv ==
  /\ (pc = "check_interrupt" \/ (pc = "wait" /\ ~zero_timeout)) /\ m_callbacks # <<>>
       => Pending
  /\ pc = "wait" /\ ~zero_timeout /\ m_interrupt_callbacks # <<>> => Pending

IInv ==
  /\ TypeOK
  /\ pc = "run" => batch # <<>>
  /\ FlagInv /\ PollInv /\ SleepInv

-----------------------------------------------------------------------------
(* The critical section of callback() puts a well-typed callback on one of  *)
(* the lists and leaves it marked by its has-flag.                          *)
LEMMA PushLemma ==
  ASSUME NEW t \in Callers, NEW i \in BOOLEAN, IInv, Push(t, i)
  PROVE  /\ m_callbacks' \in Seq(Callback) /\ m_interrupt_callbacks' \in Seq(Callback)
         /\ m_has_callbacks' \in BOOLEAN /\ m_has_interrupt_callbacks' \in BOOLEAN
         /\ posted' \in [Callers -> Seq(BOOLEAN)] /\ ran' = ran
         /\ m_callbacks' # <<>> => m_has_callbacks'
         /\ m_interrupt_callbacks' # <<>> => m_has_interrupt_callbacks' \/ pc = "take"
         /\ m_callbacks' # <<>> => m_callbacks # <<>> \/ (~i /\ m_callbacks = <<>>)
         /\ m_interrupt_callbacks' # <<>> =>
              m_interrupt_callbacks # <<>> \/ (i /\ m_interrupt_callbacks = <<>>)
<1> DEFINE c == [by |-> t, n |-> Len(posted[t]) + 1, interrupt |-> i]
<1>1. posted[t] \in Seq(BOOLEAN) /\ Len(posted[t]) \in Nat /\ MaxPosts[t] \in Nat
  BY MaxPostsAssumption DEF IInv, TypeOK, MaxPosts
<1>2. c \in Callback
  <2>1. c \in [by : {t}, n : 1..MaxPosts[t], interrupt : BOOLEAN]
    BY <1>1 DEF Push
  <2> QED
    BY <2>1 DEF Callback
<1>3. posted' \in [Callers -> Seq(BOOLEAN)] /\ ran' = ran
  BY <1>1 DEF Push, IInv, TypeOK
<1>4. CASE i
  <2> HIDE DEF c
  <2>1. /\ m_interrupt_callbacks' = Append(m_interrupt_callbacks, c)
        /\ m_has_interrupt_callbacks' =
             (m_has_interrupt_callbacks \/ m_interrupt_callbacks = <<>>)
        /\ UNCHANGED <<m_callbacks, m_has_callbacks>>
    BY <1>4 DEF Push, c
  <2>2. m_interrupt_callbacks' \in Seq(Callback) /\ m_callbacks' \in Seq(Callback)
    BY <1>2, <2>1 DEF IInv, TypeOK
  <2>3. m_has_callbacks' \in BOOLEAN /\ m_has_interrupt_callbacks' \in BOOLEAN
    BY <2>1, Zenon DEF IInv, TypeOK
  <2>4. m_has_interrupt_callbacks' \/ ~(m_interrupt_callbacks # <<>> => m_has_interrupt_callbacks)
    BY <2>1, Zenon
  <2>5. m_has_callbacks' = m_has_callbacks /\ m_callbacks' = m_callbacks
    BY <2>1
  <2> QED
    BY <1>3, <1>4, <2>2, <2>3, <2>4, <2>5 DEF IInv, FlagInv
<1>5. CASE ~i
  <2> HIDE DEF c
  <2>1. /\ m_callbacks' = Append(m_callbacks, c)
        /\ m_has_callbacks' = (m_has_callbacks \/ m_callbacks = <<>>)
        /\ UNCHANGED <<m_interrupt_callbacks, m_has_interrupt_callbacks>>
    BY <1>5 DEF Push, c
  <2>2. m_callbacks' \in Seq(Callback) /\ m_interrupt_callbacks' \in Seq(Callback)
    BY <1>2, <2>1 DEF IInv, TypeOK
  <2>3. m_has_callbacks' \in BOOLEAN /\ m_has_interrupt_callbacks' \in BOOLEAN
    BY <2>1, Zenon DEF IInv, TypeOK
  <2>4. m_has_callbacks' \/ ~(m_callbacks # <<>> => m_has_callbacks)
    BY <2>1, Zenon
  <2>5. m_has_interrupt_callbacks' = m_has_interrupt_callbacks /\ m_interrupt_callbacks' = m_interrupt_callbacks
    BY <2>1
  <2> QED
    BY <1>3, <1>5, <2>2, <2>3, <2>4, <2>5 DEF IInv, FlagInv
<1> QED
  BY <1>4, <1>5

(* A new thread has no callbacks and does not poll.                         *)
LEMMA InitIInv == Init => IInv
<1> SUFFICES ASSUME Init PROVE IInv
  OBVIOUS
<1> USE DEF Init
<1>1. m_callbacks \in Seq(Callback) /\ m_interrupt_callbacks \in Seq(Callback)
      /\ batch \in Seq(Callback)
  OBVIOUS
<1>2. <<>> \in Seq(BOOLEAN)
  OBVIOUS
<1>3. posted \in [Callers -> Seq(BOOLEAN)]
  BY <1>2
<1>4. TypeOK
  BY <1>1, <1>3 DEF TypeOK, LoopStates
<1> QED
  BY <1>4 DEF IInv, FlagInv, PollInv, SleepInv

-----------------------------------------------------------------------------
(* The steps of the posting threads.                                       *)

(* callback() pushed: the list it found empty has its flag, and the poster  *)
(* goes on to interrupt.                                                    *)
LEMMA PostStep ==
  ASSUME IInv, NEW p \in Posters, NEW i \in BOOLEAN, Post(p, i)
  PROVE  IInv'
<1> USE DEF Post
<1>1. p \in Callers /\ Push(p, i)
  BY DEF Callers
<1>2. TypeOK'
  BY <1>1, PushLemma DEF IInv, TypeOK, loop
<1>3. (pc = "run" => batch # <<>>)' /\ FlagInv'
  BY <1>1, PushLemma DEF IInv, FlagInv, loop
<1>4. \A q \in Posters : poster[q] # "idle" => poster'[q] = poster[q]
  BY DEF IInv, TypeOK
<1>5. (Waking => Waking') /\ (Pending => Pending')
  BY <1>4 DEF Waking, Pending
<1>6. PollInv'
  BY <1>5 DEF IInv, PollInv, loop
<1>7. SleepInv'
  <2>1. ASSUME pc \in {"check_interrupt", "wait"}, ListWasEmpty(i)
        PROVE  Pending'
    <3>1. poster'[p] = "interrupt"
      BY <2>1 DEF IInv, TypeOK
    <3>2. m_polling_state = {"polling"} \/ m_polling_state = {"polling", "interrupted"}
      BY <2>1 DEF IInv, TypeOK, PollInv
    <3> QED
      BY <3>1, <3>2, <1>5 DEF IInv, PollInv, Pending
  <2> QED
    BY <1>1, <1>5, <2>1, PushLemma DEF IInv, SleepInv, ListWasEmpty, loop
<1> QED
  BY <1>2, <1>3, <1>6, <1>7 DEF IInv

(* stop_thread_wait() sets its flag and goes on to interrupt.               *)
LEMMA StopStep ==
  ASSUME IInv, Stop
  PROVE  IInv'
<1> USE DEF Stop
<1>1. TypeOK'
  BY ThreadsAssumption DEF IInv, TypeOK, lists, flags, loop, ghost
<1>2. \A q \in Posters : poster[q] # "idle" => poster'[q] = poster[q]
  BY DEF IInv, TypeOK
<1>3. (Waking => Waking') /\ (Pending => Pending')
  BY <1>2 DEF Waking, Pending
<1> QED
  BY <1>1, <1>3 DEF IInv, FlagInv, PollInv, SleepInv, lists, flags, loop

(* Whoever wins the compare-exchange will signal; who loses finds a wake-up *)
(* under way or nobody polling.                                             *)
LEMMA DoInterruptStep ==
  ASSUME IInv, NEW p \in Posters, DoInterrupt(p)
  PROVE  IInv'
<1> USE DEF DoInterrupt
<1>1. TypeOK'
  BY DEF IInv, TypeOK, lists, flags, loop, ghost
<1>2. \A q \in Posters : poster[q] = "signal" => poster'[q] = "signal"
  BY DEF IInv, TypeOK
<1>3. Waking => Waking'
  BY <1>2 DEF Waking
<1>4. CASE m_polling_state = {"polling"}
  <2>1. Waking'
    BY <1>4 DEF IInv, TypeOK, Waking
  <2>2. m_polling_state # {} /\ m_polling_state' # {}
    BY <1>4
  <2> QED
    BY <1>1, <2>1, <2>2 DEF IInv, FlagInv, PollInv, SleepInv, Pending, lists, flags, loop
<1>5. CASE m_polling_state # {"polling"}
  <2>1. Pending => Pending'
    BY <1>3, <1>5 DEF Pending
  <2> QED
    BY <1>1, <1>3, <1>5, <2>1 DEF IInv, FlagInv, PollInv, SleepInv, lists, flags, loop
<1> QED
  BY <1>4, <1>5

(* The eventfd is written.                                                  *)
LEMMA SendSignalStep ==
  ASSUME IInv, NEW p \in Posters, SendSignal(p)
  PROVE  IInv'
<1> USE DEF SendSignal
<1>1. TypeOK'
  BY DEF IInv, TypeOK, lists, flags, loop, ghost
<1>2. Waking' /\ Pending'
  BY DEF Waking, Pending
<1> QED
  BY <1>1, <1>2 DEF IInv, FlagInv, PollInv, SleepInv, lists, flags, loop

-----------------------------------------------------------------------------
(* The steps of the loop.  Those of one kind share a proof: they change     *)
(* neither the lists nor the flags, or they are outside the poll.           *)

(* process_callbacks() takes a list, or finds both empty and clears the     *)
(* flags.                                                                   *)
LEMMA TakeBatchStep ==
  ASSUME IInv, TakeBatch
  PROVE  IInv'
<1>1. pc = "take" /\ pc' \in {"run", "dispatch", "perform"} /\ m_polling_state' = m_polling_state
  BY DEF TakeBatch
<1>2. TypeOK'
  <2>1. m_callbacks' \in Seq(Callback) /\ m_interrupt_callbacks' \in Seq(Callback)
        /\ batch' \in Seq(Callback)
    <3>1. <<>> \in Seq(Callback)
      OBVIOUS
    <3> QED
      BY <3>1, Zenon DEF TakeBatch, IInv, TypeOK, lists
  <2>2. m_has_callbacks' \in BOOLEAN /\ m_has_interrupt_callbacks' \in BOOLEAN
        /\ only_interrupt' \in BOOLEAN
    BY DEF TakeBatch, IInv, TypeOK, flags
  <2> QED
    BY <1>1, <2>1, <2>2 DEF TakeBatch, IInv, TypeOK, LoopStates, ghost
<1>3. FlagInv' /\ (pc = "run" => batch # <<>>)'
  BY DEF TakeBatch, IInv, FlagInv, lists, flags
<1>4. PollInv' /\ SleepInv'
  BY <1>1 DEF IInv, TypeOK, PollInv, SleepInv
<1> QED
  BY <1>2, <1>3, <1>4 DEF IInv

(* One callback of the batch runs.                                          *)
LEMMA RunCallbackStep ==
  ASSUME IInv, RunCallback
  PROVE  IInv'
<1> USE DEF RunCallback
<1>1. batch # <<>> /\ batch \in Seq(Callback)
  BY DEF IInv, TypeOK
<1>2. Head(batch) \in Callback /\ Tail(batch) \in Seq(Callback)
  BY <1>1
<1>3. TypeOK'
  BY <1>2 DEF IInv, TypeOK, LoopStates, lists, flags
<1> QED
  BY <1>3 DEF IInv, TypeOK, FlagInv, PollInv, SleepInv, lists, flags

(* The thread posts to itself, outside of the poll.                         *)
LEMMA SelfPostStep ==
  ASSUME IInv, NEW i \in BOOLEAN, SelfPost(i)
  PROVE  IInv'
<1> USE DEF SelfPost
<1>1. Self \in Callers /\ Push(Self, i)
  BY DEF Callers
<1>2. TypeOK'
  BY <1>1, PushLemma DEF IInv, TypeOK, loop
<1>3. (pc = "run" => batch # <<>>)' /\ FlagInv'
  BY <1>1, PushLemma DEF IInv, FlagInv, loop
<1>4. PollInv' /\ SleepInv'
  BY DEF IInv, TypeOK, PollInv, SleepInv, loop
<1> QED
  BY <1>2, <1>3, <1>4 DEF IInv

(* Outside the poll nothing but the has-flag can be disturbed.              *)
LEMMA OutsidePollStep ==
  ASSUME IInv,
         \/ CallEvents \/ StoreFlag \/ Perform \/ NextEvent
         \/ \E event \in {"wake", "fd"} : Dispatch(event)
  PROVE  IInv'
<1> USE DEF IInv, TypeOK, LoopStates, FlagInv, PollInv, SleepInv, lists, flags, ghost
<1>1. CASE CallEvents
  BY <1>1 DEF CallEvents
<1>2. CASE StoreFlag
  BY <1>2 DEF StoreFlag
<1>3. CASE Perform
  BY <1>3 DEF Perform
<1>4. CASE NextEvent
  BY <1>4 DEF NextEvent
<1>5. CASE \E event \in {"wake", "fd"} : Dispatch(event)
  <2> PICK event \in {"wake", "fd"} : Dispatch(event)
    BY <1>5
  <2> USE DEF Dispatch
  <2>1. pc = "dispatch" /\ pc' = "process" /\ m_polling_state' = {} /\ m_polling_state = {}
    OBVIOUS
  <2>2. wake_event' \in BOOLEAN /\ ready' \in SUBSET {"wake", "fd"}
    OBVIOUS
  <2>3. TypeOK'
    BY <2>2
  <2> QED
    BY <2>1, <2>3
<1> QED
  BY <1>1, <1>2, <1>3, <1>4, <1>5

(* Inside the poll the has-flags are read one after the other.              *)
LEMMA InsidePollStep ==
  ASSUME IInv,
         \/ EnterPoll \/ CheckCallbacks \/ CheckInterruptCallbacks
         \/ (\E events \in SUBSET {"wake", "fd"} : ReturnFromWait(events)) \/ LeavePoll
  PROVE  IInv'
<1> USE DEF IInv, TypeOK, LoopStates, FlagInv, PollInv, SleepInv, Pending, Waking,
            lists, flags, ghost
<1>1. CASE EnterPoll
  BY <1>1 DEF EnterPoll
<1>2. CASE CheckCallbacks
  BY <1>2 DEF CheckCallbacks
<1>3. CASE CheckInterruptCallbacks
  BY <1>3 DEF CheckInterruptCallbacks
<1>4. CASE \E events \in SUBSET {"wake", "fd"} : ReturnFromWait(events)
  BY <1>4 DEF ReturnFromWait
<1>5. CASE LeavePoll
  BY <1>5 DEF LeavePoll
<1> QED
  BY <1>1, <1>2, <1>3, <1>4, <1>5

(* Every step of the loop and of the posting threads keeps the invariant.   *)
LEMMA NextIInv == IInv /\ [Next]_vars => IInv'
<1> SUFFICES ASSUME IInv, [Next]_vars PROVE IInv'
  OBVIOUS
<1>1. CASE Next
  <2>1. CASE TakeBatch
    BY <2>1, TakeBatchStep
  <2>2. CASE RunCallback
    BY <2>2, RunCallbackStep
  <2>3. CASE \/ CallEvents \/ StoreFlag \/ Perform \/ NextEvent
             \/ \E event \in {"wake", "fd"} : Dispatch(event)
    BY <2>3, OutsidePollStep
  <2>4. CASE Wait \/ WaitFdReady \/ WaitTimeout
    <3>1. \E events \in SUBSET {"wake", "fd"} : ReturnFromWait(events)
      BY <2>4 DEF Wait, WaitFdReady, WaitTimeout, Woken
    <3> QED
      BY <3>1, InsidePollStep
  <2>5. CASE EnterPoll \/ CheckCallbacks \/ CheckInterruptCallbacks \/ LeavePoll
    BY <2>5, InsidePollStep
  <2>6. CASE \E i \in BOOLEAN : SelfPost(i)
    BY <2>6, SelfPostStep
  <2>7. CASE Stop
    BY <2>7, StopStep
  <2>8. CASE \E p \in Posters : PosterStep(p)
    BY <2>8, PostStep, DoInterruptStep, SendSignalStep DEF PosterStep
  <2> QED
    BY <1>1, <2>1, <2>2, <2>3, <2>4, <2>5, <2>6, <2>7, <2>8 DEF Next, LoopStep
<1>2. CASE UNCHANGED vars
  BY <1>2 DEF vars, lists, flags, loop, ghost, IInv, TypeOK, FlagInv, PollInv,
              SleepInv, Pending, Waking
<1> QED
  BY <1>1, <1>2

-----------------------------------------------------------------------------
(* Every variable keeps its type, and the poll is never interrupted without *)
(* polling, whatever the threads that call callback().                      *)
THEOREM TypeCorrect == Spec => []TypeOK
<1>1. IInv => TypeOK
  BY DEF IInv
<1> QED
  BY InitIInv, NextIInv, <1>1, PTL DEF Spec

(* The loop never sleeps in epoll_wait on a callback without a wake-up on   *)
(* its way, for any number of posting threads and callbacks.                *)
THEOREM NoLostWakeupHolds == Spec => []NoLostWakeup
<1>1. IInv => NoLostWakeup
  BY DEF IInv, SleepInv, Pending, Waking, NoLostWakeup
<1> QED
  BY InitIInv, NextIInv, <1>1, PTL DEF Spec

-----------------------------------------------------------------------------
(* Every callback runs once, in order.                                     *)

(* A thread posted every c of S before every d of T that went to the same   *)
(* list.                                                                    *)
Before(S, T) ==
  \A c \in S, d \in T : c.by = d.by /\ c.interrupt = d.interrupt => c.n < d.n

Increasing(q) ==
  \A i, j \in DOMAIN q :
    i < j /\ q[i].by = q[j].by /\ q[i].interrupt = q[j].interrupt => q[i].n < q[j].n

(* The order holds within each list and between those that are emptied one  *)
(* after the other; nothing is in the batch but while it runs.              *)
OrderInv ==
  /\ Posted = ran \cup Range(batch) \cup Range(m_interrupt_callbacks) \cup Range(m_callbacks)
  /\ Increasing(batch) /\ Increasing(m_interrupt_callbacks) /\ Increasing(m_callbacks)
  /\ \A c \in Range(m_interrupt_callbacks) : c.interrupt = TRUE
  /\ \A c \in Range(m_callbacks) : c.interrupt = FALSE
  /\ Before(ran, Range(batch)) /\ Before(ran, Range(m_interrupt_callbacks))
  /\ Before(ran, Range(m_callbacks))
  /\ Before(Range(batch), Range(m_interrupt_callbacks)) /\ Before(Range(batch), Range(m_callbacks))
  /\ batch # <<>> => pc = "run"

(* A callback is its three fields.                                          *)
LEMMA CallbackFields ==
  ASSUME NEW c \in Callback
  PROVE  /\ c.by \in Callers /\ c.n \in Nat \ {0} /\ c.interrupt \in BOOLEAN
         /\ c = [by |-> c.by, n |-> c.n, interrupt |-> c.interrupt]
<1>1. PICK t \in Callers : c \in [by : {t}, n : 1..MaxPosts[t], interrupt : BOOLEAN]
  BY DEF Callback
<1>2. MaxPosts[t] \in Nat
  BY MaxPostsAssumption DEF MaxPosts
<1> QED
  BY <1>1, <1>2

(* What push_back does to a list whose callbacks were all posted before c.  *)
LEMMA AppendOrder ==
  ASSUME NEW q \in Seq(Callback), NEW c \in Callback
  PROVE  /\ Range(Append(q, c)) = Range(q) \cup {c}
         /\ Increasing(q) /\ Before(Range(q), {c}) => Increasing(Append(q, c))
<1> DEFINE r == Append(q, c)
<1>1. /\ Len(q) \in Nat /\ DOMAIN q = 1..Len(q) /\ DOMAIN r = 1..(Len(q) + 1)
      /\ \A i \in 1..Len(q) : r[i] = q[i]
      /\ r[Len(q) + 1] = c
  OBVIOUS
<1> HIDE DEF r
<1>2. Range(r) = Range(q) \cup {c}
  <2>1. \A i \in DOMAIN r : r[i] \in Range(q) \cup {c}
    BY <1>1 DEF Range
  <2>2. \A i \in DOMAIN q : q[i] \in Range(r)
    BY <1>1 DEF Range
  <2>3. c \in Range(r)
    BY <1>1 DEF Range
  <2> QED
    BY <2>1, <2>2, <2>3 DEF Range
<1>3. ASSUME Increasing(q), Before(Range(q), {c}) PROVE Increasing(r)
  <2> SUFFICES ASSUME NEW i \in DOMAIN r, NEW j \in DOMAIN r, i < j, r[i].by = r[j].by,
                      r[i].interrupt = r[j].interrupt
               PROVE  r[i].n < r[j].n
    BY DEF Increasing
  <2>1. CASE j \in 1..Len(q)
    <3>1. i \in DOMAIN q /\ j \in DOMAIN q /\ r[i] = q[i] /\ r[j] = q[j]
      BY <1>1, <2>1
    <3> QED
      BY <1>3, <3>1 DEF Increasing
  <2>2. CASE j = Len(q) + 1
    <3>1. i \in DOMAIN q /\ r[i] = q[i] /\ r[j] = c
      BY <1>1, <2>2
    <3>2. q[i] \in Range(q)
      BY <3>1 DEF Range
    <3> QED
      BY <1>3, <3>1, <3>2 DEF Before
  <2> QED
    BY <1>1, <2>1, <2>2
<1> QED
  BY <1>2, <1>3 DEF r

(* What running the first callback of the batch leaves.                     *)
LEMMA TailOrder ==
  ASSUME NEW q \in Seq(Callback), q # <<>>, Increasing(q)
  PROVE  /\ Range(q) = {Head(q)} \cup Range(Tail(q))
         /\ Increasing(Tail(q)) /\ Before({Head(q)}, Range(Tail(q)))
<1> DEFINE r == Tail(q)
<1>1. /\ Len(q) \in Nat \ {0} /\ DOMAIN q = 1..Len(q) /\ DOMAIN r = 1..(Len(q) - 1)
      /\ \A i \in DOMAIN r : i + 1 \in DOMAIN q /\ r[i] = q[i + 1] /\ i \in Nat \ {0}
      /\ Head(q) = q[1]
  OBVIOUS
<1> HIDE DEF r
<1>2. Range(q) = {q[1]} \cup Range(r)
  <2>1. \A i \in DOMAIN q : i = 1 \/ (i - 1 \in DOMAIN r /\ q[i] = r[i - 1])
    BY <1>1
  <2>2. \A i \in DOMAIN q : q[i] \in {q[1]} \cup Range(r)
    BY <2>1 DEF Range
  <2>3. \A i \in DOMAIN r : r[i] \in Range(q)
    BY <1>1 DEF Range
  <2>4. q[1] \in Range(q)
    BY <1>1 DEF Range
  <2> QED
    BY <2>2, <2>3, <2>4 DEF Range
<1>3. Increasing(r)
  <2> SUFFICES ASSUME NEW i \in DOMAIN r, NEW j \in DOMAIN r, i < j, r[i].by = r[j].by,
                      r[i].interrupt = r[j].interrupt
               PROVE  r[i].n < r[j].n
    BY DEF Increasing
  <2>1. i + 1 \in DOMAIN q /\ j + 1 \in DOMAIN q /\ i + 1 < j + 1
    BY <1>1
  <2> QED
    BY <1>1, <2>1 DEF Increasing
<1>4. Before({q[1]}, Range(r))
  <2> SUFFICES ASSUME NEW j \in DOMAIN r, q[1].by = r[j].by, q[1].interrupt = r[j].interrupt
               PROVE  q[1].n < r[j].n
    BY DEF Before, Range
  <2>1. 1 \in DOMAIN q /\ j + 1 \in DOMAIN q /\ 1 < j + 1
    BY <1>1
  <2> QED
    BY <1>1, <2>1 DEF Increasing
<1> QED
  BY <1>1, <1>2, <1>3, <1>4 DEF r

(* A new callback is the last its thread posted.                            *)
LEMMA PushedIsLast ==
  ASSUME NEW t \in Callers, NEW i \in BOOLEAN, IInv, Push(t, i),
         NEW c, c = [by |-> t, n |-> Len(posted[t]) + 1, interrupt |-> i]
  PROVE  c \in Callback /\ Posted' = Posted \cup {c} /\ Before(Posted, {c})
<1>1. posted \in [Callers -> Seq(BOOLEAN)] /\ Len(posted[t]) \in Nat
  BY DEF IInv, TypeOK
<1>2. MaxPosts[t] \in Nat /\ Len(posted[t]) < MaxPosts[t]
  BY MaxPostsAssumption DEF MaxPosts, Push
<1>3. c \in Callback
  <2>1. c \in [by : {t}, n : 1..MaxPosts[t], interrupt : BOOLEAN]
    BY <1>1, <1>2
  <2> QED
    BY <2>1 DEF Callback
<1>4. posted' = [posted EXCEPT ![t] = Append(@, i)]
  BY DEF Push
<1>5. /\ \A s \in Callers \ {t} : posted'[s] = posted[s]
      /\ Len(posted'[t]) = Len(posted[t]) + 1
      /\ \A k \in 1..Len(posted[t]) : posted'[t][k] = posted[t][k]
      /\ posted'[t][Len(posted[t]) + 1] = i
  BY <1>1, <1>4
<1>6. \A d \in Callback : d \in Posted' <=> d \in Posted \/ d = c
  <2> SUFFICES ASSUME NEW d \in Callback PROVE d \in Posted' <=> d \in Posted \/ d = c
    OBVIOUS
  <2>1. /\ d.by \in Callers /\ d.n \in Nat \ {0} /\ d.interrupt \in BOOLEAN
        /\ d = [by |-> d.by, n |-> d.n, interrupt |-> d.interrupt]
    BY CallbackFields
  <2>2. d = c <=> d.by = t /\ d.n = Len(posted[t]) + 1 /\ d.interrupt = i
    BY <2>1
  <2>3. /\ d \in Posted <=> d.n <= Len(posted[d.by]) /\ posted[d.by][d.n] = d.interrupt
        /\ d \in Posted' <=> d.n <= Len(posted'[d.by]) /\ posted'[d.by][d.n] = d.interrupt
    BY DEF Posted
  <2>4. CASE d.by # t
    BY <1>5, <2>1, <2>2, <2>3, <2>4
  <2>5. CASE d.by = t /\ d.n <= Len(posted[t])
    BY <1>1, <1>5, <2>1, <2>2, <2>3, <2>5
  <2>6. CASE d.by = t /\ d.n > Len(posted[t])
    BY <1>1, <1>5, <2>1, <2>2, <2>3, <2>6
  <2> QED
    BY <1>1, <2>1, <2>4, <2>5, <2>6
<1>7. Posted \subseteq Callback /\ Posted' \subseteq Callback
  BY DEF Posted
<1>8. Before(Posted, {c})
  <2> SUFFICES ASSUME NEW d \in Posted, d.by = t PROVE d.n < Len(posted[t]) + 1
    BY DEF Before
  <2>1. d.n \in Nat /\ d.n <= Len(posted[t])
    BY CallbackFields DEF Posted
  <2> QED
    BY <1>1, <2>1
<1> QED
  BY <1>3, <1>6, <1>7, <1>8

(* callback() keeps the order: the new callback is last in its list.        *)
LEMMA PushOrder ==
  ASSUME NEW t \in Callers, NEW i \in BOOLEAN, IInv, OrderInv, Push(t, i), UNCHANGED <<batch, pc>>
  PROVE  OrderInv'
<1> DEFINE c == [by |-> t, n |-> Len(posted[t]) + 1, interrupt |-> i]
<1>1. c \in Callback /\ Posted' = Posted \cup {c} /\ Before(Posted, {c})
  BY PushedIsLast
<1>2. c.interrupt = i
  OBVIOUS
<1>3. /\ i = TRUE => /\ m_interrupt_callbacks' = Append(m_interrupt_callbacks, c)
                     /\ m_callbacks' = m_callbacks
      /\ i = FALSE => /\ m_callbacks' = Append(m_callbacks, c)
                      /\ m_interrupt_callbacks' = m_interrupt_callbacks
      /\ ran' = ran /\ batch' = batch /\ pc' = pc
  BY DEF Push
<1> HIDE DEF c
<1>4. m_callbacks \in Seq(Callback) /\ m_interrupt_callbacks \in Seq(Callback)
  BY DEF IInv, TypeOK
<1>5. /\ Before(ran, {c}) /\ Before(Range(batch), {c})
      /\ Before(Range(m_interrupt_callbacks), {c}) /\ Before(Range(m_callbacks), {c})
  BY <1>1 DEF OrderInv, Before
<1>6. CASE i = TRUE
  <2>1. /\ Range(m_interrupt_callbacks') = Range(m_interrupt_callbacks) \cup {c}
        /\ Increasing(m_interrupt_callbacks')
    BY <1>1, <1>3, <1>4, <1>5, <1>6, AppendOrder DEF OrderInv
  <2> QED
    BY <1>1, <1>2, <1>3, <1>5, <1>6, <2>1 DEF OrderInv, Before
<1>7. CASE i = FALSE
  <2>1. Range(m_callbacks') = Range(m_callbacks) \cup {c} /\ Increasing(m_callbacks')
    BY <1>1, <1>3, <1>4, <1>5, <1>7, AppendOrder DEF OrderInv
  <2> QED
    BY <1>1, <1>2, <1>3, <1>5, <1>7, <2>1 DEF OrderInv, Before
<1> QED
  BY <1>6, <1>7

(* A whole list becomes the batch only once the last batch has run.         *)
LEMMA TakeBatchOrder ==
  ASSUME IInv, OrderInv, TakeBatch
  PROVE  OrderInv'
<1>1. batch = <<>> /\ Range(<<>>) = {}
  BY DEF OrderInv, TakeBatch, Range
<1>2. Posted' = Posted /\ ran' = ran
  BY DEF TakeBatch, ghost, Posted
<1>3. Increasing(<<>>)
  BY DEF Increasing
<1>4. CASE batch' = m_interrupt_callbacks /\ m_interrupt_callbacks' = <<>>
           /\ m_callbacks' = m_callbacks /\ pc' = "run"
  <2>1. Before(Range(m_interrupt_callbacks), Range(m_callbacks))
    BY DEF OrderInv, Before
  <2> QED
    BY <1>1, <1>2, <1>3, <1>4, <2>1 DEF OrderInv, Before
<1>5. CASE batch' = m_callbacks /\ m_callbacks' = <<>>
           /\ m_interrupt_callbacks' = m_interrupt_callbacks /\ pc' = "run"
  <2>1. Before(Range(m_callbacks), Range(m_interrupt_callbacks))
    BY DEF OrderInv, Before
  <2> QED
    BY <1>1, <1>2, <1>3, <1>5, <2>1 DEF OrderInv, Before
<1>6. CASE UNCHANGED <<batch, m_callbacks, m_interrupt_callbacks>>
  BY <1>1, <1>2, <1>6 DEF OrderInv
<1> QED
  BY <1>4, <1>5, <1>6 DEF TakeBatch, lists

(* The head of the batch is the first of its thread in all that waits.      *)
LEMMA RunCallbackOrder ==
  ASSUME IInv, OrderInv, RunCallback
  PROVE  OrderInv'
<1>1. batch # <<>> /\ batch \in Seq(Callback) /\ Increasing(batch)
  BY DEF IInv, TypeOK, OrderInv, RunCallback
<1>2. /\ Range(batch) = {Head(batch)} \cup Range(Tail(batch))
      /\ Increasing(Tail(batch)) /\ Before({Head(batch)}, Range(Tail(batch)))
  BY <1>1, TailOrder
<1>3. /\ ran' = ran \cup {Head(batch)} /\ batch' = Tail(batch)
      /\ m_callbacks' = m_callbacks /\ m_interrupt_callbacks' = m_interrupt_callbacks
      /\ batch' # <<>> => pc' = "run"
  BY DEF RunCallback, lists
<1>4. Posted' = Posted
  BY DEF RunCallback, Posted
<1> QED
  BY <1>2, <1>3, <1>4 DEF OrderInv, Before

(* Every step keeps the order; most leave the lists alone.                  *)
LEMMA NextOrder == IInv /\ OrderInv /\ [Next]_vars => OrderInv'
<1> SUFFICES ASSUME IInv, OrderInv, [Next]_vars PROVE OrderInv'
  OBVIOUS
<1>1. ASSUME UNCHANGED <<lists, batch, ghost>>, pc = "run" => pc' = "run"
      PROVE  OrderInv'
  BY <1>1 DEF OrderInv, Posted, lists, ghost
<1>2. CASE Next
  <2>1. CASE TakeBatch
    BY <2>1, TakeBatchOrder
  <2>2. CASE RunCallback
    BY <2>2, RunCallbackOrder
  <2>3. CASE \E i \in BOOLEAN : SelfPost(i)
    BY <2>3, PushOrder DEF SelfPost, loop, Callers
  <2>4. CASE \E p \in Posters : \E i \in BOOLEAN : Post(p, i)
    BY <2>4, PushOrder DEF Post, loop, Callers
  <2>5. CASE \/ CallEvents \/ StoreFlag \/ Perform \/ NextEvent
             \/ \E event \in {"wake", "fd"} : Dispatch(event)
    BY <1>1, <2>5 DEF CallEvents, StoreFlag, Perform, NextEvent, Dispatch
  <2>6. CASE \/ EnterPoll \/ CheckCallbacks \/ CheckInterruptCallbacks \/ LeavePoll
             \/ Wait \/ WaitFdReady \/ WaitTimeout
    BY <1>1, <2>6 DEF EnterPoll, CheckCallbacks, CheckInterruptCallbacks, LeavePoll,
                      Wait, WaitFdReady, WaitTimeout, ReturnFromWait
  <2>7. CASE Stop \/ \E p \in Posters : DoInterrupt(p) \/ SendSignal(p)
    BY <1>1, <2>7 DEF Stop, DoInterrupt, SendSignal, loop
  <2> QED
    BY <1>2, <2>1, <2>2, <2>3, <2>4, <2>5, <2>6, <2>7 DEF Next, LoopStep, PosterStep
<1>3. CASE UNCHANGED vars
  BY <1>1, <1>3 DEF vars, loop
<1> QED
  BY <1>2, <1>3

(* Distinct elements in a sequence are as many as its length.               *)
LEMMA DistinctCount ==
  ASSUME NEW S, NEW q \in Seq(S), \A i, j \in 1..Len(q) : q[i] = q[j] => i = j
  PROVE  Cardinality({q[i] : i \in DOMAIN q}) = Len(q)
<1> DEFINE T == {q[i] : i \in 1..Len(q)}
<1>1. Len(q) \in Nat /\ DOMAIN q = 1..Len(q) /\ q \in [1..Len(q) -> T]
  OBVIOUS
<1>2. q \in Bijection(1..Len(q), T)
  BY <1>1 DEF Bijection, Injection, Surjection, IsInjective
<1>3. ExistsBijection(1..Len(q), T)
  BY <1>2 DEF ExistsBijection
<1> QED
  BY <1>1, <1>3, FS_CountingElements

(* One list after the other, when no callback is in two of them.            *)
LEMMA ConcatDistinct ==
  ASSUME NEW S, NEW q \in Seq(S), NEW r \in Seq(S),
         \A i, j \in 1..Len(q) : q[i] = q[j] => i = j,
         \A i, j \in 1..Len(r) : r[i] = r[j] => i = j,
         Range(q) \cap Range(r) = {}
  PROVE  /\ q \o r \in Seq(S) /\ Range(q \o r) = Range(q) \cup Range(r)
         /\ \A i, j \in 1..Len(q \o r) : (q \o r)[i] = (q \o r)[j] => i = j
<1> DEFINE s == q \o r
<1>1. /\ Len(q) \in Nat /\ Len(r) \in Nat /\ Len(s) = Len(q) + Len(r) /\ s \in Seq(S)
      /\ DOMAIN q = 1..Len(q) /\ DOMAIN r = 1..Len(r) /\ DOMAIN s = 1..Len(s)
      /\ \A i \in 1..Len(q) : s[i] = q[i]
      /\ \A i \in 1..Len(r) : s[Len(q) + i] = r[i]
  OBVIOUS
<1> HIDE DEF s
<1>2. \A i \in 1..Len(s) : \/ i \in 1..Len(q) /\ s[i] = q[i]
                           \/ i > Len(q) /\ i - Len(q) \in 1..Len(r) /\ s[i] = r[i - Len(q)]
  <2> TAKE i \in 1..Len(s)
  <2>1. CASE i <= Len(q)
    BY <1>1, <2>1
  <2>2. CASE i > Len(q)
    <3>1. i - Len(q) \in 1..Len(r) /\ Len(q) + (i - Len(q)) = i
      BY <1>1, <2>2
    <3> QED
      BY <1>1, <2>2, <3>1
  <2> QED
    BY <1>1, <2>1, <2>2
<1>3. Range(s) = Range(q) \cup Range(r)
  <2>1. \A i \in DOMAIN s : s[i] \in Range(q) \cup Range(r)
    <3> TAKE i \in DOMAIN s
    <3>1. CASE i \in DOMAIN q /\ s[i] = q[i]
      BY <3>1 DEF Range
    <3>2. CASE i - Len(q) \in DOMAIN r /\ s[i] = r[i - Len(q)]
      BY <3>2 DEF Range
    <3> QED
      BY <1>1, <1>2, <3>1, <3>2
  <2>2. \A i \in DOMAIN q : i \in DOMAIN s /\ s[i] = q[i]
    BY <1>1
  <2>3. \A i \in DOMAIN r : Len(q) + i \in DOMAIN s /\ s[Len(q) + i] = r[i]
    BY <1>1
  <2>4. (\A i \in DOMAIN q : q[i] \in Range(s)) /\ (\A i \in DOMAIN r : r[i] \in Range(s))
    BY <2>2, <2>3 DEF Range
  <2> QED
    BY <2>1, <2>4 DEF Range
<1>4. \A i \in 1..Len(q), j \in 1..Len(r) : q[i] # r[j]
  <2> TAKE i \in 1..Len(q), j \in 1..Len(r)
  <2>1. q[i] \in Range(q) /\ r[j] \in Range(r)
    BY <1>1 DEF Range
  <2> QED
    BY <2>1
<1>5. \A i, j \in 1..Len(s) : s[i] = s[j] => i = j
  <2> SUFFICES ASSUME NEW i \in 1..Len(s), NEW j \in 1..Len(s), s[i] = s[j] PROVE i = j
    OBVIOUS
  <2>1. CASE i \in 1..Len(q) /\ j \in 1..Len(q)
    BY <1>1, <2>1
  <2>2. CASE i > Len(q) /\ j > Len(q)
    <3>1. r[i - Len(q)] = r[j - Len(q)] /\ i - Len(q) \in 1..Len(r) /\ j - Len(q) \in 1..Len(r)
      BY <1>1, <1>2, <2>2
    <3>2. i - Len(q) = j - Len(q)
      BY <3>1
    <3> QED
      BY <1>1, <3>2
  <2> QED
    BY <1>1, <1>2, <1>4, <2>1, <2>2
<1> QED
  BY <1>1, <1>3, <1>5 DEF s

(* No callback is twice in a list in order.                                 *)
LEMMA IncreasingDistinct ==
  ASSUME NEW q \in Seq(Callback), Increasing(q)
  PROVE  \A i, j \in 1..Len(q) : q[i] = q[j] => i = j
<1> SUFFICES ASSUME NEW i \in 1..Len(q), NEW j \in 1..Len(q), i < j PROVE q[i] # q[j]
  OBVIOUS
<1>1. q[i] \in Callback /\ q[i].n \in Nat /\ i \in DOMAIN q /\ j \in DOMAIN q
  BY CallbackFields
<1> QED
  BY <1>1 DEF Increasing

(* ... nor in two lists of which one comes before the other.                *)
LEMMA BeforeDisjoint ==
  ASSUME NEW S \in SUBSET Callback, NEW T, Before(S, T)
  PROVE  S \cap T = {}
<1> SUFFICES ASSUME NEW c \in S, c \in T PROVE FALSE
  OBVIOUS
<1>1. c.n \in Nat /\ c.n < c.n
  BY CallbackFields DEF Before
<1> QED
  BY <1>1

(* Every posted callback ran or waits in exactly one place, and those a     *)
(* thread posts to one list run in the order of their posting, for any      *)
(* number of threads and callbacks and whatever batches                     *)
(* process_callbacks() makes.                                               *)
THEOREM OnceAndInOrder == Spec => []EachOnceInOrder
<1>1. Init => OrderInv
  <2> SUFFICES ASSUME Init PROVE OrderInv
    OBVIOUS
  <2>1. Range(<<>>) = {} /\ Increasing(<<>>)
    BY DEF Range, Increasing
  <2>2. Posted = {}
    <3> SUFFICES ASSUME NEW c \in Callback, c.n <= Len(posted[c.by]) PROVE FALSE
      BY DEF Posted
    <3>1. c.by \in Callers /\ c.n \in Nat \ {0}
      BY CallbackFields
    <3>2. Len(posted[c.by]) = 0
      BY <3>1 DEF Init
    <3> QED
      BY <3>1, <3>2
  <2> QED
    BY <2>1, <2>2 DEF Init, OrderInv, Before
<1>2. IInv /\ OrderInv => EachOnceInOrder
  <2> SUFFICES ASSUME IInv, OrderInv PROVE EachOnceInOrder
    OBVIOUS
  <2> DEFINE first == batch \o m_interrupt_callbacks
             pending == first \o m_callbacks
             queued == {pending[i] : i \in DOMAIN pending}
  <2>1. /\ batch \in Seq(Callback) /\ m_interrupt_callbacks \in Seq(Callback)
        /\ m_callbacks \in Seq(Callback) /\ ran \subseteq Callback
    BY DEF IInv, TypeOK
  <2>2. \A q \in Seq(Callback) : Range(q) \subseteq Callback
    BY DEF Range
  <2>3. /\ Range(batch) \cap Range(m_interrupt_callbacks) = {}
        /\ Range(batch) \cap Range(m_callbacks) = {}
        /\ ran \cap Range(batch) = {} /\ ran \cap Range(m_interrupt_callbacks) = {}
        /\ ran \cap Range(m_callbacks) = {}
    BY <2>1, <2>2, BeforeDisjoint DEF OrderInv
  <2>4. Range(m_interrupt_callbacks) \cap Range(m_callbacks) = {}
    BY DEF OrderInv
  <2>5. /\ first \in Seq(Callback)
        /\ Range(first) = Range(batch) \cup Range(m_interrupt_callbacks)
        /\ \A i, j \in 1..Len(first) : first[i] = first[j] => i = j
    BY <2>1, <2>3, ConcatDistinct, IncreasingDistinct DEF OrderInv
  <2> HIDE DEF first
  <2>6. /\ pending \in Seq(Callback)
        /\ Range(pending) = Range(first) \cup Range(m_callbacks)
        /\ \A i, j \in 1..Len(pending) : pending[i] = pending[j] => i = j
    <3>1. Range(first) \cap Range(m_callbacks) = {}
      BY <2>3, <2>4, <2>5
    <3>2. \A i, j \in 1..Len(m_callbacks) : m_callbacks[i] = m_callbacks[j] => i = j
      BY <2>1, IncreasingDistinct DEF OrderInv
    <3> QED
      BY <2>1, <2>5, <3>1, <3>2, ConcatDistinct
  <2> HIDE DEF pending
  <2>7. Cardinality(queued) = Len(pending)
    BY <2>6, DistinctCount
  <2>8. queued = Range(batch) \cup Range(m_interrupt_callbacks) \cup Range(m_callbacks)
    BY <2>5, <2>6 DEF Range
  <2> HIDE DEF queued
  <2>9. /\ Posted = ran \cup queued /\ ran \cap queued = {}
        /\ \A c \in ran, d \in queued :
             c.by = d.by /\ c.interrupt = d.interrupt => c.n < d.n
    BY <2>3, <2>8 DEF OrderInv, Before
  <2> QED
    BY <2>7, <2>9 DEF EachOnceInOrder, first, pending, queued
<1> QED
  BY InitIInv, NextIInv, NextOrder, <1>1, <1>2, PTL DEF Spec
=============================================================================
