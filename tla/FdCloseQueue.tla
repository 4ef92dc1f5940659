----------------------------- MODULE FdCloseQueue -----------------------------
(***************************************************************************)
(* The queue through which FileManager closes descriptors on a worker      *)
(* (utils::FdCloseQueue).  The main thread is the only producer; what a    *)
(* thread does under m_mutex is one step, the atomics outside it are steps *)
(* of their own.  A descriptor stands for one opening of a file.           *)
(***************************************************************************)
EXTENDS Integers

CONSTANT Fds

VARIABLE s

Init ==
  s = [pc |-> "idle", fds |-> {}, queue |-> {}, batch |-> {}, closed |-> {},
       wakeup |-> 0, stopping |-> 0, worker |-> "waiting", last |-> 0]

\* m_remaining counts these but for the closed ones.
Seen == s.fds \cup s.queue \cup s.batch \cup s.closed

\* close_fd() and close_fds(): m_remaining is raised first.
CloseFds(fds) ==
  /\ s.pc = "idle" /\ fds # {} /\ fds \cap Seen = {}
  /\ s' = [s EXCEPT !.pc = "counted", !.fds = fds]

\* No wake-up while the worker is at the last ones.
QueuedWhileClosing(t) == IF t.queue = {} /\ t.worker # "closing" THEN "notify" ELSE "idle"

\* Only what finds the queue empty wakes the worker.
Queued(t) == IF t.queue = {} THEN "notify" ELSE "idle"

Queue ==
  /\ s.pc = "counted"
  /\ s' = [s EXCEPT !.pc = Queued(s), !.queue = @ \cup s.fds, !.fds = {}]

Notify ==
  /\ s.pc = "notify"
  /\ s' = [s EXCEPT !.pc = "idle", !.wakeup = 1]

\* ~FdCloseQueue().
Destroy ==
  /\ s.pc = "idle"
  /\ s' = [s EXCEPT !.pc = "destroy", !.stopping = 1]

DestroyNotify ==
  /\ s.pc = "destroy"
  /\ s' = [s EXCEPT !.pc = "join", !.wakeup = 1]

Join ==
  /\ s.pc = "join" /\ s.worker = "exited"
  /\ s' = [s EXCEPT !.pc = "destroyed"]

\* The worker: m_wakeup_worker.wait(false).
Wake ==
  /\ s.worker = "waiting" /\ s.wakeup = 1
  /\ s' = [s EXCEPT !.worker = "woken"]

Take ==
  /\ s.worker = "woken"
  /\ \/ /\ s.queue = {}
        /\ s' = [s EXCEPT !.worker = IF s.stopping = 1 THEN "exited" ELSE "thrown"]
     \/ /\ s.queue # {}
        /\ s' = [s EXCEPT !.worker = "closing", !.batch = s.queue, !.queue = {},
                          !.wakeup = 0, !.last = s.stopping]

CloseOne ==
  /\ s.worker = "closing"
  /\ \E fd \in s.batch :
       s' = [s EXCEPT !.batch = @ \ {fd}, !.closed = @ \cup {fd}]

BatchEnds ==
  /\ s.worker = "closing" /\ s.batch = {}
  /\ s' = [s EXCEPT !.worker = IF s.last = 1 THEN "exited" ELSE "waiting"]

Next ==
  \/ \E fds \in SUBSET Fds : CloseFds(fds)
  \/ Queue \/ Notify \/ Destroy \/ DestroyNotify \/ Join
  \/ Wake \/ Take \/ CloseOne \/ BatchEnds

\* A destroyed queue does nothing more.
Destroyed == s.pc = "destroyed" /\ UNCHANGED s

Spec == Init /\ [][Next \/ Destroyed]_s

-----------------------------------------------------------------------------
(* Properties.                                                             *)

TypeOK ==
  s \in [pc : {"idle", "counted", "notify", "destroy", "join", "destroyed"},
         fds : SUBSET Fds, queue : SUBSET Fds, batch : SUBSET Fds, closed : SUBSET Fds,
         wakeup : {0, 1}, stopping : {0, 1}, last : {0, 1},
         worker : {"waiting", "woken", "closing", "exited", "thrown"}]

\* The worker never wakes to an empty queue, which it throws an internal_error
\* for, although the wake-up is stored after the lock is released.
NeverWokenForNothing == s.worker # "thrown"

\* What is queued has its wake-up stored or about to be stored: no descriptor
\* waits for the next one to be closed.
NoneForgotten == s.queue # {} => s.wakeup = 1 \/ s.pc = "notify"

\* A descriptor is at one place of its way to close(), and a destroyed queue
\* has closed all it was given.
ClosedOnce ==
  /\ s.batch \cap s.closed = {} /\ s.batch \cap s.queue = {} /\ s.queue \cap s.closed = {}
  /\ s.fds \cap (s.queue \cup s.batch \cup s.closed) = {}
  /\ s.pc = "destroyed" => s.fds = {} /\ s.queue = {} /\ s.batch = {}

=============================================================================
