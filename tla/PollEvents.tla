------------------------------ MODULE PollEvents ------------------------------
(***************************************************************************)
(* The poll set of a thread (Poll, PollInternal, PollEvent): which events  *)
(* the kernel reports, and which handlers process() calls for them.        *)
(* `Backends' picks poll_epoll.cc or poll_kqueue.cc; with kqueue changes   *)
(* are buffered and go to the kernel with the next poll or flush().        *)
(*                                                                         *)
(* A PollEvent is a number; `alive' are those some shared_ptr still owns.  *)
(* Handlers, callbacks and timers are any calls of the interface made      *)
(* between two looks at the poll set.                                      *)
(***************************************************************************)
EXTENDS Integers, Sequences, TLAPS

CONSTANTS
  Events,     \* system::Event objects, positive numbers
  Backends,   \* subset of {"epoll", "kqueue"}
  MaxOpens,   \* bound on PollEvents made
  MaxChanges, \* m_max_events, as the size of the change buffer
  MaxBatch    \* bound on the events one poll returns

ASSUME PollAssumption ==
  /\ Events \subseteq Nat \ {0} /\ MaxOpens \in Nat
  /\ Backends \subseteq {"epoll", "kqueue"}

VARIABLE ps     \* the events, their PollEvents and the kernel's set

PollBits == {"r", "w"}
NoEvent == 0
PollIds == 1..MaxOpens

\* fd: 0 is -1.  A descriptor is as good as its number: each event takes a free one.
PollInit ==
  \E b \in Backends :
    ps = [backend |-> b, fd |-> [e \in Events |-> 0], pe |-> [e \in Events |-> NoEvent],
          table |-> [f \in Events |-> NoEvent], mask |-> [i \in PollIds |-> {}],
          owner |-> [i \in PollIds |-> NoEvent], alive |-> {}, closed |-> {}, opens |-> 0,
          kernel |-> {}, changes |-> <<>>, batch |-> <<>>, processing |-> FALSE,
          stale |-> FALSE, thrown |-> FALSE]

PollThrow(t) == [t EXCEPT !.thrown = TRUE]

EventMask(t, e) == t.mask[t.table[t.fd[e]]]

\* event_mask() throws for a descriptor or an event that is not in the table.
Known(t, e) == t.fd[e] # 0 /\ t.table[t.fd[e]] # NoEvent /\ t.owner[t.table[t.fd[e]]] = e

-----------------------------------------------------------------------------
(* The kernel's side.                                                      *)

Registered(t, f) == {b \in PollBits : \E k \in t.kernel : k.fd = f /\ k.bit = b}

\* A change is the last word on its filter until another one comes.
Touches(c, x) == c.fd = x.fd /\ c.bit = x.bit
Entry(c) == [fd |-> c.fd, bit |-> c.bit, id |-> c.id]

\* The kernel's set after the first n of the buffered changes.
Applied(kernel, changes, n) ==
  {x \in kernel : \A i \in 1..n : ~Touches(changes[i], x)} \cup
  {Entry(changes[i]) : i \in {i \in 1..n :
     changes[i].add /\ \A j \in (i + 1)..n : ~Touches(changes[j], changes[i])}}

\* A deletion of what is not there is an error.
BadChange(kernel, changes, i) ==
  ~changes[i].add /\ ~\E x \in Applied(kernel, changes, i - 1) : Touches(changes[i], x)

Flushed(t) == Applied(t.kernel, t.changes, Len(t.changes))
FlushFails(t) == \E i \in 1..Len(t.changes) : BadChange(t.kernel, t.changes, i)

Flush(t) ==
  [t EXCEPT !.kernel = Flushed(t), !.changes = <<>>, !.thrown = @ \/ FlushFails(t)]

\* PollInternal::modify() with kqueue: one filter, buffered.
ModifyKqueue(t, e, bit, add) ==
  LET f == IF Len(t.changes) = MaxChanges THEN Flush(t) ELSE t
  IN  [f EXCEPT !.changes = Append(@, [add |-> add, fd |-> t.fd[e], bit |-> bit, id |-> t.pe[e]])]

\* PollInternal::modify() with epoll: ADD, MOD or DEL of the whole mask.
ModifyEpoll(t, e, old, new) ==
  LET f == t.fd[e]
      rest == {k \in t.kernel : k.fd # f}
      now == Registered(t, f)
      bad == IF old = {} THEN now # {} ELSE now = {}
  IN  [t EXCEPT !.kernel = rest \cup {[fd |-> f, bit |-> b, id |-> t.pe[e]] : b \in new},
                !.thrown = @ \/ bad]

-----------------------------------------------------------------------------
(* The interface.                                                          *)

Open(t, e) ==
  LET id == t.opens + 1 IN
  IF t.fd[e] = 0 \/ t.pe[e] # NoEvent \/ t.table[t.fd[e]] # NoEvent THEN PollThrow(t)
  ELSE [t EXCEPT !.opens = id, !.pe[e] = id, !.table[t.fd[e]] = id, !.owner[id] = e,
                 !.mask[id] = {}, !.alive = @ \cup {id}]

SetMask(t, e, mask) == [t EXCEPT !.mask[t.pe[e]] = mask]

InsertBit(t, e, bit) ==
  LET old == EventMask(t, e) IN
  IF ~Known(t, e) THEN PollThrow(t)
  ELSE IF bit \in old THEN t
  ELSE IF t.backend = "epoll" THEN ModifyEpoll(SetMask(t, e, old \cup {bit}), e, old, old \cup {bit})
  ELSE ModifyKqueue(SetMask(t, e, old \cup {bit}), e, bit, TRUE)

RemoveBit(t, e, bit) ==
  LET old == EventMask(t, e) IN
  IF ~Known(t, e) THEN PollThrow(t)
  ELSE IF bit \notin old THEN t
  ELSE IF t.backend = "epoll" THEN ModifyEpoll(SetMask(t, e, old \ {bit}), e, old, old \ {bit})
  ELSE ModifyKqueue(SetMask(t, e, old \ {bit}), e, bit, FALSE)

\* The PollEvent is not kept for the rest of the batch.
CloseForgets(t, e) ==
  LET id == t.pe[e]
      f == IF t.backend = "kqueue" THEN Flush(t) ELSE t
  IN  IF id = NoEvent THEN t
      ELSE IF ~Known(t, e) \/ EventMask(t, e) # {} THEN PollThrow(t)
      ELSE [f EXCEPT !.table[t.fd[e]] = NoEvent, !.owner[id] = NoEvent, !.pe[e] = NoEvent, !.alive = @ \ {id}]

\* The buffered changes are left to the next poll.
CloseUnflushed(t, e) ==
  LET id == t.pe[e]
  IN  IF id = NoEvent THEN t
      ELSE IF ~Known(t, e) \/ EventMask(t, e) # {} THEN PollThrow(t)
      ELSE [t EXCEPT !.table[t.fd[e]] = NoEvent, !.owner[id] = NoEvent, !.pe[e] = NoEvent,
                     !.closed = IF t.processing THEN @ \cup {id} ELSE @,
                     !.alive = IF t.processing THEN @ ELSE @ \ {id}]

Close(t, e) ==
  LET id == t.pe[e]
      f == IF t.backend = "kqueue" THEN Flush(t) ELSE t
  IN  IF id = NoEvent THEN t
      ELSE IF ~Known(t, e) \/ EventMask(t, e) # {} THEN PollThrow(t)
      ELSE [f EXCEPT !.table[t.fd[e]] = NoEvent, !.owner[id] = NoEvent, !.pe[e] = NoEvent,
                     !.closed = IF t.processing THEN @ \cup {id} ELSE @,
                     !.alive = IF t.processing THEN @ ELSE @ \ {id}]

RemoveAndClose(t, e) == Close(RemoveBit(RemoveBit(t, e, "r"), e, "w"), e)

\* The owner then closes the descriptor, which takes it out of the kernel's set.
CloseFd(t, e) ==
  [t EXCEPT !.kernel = {k \in @ : k.fd # t.fd[e]}, !.fd[e] = 0]

-----------------------------------------------------------------------------
(* The calls.                                                              *)

FreeFds == {f \in Events : \A e \in Events : ps.fd[e] # f}

OpenEvent(e) ==
  /\ ps.fd[e] = 0 /\ ps.opens < MaxOpens
  /\ \E f \in FreeFds : ps' = Open([ps EXCEPT !.fd[e] = f], e)

InsertEvent(e) == ps.pe[e] # NoEvent /\ \E b \in PollBits : ps' = InsertBit(ps, e, b)
RemoveEvent(e) == ps.pe[e] # NoEvent /\ \E b \in PollBits : ps' = RemoveBit(ps, e, b)
CloseEvent(e) == ps.fd[e] # 0 /\ ps' = CloseFd(RemoveAndClose(ps, e), e)

-----------------------------------------------------------------------------
(* Poll::do_poll().                                                        *)

\* What the kernel may report: for epoll the ready bits of a descriptor or an
\* error, for kqueue each filter by itself.
Reports(t) ==
  {[id |-> k.id, ready |-> r, err |-> FALSE] :
     k \in t.kernel, r \in IF t.backend = "epoll" THEN SUBSET PollBits \ {{}} ELSE {{b} : b \in PollBits}}
  \cup {[id |-> k.id, ready |-> {}, err |-> TRUE] : k \in t.kernel}

Fits(t, r) == r.err \/ \A b \in r.ready : \E k \in t.kernel : k.id = r.id /\ k.bit = b

\* An epoll_wait() returns a descriptor once, a kevent() each filter once.
Batches(t) ==
  LET one == {r \in Reports(t) : Fits(t, r)}
  IN  {<<r>> : r \in one} \cup
      {q \in {<<r1, r2>> : r1 \in one, r2 \in one} :
         /\ MaxBatch > 1
         /\ IF t.backend = "epoll" THEN q[1].id # q[2].id
            ELSE q[1] # q[2] /\ ~q[1].err /\ ~q[2].err}

DoPoll ==
  /\ ~ps.processing
  /\ LET t == Flush(ps)
     IN  \E b \in Batches(t) : ps' = [t EXCEPT !.batch = b, !.processing = TRUE, !.closed = {}]

\* One look at the front of the batch; the read handler runs before the write
\* bit is looked at.
\* Anyway: handlers are called for whatever the kernel reported.
CallHandlerAnyway(t, bit, ready) ==
  LET r == Head(t.batch)
      call == bit \in ready
      e == t.owner[r.id]
  IN  [t EXCEPT !.stale = @ \/ r.id \notin t.alive \/ (call /\ (e = NoEvent \/ t.fd[e] = 0)),
                !.batch = IF bit = "r" THEN <<[r EXCEPT !.ready = @ \ {"r"}, !.err = FALSE]>> \o Tail(@)
                          ELSE Tail(@)]
CallHandler(t, bit, ready) ==
  LET r == Head(t.batch)
      call == bit \in ready /\ bit \in t.mask[r.id]
      e == t.owner[r.id]
  IN  [t EXCEPT !.stale = @ \/ r.id \notin t.alive \/ (call /\ (e = NoEvent \/ t.fd[e] = 0)),
                !.batch = IF bit = "r" THEN <<[r EXCEPT !.ready = @ \ {"r"}, !.err = FALSE]>> \o Tail(@)
                          ELSE Tail(@)]

\* event_error() closes the event.
CallError(t) ==
  LET r == Head(t.batch)
      e == t.owner[r.id]
      u == [t EXCEPT !.batch = Tail(@), !.stale = @ \/ r.id \notin t.alive]
  IN  IF e = NoEvent THEN u ELSE CloseFd(RemoveAndClose(u, e), e)

Process ==
  /\ ps.processing /\ ps.batch # <<>>
  /\ LET r == Head(ps.batch)
     IN  ps' = IF r.err THEN CallError(ps)
              ELSE IF "r" \in r.ready THEN CallHandler(ps, "r", r.ready)
              ELSE CallHandler(ps, "w", r.ready)

ProcessEnds ==
  /\ ps.processing /\ ps.batch = <<>>
  /\ ps' = [ps EXCEPT !.processing = FALSE, !.alive = @ \ ps.closed, !.closed = {}]

PollNext ==
  \/ \E e \in Events : OpenEvent(e) \/ InsertEvent(e) \/ RemoveEvent(e) \/ CloseEvent(e)
  \/ DoPoll \/ Process \/ ProcessEnds

PollSpec == PollInit /\ [][PollNext]_ps

-----------------------------------------------------------------------------
(* Properties.                                                             *)

\* process() never touches a PollEvent that is gone and never calls a handler of
\* an event that was closed or is not listening, although handlers earlier in
\* the batch may close or reopen events and the descriptors are reused.
NoStaleHandler == ~ps.stale

\* What the kernel watches, with the changes buffered for it, is what the masks
\* say, and it points to the PollEvent in the table.
KernelMatches ==
  LET k == Flushed(ps)
  IN  /\ \A e \in Events : ps.pe[e] # NoEvent =>
           {x.bit : x \in {x \in k : x.fd = ps.fd[e]}} = ps.mask[ps.pe[e]]
      /\ \A x \in k : x.id \in ps.alive /\ ps.table[x.fd] = x.id
      /\ \A i \in DOMAIN ps.changes : ps.table[ps.changes[i].fd] = ps.changes[i].id

\* No internal_error is reached, now or when the changes go to the kernel.
NoPollError == ~ps.thrown /\ ~FlushFails(ps)

\* A handler is called only for an event that is open and has asked for it, also
\* when an earlier handler of the batch closed it and its descriptor was used
\* again; what the kernel watches is what was asked for.
HandlersAreLive == NoStaleHandler /\ KernelMatches /\ NoPollError


-----------------------------------------------------------------------------
(* PollEvents.  The inductive invariant.                                   *)

Watch == [fd : Events, bit : PollBits, id : PollIds]
Change == [add : BOOLEAN, fd : Events, bit : PollBits, id : PollIds]
Report == [id : PollIds, ready : SUBSET PollBits, err : BOOLEAN]
Changes == Seq(Change)
Batch == Seq(Report)

PollState ==
  [backend : {"epoll", "kqueue"}, fd : [Events -> Events \cup {0}],
   pe : [Events -> PollIds \cup {NoEvent}], table : [Events -> PollIds \cup {NoEvent}],
   mask : [PollIds -> SUBSET PollBits], owner : [PollIds -> Events \cup {NoEvent}],
   alive : SUBSET PollIds, closed : SUBSET PollIds, opens : Nat, kernel : SUBSET Watch,
   changes : Changes, batch : Batch, processing : BOOLEAN, stale : BOOLEAN, thrown : BOOLEAN]

\* An event with a descriptor, its PollEvent and the table's entry point to each other; a
\* PollEvent that is closed is owned by no event and listens for nothing.
TableInv(t) ==
  /\ \A e \in Events : t.fd[e] = 0 <=> t.pe[e] = NoEvent
  /\ \A e \in Events : t.pe[e] # NoEvent =>
       /\ t.table[t.fd[e]] = t.pe[e] /\ t.owner[t.pe[e]] = e
       /\ t.pe[e] \in t.alive /\ t.pe[e] <= t.opens
  /\ \A f \in Events : t.table[f] # NoEvent => \E e \in Events : t.fd[e] = f /\ t.pe[e] = t.table[f]
  /\ \A i \in PollIds : t.owner[i] # NoEvent => t.pe[t.owner[i]] = i
  /\ \A i \in PollIds : t.owner[i] = NoEvent => t.mask[i] = {}

\* The kernel's set, once the buffered changes reach it, is what the masks say.
KernelInv(t) ==
  /\ \A e \in Events : t.pe[e] # NoEvent =>
       \A b \in PollBits : b \in t.mask[t.pe[e]] <=> \E x \in Flushed(t) : x.fd = t.fd[e] /\ x.bit = b
  /\ \A x \in Flushed(t) : t.table[x.fd] = x.id
  /\ \A i \in 1..Len(t.changes) : t.table[t.changes[i].fd] = t.changes[i].id
  /\ ~FlushFails(t)
  /\ t.backend = "epoll" => t.changes = <<>>

\* The PollEvents of a batch live until it is processed.
BatchInv(t) ==
  /\ \A k \in 1..Len(t.batch) : t.batch[k].id \in t.alive
  /\ \A i \in t.closed : t.owner[i] = NoEvent /\ i <= t.opens
  /\ ~t.processing => t.batch = <<>> /\ t.closed = {}

PollInv(t) == t \in PollState /\ TableInv(t) /\ KernelInv(t) /\ BatchInv(t) /\ ~t.stale /\ ~t.thrown

PollInvHolds == PollInv(ps)

-----------------------------------------------------------------------------
(* The buffered changes.                                                   *)

\* Without changes the kernel's set stays.
LEMMA AppliedNone ==
  ASSUME NEW kernel
  PROVE  Applied(kernel, <<>>, Len(<<>>)) = kernel /\ Applied(kernel, <<>>, 0) = kernel
<1>1. Len(<<>>) = 0 /\ 1..0 = {}
  OBVIOUS
<1>2. Applied(kernel, <<>>, 0) = kernel
  BY <1>1 DEF Applied
<1> QED BY <1>1, <1>2

\* What the set is made of.
LEMMA AppliedIs ==
  ASSUME NEW kernel, NEW changes, NEW n \in Nat, NEW x
  PROVE  x \in Applied(kernel, changes, n) <=>
           \/ x \in kernel /\ \A i \in 1..n : ~Touches(changes[i], x)
           \/ \E i \in 1..n : /\ changes[i].add /\ x = Entry(changes[i])
                             /\ \A j \in (i + 1)..n : ~Touches(changes[j], changes[i])
BY DEF Applied

\* Entries of changes are watched filters.
LEMMA AppliedType ==
  ASSUME NEW kernel \in SUBSET Watch, NEW changes \in Changes, NEW n \in 0..Len(changes)
  PROVE  Applied(kernel, changes, n) \subseteq Watch
<1>1. Len(changes) \in Nat /\ \A i \in 1..Len(changes) : changes[i] \in Change
  BY DEF Changes
<1>2. \A i \in 1..Len(changes) : Entry(changes[i]) \in Watch
  BY <1>1 DEF Entry, Change, Watch
<1>3. n \in Nat /\ \A i \in 1..n : i \in 1..Len(changes)
  BY <1>1
<1>4. ASSUME NEW x \in Applied(kernel, changes, n) PROVE x \in Watch
  BY <1>2, <1>3, <1>4, AppliedIs
<1> QED BY <1>4

\* One more change: what it does not touch stays, and an addition adds its entry.
LEMMA AppliedAppend ==
  ASSUME NEW kernel, NEW changes \in Changes, NEW c \in Change
  PROVE  LET more == Append(changes, c)
             n == Len(changes)
         IN  /\ more \in Changes /\ Len(more) = n + 1 /\ more[n + 1] = c
             /\ \A i \in 1..n : more[i] = changes[i]
             /\ \A m \in 0..n : Applied(kernel, more, m) = Applied(kernel, changes, m)
             /\ \A x : x \in Applied(kernel, more, n + 1) <=>
                  \/ x \in Applied(kernel, changes, n) /\ ~Touches(c, x)
                  \/ c.add /\ x = Entry(c)
<1> DEFINE more == Append(changes, c)
           n == Len(changes)
<1>1. /\ n \in Nat /\ more \in Changes /\ Len(more) = n + 1 /\ more[n + 1] = c
      /\ \A i \in 1..n : more[i] = changes[i]
  BY DEF Changes
<1> HIDE DEF more, n
<1>2. ASSUME NEW m \in 0..n PROVE Applied(kernel, more, m) = Applied(kernel, changes, m)
  <2>1. m \in Nat /\ (\A i \in 1..m : i \in 1..n) /\ \A i \in 1..m : \A j \in (i + 1)..m : j \in 1..n
    BY <1>1
  <2>2. \A x : x \in Applied(kernel, more, m) <=> x \in Applied(kernel, changes, m)
    BY <1>1, <2>1, AppliedIs
  <2>3. \A A, B : (\A x : x \in A <=> x \in B) => A = B
    BY SMTT(60)
  <2> QED BY <2>2, <2>3, Zenon
<1>3. ASSUME NEW x
      PROVE  x \in Applied(kernel, more, n + 1) <=>
               \/ x \in Applied(kernel, changes, n) /\ ~Touches(c, x)
               \/ c.add /\ x = Entry(c)
  <2>1. \A d, y : Touches(d, Entry(y)) <=> Touches(d, y)
    BY DEF Touches, Entry
  <2>2. \A i : i \in 1..(n + 1) <=> i \in 1..n \/ i = n + 1
    BY <1>1
  <2>3. \A i \in 1..n : \A j : j \in (i + 1)..(n + 1) <=> j \in (i + 1)..n \/ j = n + 1
    BY <1>1
  <2>4. \A j : j \notin (n + 1 + 1)..(n + 1)
    BY <1>1
  <2>5. \A i \in 1..n : \A j \in (i + 1)..n : j \in 1..n
    BY <1>1
  <2>6. n + 1 \in Nat
    BY <1>1
  <2>7. (x \in kernel /\ \A i \in 1..(n + 1) : ~Touches(more[i], x)) <=>
          (x \in kernel /\ (\A i \in 1..n : ~Touches(changes[i], x)) /\ ~Touches(c, x))
    BY <2>2, <1>1
  <2>8. ASSUME NEW i \in 1..n
        PROVE  (/\ more[i].add /\ x = Entry(more[i])
                /\ \A j \in (i + 1)..(n + 1) : ~Touches(more[j], more[i])) <=>
               (/\ changes[i].add /\ x = Entry(changes[i])
                /\ \A j \in (i + 1)..n : ~Touches(changes[j], changes[i])) /\ ~Touches(c, x)
    <3>1. more[i] = changes[i] /\ \A j \in (i + 1)..n : more[j] = changes[j]
      BY <1>1, <2>5
    <3>2. (\A j \in (i + 1)..(n + 1) : ~Touches(more[j], more[i])) <=>
            (\A j \in (i + 1)..n : ~Touches(changes[j], changes[i])) /\ ~Touches(c, changes[i])
      BY <1>1, <2>3, <3>1
    <3> QED BY <3>1, <3>2, <2>1
  <2>9. (/\ more[n + 1].add /\ x = Entry(more[n + 1])
         /\ \A j \in (n + 1 + 1)..(n + 1) : ~Touches(more[j], more[n + 1])) <=> c.add /\ x = Entry(c)
    BY <1>1, <2>4
  <2> QED BY <2>2, <2>6, <2>7, <2>8, <2>9, <1>1, AppliedIs, SMTT(60)
<1> QED BY <1>1, <1>2, <1>3 DEF more, n

-----------------------------------------------------------------------------
(* The calls on the poll set.                                              *)

\* flush() hands over what is asked for and loses nothing.
LEMMA FlushKeeps ==
  ASSUME NEW t, PollInv(t)
  PROVE  /\ PollInv(Flush(t)) /\ Flushed(Flush(t)) = Flushed(t) /\ Flush(t).kernel = Flushed(t)
         /\ Flush(t) = [t EXCEPT !.kernel = Flushed(t), !.changes = <<>>, !.thrown = FALSE]
         /\ Flush(t).changes = <<>>
<1> DEFINE k == Flushed(t)
           u == [t EXCEPT !.kernel = k, !.changes = <<>>, !.thrown = FALSE]
<1>1. t \in PollState /\ TableInv(t) /\ KernelInv(t) /\ BatchInv(t) /\ ~t.stale /\ ~t.thrown
  BY DEF PollInv
<1>2. Flush(t) = u
  <2>1. (t.thrown \/ FlushFails(t)) = FALSE
    BY <1>1 DEF KernelInv
  <2> QED BY <2>1, Zenon DEF Flush
<1>3. k \in SUBSET Watch
  <2>1. t.kernel \in SUBSET Watch /\ t.changes \in Changes
    BY <1>1 DEF PollState
  <2>2. Len(t.changes) \in 0..Len(t.changes)
    BY <2>1 DEF Changes
  <2> QED BY <2>1, <2>2, AppliedType DEF Flushed
<1> HIDE DEF k
<1>4. <<>> \in Changes /\ Len(<<>>) = 0
  BY DEF Changes
<1>5. u \in PollState
  BY <1>1, <1>3, <1>4, Zenon DEF PollState
<1>6. /\ u.kernel = k /\ u.changes = <<>> /\ u.thrown = FALSE /\ u.backend = t.backend
      /\ u.fd = t.fd /\ u.pe = t.pe /\ u.table = t.table /\ u.mask = t.mask /\ u.owner = t.owner
      /\ u.alive = t.alive /\ u.closed = t.closed /\ u.opens = t.opens /\ u.batch = t.batch
      /\ u.processing = t.processing /\ u.stale = t.stale
  BY <1>1 DEF PollState
<1> HIDE DEF u
<1>7. Flushed(u) = k
  BY <1>6, AppliedNone DEF Flushed
<1>8. ~FlushFails(u)
  BY <1>4, <1>6 DEF FlushFails
<1>9. TableInv(u) /\ BatchInv(u)
  BY <1>1, <1>6 DEF TableInv, BatchInv
<1>10. KernelInv(u)
  BY <1>1, <1>4, <1>6, <1>7, <1>8 DEF KernelInv, k
<1>11. PollInv(u)
  BY <1>1, <1>5, <1>6, <1>9, <1>10 DEF PollInv
<1>12. u = [t EXCEPT !.kernel = Flushed(t), !.changes = <<>>, !.thrown = FALSE]
  BY DEF u, k
<1> QED BY <1>2, <1>6, <1>7, <1>11, <1>12 DEF k

\* An event that is open is in the table.
LEMMA OpenIsKnown ==
  ASSUME NEW t, PollInv(t), NEW e \in Events, t.pe[e] # NoEvent
  PROVE  /\ Known(t, e) /\ t.pe[e] \in PollIds /\ t.fd[e] \in Events
         /\ t.table[t.fd[e]] = t.pe[e] /\ t.owner[t.pe[e]] = e
         /\ EventMask(t, e) = t.mask[t.pe[e]] /\ t.mask[t.pe[e]] \in SUBSET PollBits
<1>1. t \in PollState /\ TableInv(t)
  BY DEF PollInv
<1>2. t.pe[e] \in PollIds /\ t.fd[e] \in Events \cup {0}
  BY <1>1 DEF PollState
<1>3. t.fd[e] \in Events
  BY <1>1, <1>2 DEF TableInv
<1>4. t.table[t.fd[e]] = t.pe[e] /\ t.owner[t.pe[e]] = e
  BY <1>1 DEF TableInv
<1>5. t.fd[e] # 0
  BY <1>3, PollAssumption
<1> QED BY <1>1, <1>2, <1>3, <1>4, <1>5 DEF Known, EventMask, PollState

\* The mask of an open event changes: nothing but the kernel's set depends on it.
LEMMA MaskChange ==
  ASSUME NEW t, PollInv(t), NEW e \in Events, t.pe[e] # NoEvent, NEW new \in SUBSET PollBits
  PROVE  LET u == SetMask(t, e, new)
         IN  /\ u \in PollState /\ TableInv(u) /\ BatchInv(u)
             /\ u = [t EXCEPT !.mask = [t.mask EXCEPT ![t.pe[e]] = new]]
             /\ u.mask[t.pe[e]] = new
             /\ \A d \in Events : d # e /\ t.pe[d] # NoEvent => u.mask[t.pe[d]] = t.mask[t.pe[d]]
<1> DEFINE mask == [t.mask EXCEPT ![t.pe[e]] = new]
           u == [t EXCEPT !.mask = mask]
<1>1. t \in PollState /\ TableInv(t) /\ BatchInv(t)
  BY DEF PollInv
<1>2. t.pe[e] \in PollIds /\ t.owner[t.pe[e]] = e /\ t.mask \in [PollIds -> SUBSET PollBits]
  BY <1>1, OpenIsKnown DEF PollState
<1>3. SetMask(t, e, new) = u
  BY <1>1 DEF SetMask, PollState
<1>4. /\ mask \in [PollIds -> SUBSET PollBits] /\ mask[t.pe[e]] = new
      /\ \A i \in PollIds : i # t.pe[e] => mask[i] = t.mask[i]
  BY <1>2
<1> HIDE DEF mask
<1>5. u \in PollState
  BY <1>1, <1>4, SMTT(60) DEF PollState
<1>6. /\ u.mask = mask /\ u.fd = t.fd /\ u.pe = t.pe /\ u.table = t.table /\ u.owner = t.owner
      /\ u.alive = t.alive /\ u.closed = t.closed /\ u.opens = t.opens /\ u.batch = t.batch
      /\ u.processing = t.processing
  BY <1>1 DEF PollState
<1> HIDE DEF u
<1>7. e # NoEvent
  BY PollAssumption DEF NoEvent
<1>8. TableInv(u)
  BY <1>1, <1>2, <1>4, <1>6, <1>7 DEF TableInv
<1>9. BatchInv(u)
  BY <1>1, <1>6 DEF BatchInv
<1>10. \A d \in Events : d # e /\ t.pe[d] # NoEvent => t.pe[d] # t.pe[e] /\ t.pe[d] \in PollIds
  BY <1>1, <1>2 DEF TableInv, PollState
<1> QED BY <1>3, <1>4, <1>5, <1>6, <1>8, <1>9, <1>10 DEF u, mask

\* With kqueue the change is buffered.
LEMMA BufferedKeeps ==
  ASSUME NEW t, PollInv(t), t.backend = "kqueue", NEW e \in Events, t.pe[e] # NoEvent,
         NEW bit \in PollBits, NEW add \in BOOLEAN, NEW new \in SUBSET PollBits,
         bit \in t.mask[t.pe[e]] <=> ~add,
         \A b \in PollBits : b \in new <=> IF b = bit THEN add ELSE b \in t.mask[t.pe[e]]
  PROVE  LET c == [add |-> add, fd |-> t.fd[e], bit |-> bit, id |-> t.pe[e]]
         IN  PollInv([SetMask(t, e, new) EXCEPT !.changes = Append(t.changes, c)])
<1> DEFINE c == [add |-> add, fd |-> t.fd[e], bit |-> bit, id |-> t.pe[e]]
           more == Append(t.changes, c)
           n == Len(t.changes)
           v == SetMask(t, e, new)
           u == [v EXCEPT !.changes = more]
<1>1. t \in PollState /\ TableInv(t) /\ KernelInv(t) /\ ~t.stale /\ ~t.thrown
  BY DEF PollInv
<1>2. /\ t.pe[e] \in PollIds /\ t.fd[e] \in Events /\ t.table[t.fd[e]] = t.pe[e]
  BY OpenIsKnown, SMTT(60)
<1>3. c \in Change /\ c.add = add /\ c.fd = t.fd[e] /\ c.bit = bit /\ c.id = t.pe[e]
  BY <1>2 DEF Change
<1>4. t.changes \in Changes /\ t.kernel \in SUBSET Watch /\ n \in Nat
  BY <1>1 DEF PollState, Changes
<1> HIDE DEF c
<1>5. /\ more \in Changes /\ Len(more) = n + 1 /\ more[n + 1] = c
      /\ \A i \in 1..n : more[i] = t.changes[i]
      /\ \A m \in 0..n : Applied(t.kernel, more, m) = Applied(t.kernel, t.changes, m)
      /\ \A x : x \in Applied(t.kernel, more, n + 1) <=>
           \/ x \in Applied(t.kernel, t.changes, n) /\ ~Touches(c, x)
           \/ c.add /\ x = Entry(c)
  BY <1>3, <1>4, AppliedAppend, Zenon
<1>6. /\ v \in PollState /\ TableInv(v) /\ BatchInv(v) /\ v.mask[t.pe[e]] = new
      /\ v = [t EXCEPT !.mask = [t.mask EXCEPT ![t.pe[e]] = new]]
      /\ \A d \in Events : d # e /\ t.pe[d] # NoEvent => v.mask[t.pe[d]] = t.mask[t.pe[d]]
  BY MaskChange
<1> HIDE DEF more, n, v
<1>7. /\ v.fd = t.fd /\ v.pe = t.pe /\ v.table = t.table /\ v.kernel = t.kernel
      /\ v.backend = t.backend /\ v.stale = t.stale /\ v.thrown = t.thrown
  BY <1>1, <1>6 DEF PollState
<1>8. u \in PollState
  BY <1>5, <1>6, Zenon DEF PollState
<1>9. /\ u.fd = t.fd /\ u.pe = t.pe /\ u.table = t.table /\ u.kernel = t.kernel
      /\ u.backend = t.backend /\ u.stale = t.stale /\ u.thrown = t.thrown
      /\ u.changes = more /\ u.mask = v.mask /\ u.owner = v.owner
      /\ u.alive = v.alive /\ u.closed = v.closed /\ u.opens = v.opens /\ u.batch = v.batch
      /\ u.processing = v.processing
  BY <1>6, <1>7 DEF PollState
<1> HIDE DEF u
<1>10. TableInv(u) /\ BatchInv(u)
  BY <1>6, <1>7, <1>9 DEF TableInv, BatchInv
<1>11. Flushed(t) = Applied(t.kernel, t.changes, n)
  BY DEF Flushed, n
<1>12. Flushed(u) = Applied(t.kernel, more, n + 1)
  BY <1>5, <1>9 DEF Flushed
<1>13. \A x : x \in Flushed(u) <=> (x \in Flushed(t) /\ ~Touches(c, x)) \/ (c.add /\ x = Entry(c))
  BY <1>5, <1>11, <1>12
<1>14. Touches(c, Entry(c)) /\ Entry(c).fd = t.fd[e] /\ Entry(c).bit = bit /\ Entry(c).id = t.pe[e]
  BY <1>3 DEF Touches, Entry
<1>15. \A x : Touches(c, x) <=> x.fd = t.fd[e] /\ x.bit = bit
  BY <1>3 DEF Touches
<1>16. ASSUME NEW d \in Events, u.pe[d] # NoEvent, NEW b \in PollBits
       PROVE  b \in u.mask[u.pe[d]] <=> \E x \in Flushed(u) : x.fd = u.fd[d] /\ x.bit = b
  <2>1. b \in t.mask[t.pe[d]] <=> \E x \in Flushed(t) : x.fd = t.fd[d] /\ x.bit = b
    BY <1>1, <1>9, <1>16 DEF KernelInv
  <2>2. CASE d = e
    <3>1. CASE b = bit
      BY <3>1, <2>2, <1>3, <1>6, <1>9, <1>13, <1>14, <1>15
    <3>2. CASE b # bit
      BY <3>2, <2>1, <2>2, <1>6, <1>9, <1>13, <1>14, <1>15, SMTT(60)
    <3> QED BY <3>1, <3>2
  <2>3. CASE d # e
    <3>1. t.fd[d] # t.fd[e]
      BY <2>3, <1>1, <1>9, <1>16 DEF TableInv
    <3>2. u.mask[u.pe[d]] = t.mask[t.pe[d]]
      BY <2>3, <1>6, <1>9, <1>16, SMTT(60)
    <3> QED BY <3>1, <3>2, <2>1, <1>9, <1>13, <1>14, <1>15
  <2> QED BY <2>2, <2>3, SMTT(60)
<1>17. \A x \in Flushed(u) : u.table[x.fd] = x.id
  BY <1>1, <1>2, <1>9, <1>13, <1>14 DEF KernelInv
<1>18. \A i \in 1..Len(u.changes) : i \in 1..n \/ i = n + 1
  BY <1>4, <1>5, <1>9
<1>19. \A i \in 1..Len(u.changes) : u.table[u.changes[i].fd] = u.changes[i].id
  <2>1. \A i \in 1..n : t.table[t.changes[i].fd] = t.changes[i].id
    BY <1>1 DEF KernelInv, n
  <2> QED BY <2>1, <1>2, <1>3, <1>5, <1>9, <1>18
<1>20. ~FlushFails(u)
  <2> SUFFICES ASSUME NEW i \in 1..Len(u.changes), BadChange(u.kernel, u.changes, i) PROVE FALSE
    BY DEF FlushFails
  <2>1. CASE i \in 1..n
    <3>1. i - 1 \in 0..n /\ more[i] = t.changes[i]
      BY <2>1, <1>4, <1>5, SMTT(60)
    <3>2. BadChange(t.kernel, t.changes, i)
      BY <3>1, <1>5, <1>9 DEF BadChange
    <3> QED BY <3>2, <2>1, <1>1, SMTT(60) DEF KernelInv, FlushFails, n
  <2>2. CASE i = n + 1
    <3>1. i - 1 = n /\ more[i] = c /\ n \in 0..n
      BY <2>2, <1>4, <1>5
    <3>2. ~add /\ ~\E x \in Flushed(t) : Touches(c, x)
      BY <3>1, <1>3, <1>5, <1>9, <1>11 DEF BadChange
    <3>3. \E x \in Flushed(t) : x.fd = t.fd[e] /\ x.bit = bit
      BY <3>2, <1>1 DEF KernelInv
    <3> QED BY <3>2, <3>3, <1>15
  <2> QED BY <2>1, <2>2, <1>18
<1>21. KernelInv(u)
  BY <1>9, <1>16, <1>17, <1>19, <1>20 DEF KernelInv
<1>22. PollInv(u)
  BY <1>1, <1>8, <1>9, <1>10, <1>21, SMTT(60) DEF PollInv
<1> QED BY <1>22 DEF u, v, more, c

\* With epoll the whole mask of the descriptor is set at once.
LEMMA EpollKeeps ==
  ASSUME NEW t, PollInv(t), t.backend = "epoll", NEW e \in Events, t.pe[e] # NoEvent,
         NEW new \in SUBSET PollBits
  PROVE  PollInv(ModifyEpoll(SetMask(t, e, new), e, t.mask[t.pe[e]], new))
<1> DEFINE f == t.fd[e]
           id == t.pe[e]
           old == t.mask[id]
           v == SetMask(t, e, new)
           rest == {k \in t.kernel : k.fd # f}
           kernel == rest \cup {[fd |-> f, bit |-> b, id |-> id] : b \in new}
           bad == IF old = {} THEN Registered(v, f) # {} ELSE Registered(v, f) = {}
           u == [v EXCEPT !.kernel = kernel, !.thrown = FALSE]
<1>1. t \in PollState /\ TableInv(t) /\ KernelInv(t) /\ ~t.stale /\ ~t.thrown
  BY DEF PollInv
<1>2. id \in PollIds /\ f \in Events /\ t.table[f] = id /\ old \in SUBSET PollBits
  BY OpenIsKnown
<1>3. t.changes = <<>> /\ Flushed(t) = t.kernel
  BY <1>1, AppliedNone DEF KernelInv, Flushed
<1>4. /\ v \in PollState /\ TableInv(v) /\ BatchInv(v) /\ v.mask[id] = new
      /\ v = [t EXCEPT !.mask = [t.mask EXCEPT ![id] = new]]
      /\ \A d \in Events : d # e /\ t.pe[d] # NoEvent => v.mask[t.pe[d]] = t.mask[t.pe[d]]
  BY MaskChange
<1> HIDE DEF v
<1>5. /\ v.fd = t.fd /\ v.pe = t.pe /\ v.table = t.table /\ v.kernel = t.kernel
      /\ v.backend = t.backend /\ v.stale = t.stale /\ v.thrown = t.thrown
      /\ v.changes = <<>>
  BY <1>1, <1>3, <1>4 DEF PollState
<1>6. Registered(v, f) = old
  <2>1. \A b \in PollBits : b \in old <=> \E k \in t.kernel : k.fd = f /\ k.bit = b
    BY <1>1, <1>3 DEF KernelInv
  <2> QED BY <2>1, <1>2, <1>5 DEF Registered
<1>7. (v.thrown \/ bad) = FALSE
  BY <1>1, <1>5, <1>6
<1>8. ModifyEpoll(v, e, old, new) = u
  <2>1. ModifyEpoll(v, e, old, new) = [v EXCEPT !.kernel = kernel, !.thrown = v.thrown \/ bad]
    BY <1>4, <1>5 DEF ModifyEpoll, PollState
  <2> HIDE DEF kernel, bad
  <2> QED BY <2>1, <1>7, Zenon
<1>9. kernel \in SUBSET Watch
  <2>1. t.kernel \in SUBSET Watch
    BY <1>1 DEF PollState
  <2>2. \A b \in new : [fd |-> f, bit |-> b, id |-> id] \in Watch
    BY <1>2 DEF Watch
  <2> QED BY <2>1, <2>2
<1>10. \A x : x \in kernel <=> (x \in t.kernel /\ x.fd # f) \/ \E b \in new : x = [fd |-> f, bit |-> b, id |-> id]
  OBVIOUS
<1> HIDE DEF kernel, f, id, old
<1>11. u \in PollState
  BY <1>4, <1>9, Zenon DEF PollState
<1>12. /\ u.fd = t.fd /\ u.pe = t.pe /\ u.table = t.table /\ u.kernel = kernel
      /\ u.backend = t.backend /\ u.stale = t.stale /\ u.thrown = FALSE
      /\ u.changes = <<>> /\ u.mask = v.mask /\ u.owner = v.owner
      /\ u.alive = v.alive /\ u.closed = v.closed /\ u.opens = v.opens /\ u.batch = v.batch
      /\ u.processing = v.processing
  BY <1>4, <1>5 DEF PollState
<1> HIDE DEF u
<1>13. TableInv(u) /\ BatchInv(u)
  BY <1>4, <1>5, <1>12 DEF TableInv, BatchInv
<1>14. Flushed(u) = kernel
  BY <1>12, AppliedNone DEF Flushed
<1>15. ASSUME NEW d \in Events, u.pe[d] # NoEvent, NEW b \in PollBits
       PROVE  b \in u.mask[u.pe[d]] <=> \E x \in Flushed(u) : x.fd = u.fd[d] /\ x.bit = b
  <2>1. CASE d = e
    <3>1. u.mask[u.pe[d]] = new /\ u.fd[d] = f
      BY <2>1, <1>4, <1>12 DEF id, f
    <3>2. ASSUME NEW x \in kernel, x.fd = f PROVE x.bit \in new
      BY <3>2, <1>10
    <3>3. ASSUME b \in new PROVE \E x \in kernel : x.fd = f /\ x.bit = b
      <4> DEFINE y == [fd |-> f, bit |-> b, id |-> id]
      <4>1. y \in kernel /\ y.fd = f /\ y.bit = b
        BY <3>3, <1>10
      <4> QED BY <4>1
    <3> QED BY <3>1, <3>2, <3>3, <1>14
  <2>2. CASE d # e
    <3>1. t.fd[d] # f
      BY <2>2, <1>1, <1>12, <1>15 DEF TableInv, f
    <3>2. u.mask[u.pe[d]] = t.mask[t.pe[d]]
      BY <2>2, <1>4, <1>12, <1>15, SMTT(60)
    <3>3. b \in t.mask[t.pe[d]] <=> \E x \in t.kernel : x.fd = t.fd[d] /\ x.bit = b
      BY <1>1, <1>3, <1>12, <1>15 DEF KernelInv
    <3>4. \A x : x.fd = t.fd[d] => (x \in kernel <=> x \in t.kernel)
      BY <1>10, <3>1
    <3> QED BY <3>2, <3>3, <3>4, <1>12, <1>14, SMTT(60)
  <2> QED BY <2>1, <2>2
<1>16. \A x \in Flushed(u) : u.table[x.fd] = x.id
  BY <1>1, <1>2, <1>3, <1>10, <1>12, <1>14 DEF KernelInv
<1>17. Len(u.changes) = 0
  BY <1>12
<1>18. KernelInv(u)
  BY <1>12, <1>15, <1>16, <1>17 DEF KernelInv, FlushFails
<1> QED BY <1>1, <1>8, <1>11, <1>12, <1>13, <1>18 DEF PollInv, v, old, id

\* PollInternal::modify() with kqueue: the buffer is emptied first when it is full.
LEMMA KqueueKeeps ==
  ASSUME NEW t, PollInv(t), t.backend = "kqueue", NEW e \in Events, t.pe[e] # NoEvent,
         NEW bit \in PollBits, NEW add \in BOOLEAN, NEW new \in SUBSET PollBits,
         bit \in t.mask[t.pe[e]] <=> ~add,
         \A b \in PollBits : b \in new <=> IF b = bit THEN add ELSE b \in t.mask[t.pe[e]]
  PROVE  LET u == ModifyKqueue(SetMask(t, e, new), e, bit, add)
         IN  PollInv(u) /\ u.pe = t.pe /\ u.fd = t.fd /\ u.mask[t.pe[e]] = new
<1> DEFINE w == IF Len(t.changes) = MaxChanges THEN Flush(t) ELSE t
           v == SetMask(t, e, new)
           c == [add |-> add, fd |-> t.fd[e], bit |-> bit, id |-> t.pe[e]]
           x == SetMask(w, e, new)
           u == [x EXCEPT !.changes = Append(w.changes, c)]
<1>1. t \in PollState
  BY SMTT(60) DEF PollInv
<1>2. /\ PollInv(Flush(t))
      /\ Flush(t) = [t EXCEPT !.kernel = Flushed(t), !.changes = <<>>, !.thrown = FALSE]
  BY FlushKeeps, Zenon
<1>3. PollInv(w) /\ w \in PollState
  BY <1>2 DEF PollInv
<1>4. w.fd = t.fd /\ w.pe = t.pe /\ w.mask = t.mask /\ w.backend = t.backend
  BY <1>1, <1>2 DEF PollState
<1>5. /\ v \in PollState /\ v = [t EXCEPT !.mask = [t.mask EXCEPT ![t.pe[e]] = new]]
  BY MaskChange
<1>6. v.kernel = t.kernel /\ v.changes = t.changes /\ v.thrown = t.thrown /\ v.fd = t.fd /\ v.pe = t.pe
  BY <1>1, <1>5 DEF PollState
<1>7. Flush(v) = [v EXCEPT !.kernel = Flushed(t), !.changes = <<>>, !.thrown = FALSE]
  <2>1. Flushed(v) = Flushed(t)
    BY <1>6, SMTT(60) DEF Flushed
  <2>2. (v.thrown \/ FlushFails(v)) = FALSE
    BY <1>6 DEF FlushFails, PollInv, KernelInv
  <2> HIDE DEF v
  <2> QED BY <2>1, <2>2, Zenon DEF Flush
<1>8. /\ x \in PollState /\ x.mask[w.pe[e]] = new
      /\ x = [w EXCEPT !.mask = [w.mask EXCEPT ![w.pe[e]] = new]]
  <2> HIDE DEF w
  <2> QED BY <1>3, <1>4, MaskChange
<1>9. ModifyKqueue(v, e, bit, add) = u
  <2>1. CASE Len(t.changes) = MaxChanges
    <3>1. w = [t EXCEPT !.kernel = Flushed(t), !.changes = <<>>, !.thrown = FALSE] /\ w.changes = <<>>
      BY <2>1, <1>1, <1>2 DEF PollState
    <3>2. ModifyKqueue(v, e, bit, add) = [Flush(v) EXCEPT !.changes = Append(Flush(v).changes, c)]
      BY <2>1, <1>6 DEF ModifyKqueue
    <3>3. Flush(v).changes = <<>>
      BY <1>5, <1>7, Zenon DEF PollState
    <3>4. Flush(v) = x
      <4> DEFINE mask == [t.mask EXCEPT ![t.pe[e]] = new]
                 kernel == Flushed(t)
      <4>1. v = [t EXCEPT !.mask = mask]
        BY <1>5
      <4>2. x = [w EXCEPT !.mask = mask]
        BY <1>4, <1>8
      <4> HIDE DEF v, w, x, mask, kernel
      <4>3. Flush(v) = [v EXCEPT !.kernel = kernel, !.changes = <<>>, !.thrown = FALSE]
        BY <1>7 DEF kernel
      <4>4. w = [t EXCEPT !.kernel = kernel, !.changes = <<>>, !.thrown = FALSE]
        BY <3>1 DEF kernel
      <4> QED BY <1>1, <4>1, <4>2, <4>3, <4>4, Zenon DEF PollState
    <3> HIDE DEF x, v, w
    <3> QED BY <3>1, <3>2, <3>3, <3>4
  <2>2. CASE Len(t.changes) # MaxChanges
    <3>1. w = t /\ x = v
      BY <2>2
    <3>2. ModifyKqueue(v, e, bit, add) = [v EXCEPT !.changes = Append(v.changes, c)]
      BY <2>2, <1>6, Zenon DEF ModifyKqueue
    <3> HIDE DEF x, v, w
    <3> QED BY <3>1, <3>2, <1>6
  <2> QED BY <2>1, <2>2
<1>10. PollInv(u)
  <2> HIDE DEF w
  <2> QED BY <1>3, <1>4, BufferedKeeps
<1>11. u.pe = w.pe /\ u.fd = w.fd /\ u.mask = x.mask
  <2> HIDE DEF w, x
  <2> QED BY <1>3, <1>8 DEF PollState
<1> HIDE DEF u, x, w
<1> QED BY <1>4, <1>8, <1>9, <1>10, <1>11

\* insert_read() and insert_write()
LEMMA InsertKeeps ==
  ASSUME NEW t, PollInv(t), NEW e \in Events, t.pe[e] # NoEvent, NEW bit \in PollBits
  PROVE  PollInv(InsertBit(t, e, bit))
<1> DEFINE old == t.mask[t.pe[e]]
           new == old \cup {bit}
<1>1. Known(t, e) /\ EventMask(t, e) = old /\ old \in SUBSET PollBits
  BY OpenIsKnown
<1>2. t.backend \in {"epoll", "kqueue"} /\ new \in SUBSET PollBits
  BY <1>1 DEF PollInv, PollState
<1>3. \A b \in PollBits : b \in new <=> IF b = bit THEN TRUE ELSE b \in old
  OBVIOUS
<1>4. InsertBit(t, e, bit) =
        IF bit \in old THEN t
        ELSE IF t.backend = "epoll" THEN ModifyEpoll(SetMask(t, e, new), e, old, new)
        ELSE ModifyKqueue(SetMask(t, e, new), e, bit, TRUE)
  BY <1>1 DEF InsertBit
<1> HIDE DEF new
<1>5. CASE bit \in old
  BY <1>4, <1>5
<1>6. CASE bit \notin old /\ t.backend = "epoll"
  BY <1>2, <1>4, <1>6, EpollKeeps
<1>7. CASE bit \notin old /\ t.backend = "kqueue"
  <2>1. PollInv(ModifyKqueue(SetMask(t, e, new), e, bit, TRUE))
    BY <1>2, <1>3, <1>7, KqueueKeeps, Zenon
  <2> QED BY <2>1, <1>4, <1>7, Zenon
<1> QED BY <1>2, <1>5, <1>6, <1>7

\* remove_read() and remove_write()
LEMMA RemoveKeeps ==
  ASSUME NEW t, PollInv(t), NEW e \in Events, t.pe[e] # NoEvent, NEW bit \in PollBits
  PROVE  LET u == RemoveBit(t, e, bit)
         IN  PollInv(u) /\ u.pe = t.pe /\ u.fd = t.fd /\ u.mask[t.pe[e]] = t.mask[t.pe[e]] \ {bit}
<1> DEFINE old == t.mask[t.pe[e]]
           new == old \ {bit}
           u == RemoveBit(t, e, bit)
<1>1. Known(t, e) /\ EventMask(t, e) = old /\ old \in SUBSET PollBits /\ t \in PollState
  BY OpenIsKnown DEF PollInv
<1>2. t.backend \in {"epoll", "kqueue"} /\ new \in SUBSET PollBits
  BY <1>1 DEF PollState
<1>3. \A b \in PollBits : b \in new <=> IF b = bit THEN FALSE ELSE b \in old
  OBVIOUS
<1>4. u = IF bit \notin old THEN t
          ELSE IF t.backend = "epoll" THEN ModifyEpoll(SetMask(t, e, new), e, old, new)
          ELSE ModifyKqueue(SetMask(t, e, new), e, bit, FALSE)
  BY <1>1 DEF RemoveBit
<1>5. bit \notin old => new = old
  BY SMTT(60)
<1> HIDE DEF new, u
<1>6. CASE bit \notin old
  BY <1>4, <1>5, <1>6 DEF new, u
<1>7. CASE bit \in old /\ t.backend = "epoll"
  <2> DEFINE v == SetMask(t, e, new)
  <2>1. u = ModifyEpoll(v, e, old, new)
    BY <1>4, <1>7
  <2>2. PollInv(u)
    BY <2>1, <1>2, <1>7, EpollKeeps
  <2>3. v \in PollState /\ v.mask[t.pe[e]] = new /\ v = [t EXCEPT !.mask = [t.mask EXCEPT ![t.pe[e]] = new]]
    BY <1>2, MaskChange
  <2> HIDE DEF v
  <2>4. v.pe = t.pe /\ v.fd = t.fd
    BY <1>1, <2>3 DEF PollState
  <2>5. u.pe = v.pe /\ u.fd = v.fd /\ u.mask = v.mask
    BY <2>1, <2>3, SMTT(60) DEF ModifyEpoll, PollState
  <2> QED BY <2>2, <2>3, <2>4, <2>5 DEF u, new
<1>8. CASE bit \in old /\ t.backend = "kqueue"
  <2>1. u = ModifyKqueue(SetMask(t, e, new), e, bit, FALSE)
    BY <1>4, <1>8, Zenon
  <2>2. LET w == ModifyKqueue(SetMask(t, e, new), e, bit, FALSE)
        IN  PollInv(w) /\ w.pe = t.pe /\ w.fd = t.fd /\ w.mask[t.pe[e]] = new
    <3> DEFINE add == FALSE
    <3>1. add \in BOOLEAN /\ (bit \in old <=> ~add)
      BY <1>8
    <3>2. \A b \in PollBits : b \in new <=> IF b = bit THEN add ELSE b \in old
      BY <1>3, SMTT(60)
    <3> HIDE DEF add
    <3>3. LET w == ModifyKqueue(SetMask(t, e, new), e, bit, add)
          IN  PollInv(w) /\ w.pe = t.pe /\ w.fd = t.fd /\ w.mask[t.pe[e]] = new
      BY <3>1, <3>2, <1>2, <1>8, KqueueKeeps, SMTT(60)
    <3> QED BY <3>3, Zenon DEF add
  <2> QED BY <2>1, <2>2, Zenon DEF u, new
<1> QED BY <1>2, <1>6, <1>7, <1>8

\* close() and then the owner's close of the descriptor: nothing points to the PollEvent any
\* more but the batch that is being processed.
LEMMA CloseKeeps ==
  ASSUME NEW t, PollInv(t), NEW e \in Events, t.pe[e] # NoEvent, t.mask[t.pe[e]] = {}
  PROVE  PollInv(CloseFd(Close(t, e), e))
<1> DEFINE id == t.pe[e]
           f == t.fd[e]
           v == IF t.backend = "kqueue" THEN Flush(t) ELSE t
           table == [v.table EXCEPT ![f] = NoEvent]
           owner == [v.owner EXCEPT ![id] = NoEvent]
           pe == [v.pe EXCEPT ![e] = NoEvent]
           closed == IF t.processing THEN v.closed \cup {id} ELSE v.closed
           alive == IF t.processing THEN v.alive ELSE v.alive \ {id}
           kernel == {k \in v.kernel : k.fd # f}
           fd == [v.fd EXCEPT ![e] = 0]
           w == [v EXCEPT !.table = table, !.owner = owner, !.pe = pe, !.closed = closed, !.alive = alive]
           u == [w EXCEPT !.kernel = kernel, !.fd = fd]
<1>1. t \in PollState /\ KernelInv(t)
  BY DEF PollInv
<1>2. /\ Known(t, e) /\ EventMask(t, e) = {} /\ id \in PollIds /\ f \in Events /\ t.table[f] = id
      /\ t.owner[id] = e
  BY OpenIsKnown
<1>3. /\ PollInv(Flush(t)) /\ Flush(t).changes = <<>> /\ Flush(t).kernel = Flushed(t)
      /\ Flush(t) = [t EXCEPT !.kernel = Flushed(t), !.changes = <<>>, !.thrown = FALSE]
  BY FlushKeeps, Zenon
<1>4. PollInv(v) /\ v.changes = <<>> /\ v \in PollState
  BY <1>1, <1>3 DEF PollInv, KernelInv, PollState
<1>5. /\ v.fd = t.fd /\ v.pe = t.pe /\ v.table = t.table /\ v.mask = t.mask /\ v.owner = t.owner
      /\ v.alive = t.alive /\ v.closed = t.closed /\ v.opens = t.opens /\ v.batch = t.batch
      /\ v.processing = t.processing
  BY <1>1, <1>3 DEF PollState
<1>6. Close(t, e) = w
  <2>1. Close(t, e) = [v EXCEPT !.table[t.fd[e]] = NoEvent, !.owner[id] = NoEvent, !.pe[e] = NoEvent,
                                !.closed = IF t.processing THEN v.closed \cup {id} ELSE v.closed,
                                !.alive = IF t.processing THEN v.alive ELSE v.alive \ {id}]
    BY <1>2 DEF Close
  <2> HIDE DEF v
  <2> QED BY <2>1, <1>4, <1>5, Zenon DEF PollState
<1> HIDE DEF v
<1>7. TableInv(v) /\ KernelInv(v) /\ BatchInv(v) /\ ~v.stale /\ ~v.thrown
  BY <1>4, SMTT(60) DEF PollInv
<1>8. /\ table \in [Events -> PollIds \cup {NoEvent}] /\ table[f] = NoEvent
      /\ \A g \in Events : g # f => table[g] = t.table[g]
  BY <1>2, <1>4, <1>5, SMTT(60) DEF PollState
<1>9. /\ owner \in [PollIds -> Events \cup {NoEvent}] /\ owner[id] = NoEvent
      /\ \A i \in PollIds : i # id => owner[i] = t.owner[i]
  BY <1>2, <1>4, <1>5, SMTT(60) DEF PollState
<1>10. /\ pe \in [Events -> PollIds \cup {NoEvent}] /\ pe[e] = NoEvent
       /\ \A d \in Events : d # e => pe[d] = t.pe[d]
  BY <1>2, <1>4, <1>5, SMTT(60) DEF PollState
<1>11. /\ fd \in [Events -> Events \cup {0}] /\ fd[e] = 0
       /\ \A d \in Events : d # e => fd[d] = t.fd[d]
  BY <1>2, <1>4, <1>5, SMTT(60) DEF PollState
<1>12. closed \in SUBSET PollIds /\ alive \in SUBSET PollIds /\ kernel \in SUBSET Watch
  BY <1>2, <1>4, <1>5, SMTT(60) DEF PollState
<1>13. /\ \A i \in alive : i \in t.alive
       /\ \A i \in t.alive : i # id => i \in alive
       /\ t.processing => alive = t.alive
       /\ \A i \in closed : i \in t.closed \/ i = id
       /\ ~t.processing => closed = t.closed
  BY <1>5
<1>14. \A x : x \in kernel <=> x \in v.kernel /\ x.fd # f
  OBVIOUS
<1> HIDE DEF table, owner, pe, closed, alive, kernel, fd
<1>15. w \in PollState
  BY <1>4, <1>8, <1>9, <1>10, <1>12, Zenon DEF PollState
<1>16. /\ w.table = table /\ w.owner = owner /\ w.pe = pe /\ w.closed = closed /\ w.alive = alive
       /\ w.mask = t.mask /\ w.opens = t.opens /\ w.batch = t.batch /\ w.processing = t.processing
       /\ w.changes = <<>> /\ w.backend = v.backend /\ w.stale = v.stale /\ w.thrown = v.thrown
       /\ w.fd = v.fd /\ w.kernel = v.kernel
  BY <1>4, <1>5 DEF PollState
<1> HIDE DEF w
<1>24. CloseFd(Close(t, e), e) = u
  <2>1. {k \in w.kernel : k.fd # w.fd[e]} = kernel
    BY <1>5, <1>16 DEF kernel
  <2>2. [w.fd EXCEPT ![e] = 0] = fd
    BY <1>16 DEF fd
  <2>3. CloseFd(w, e)
          = [w EXCEPT !.kernel = {k \in w.kernel : k.fd # w.fd[e]}, !.fd = [w.fd EXCEPT ![e] = 0]]
    BY <1>15 DEF CloseFd, PollState
  <2> QED BY <2>1, <2>2, <2>3, <1>6, Zenon
<1>17. u \in PollState
  BY <1>11, <1>12, <1>15, Zenon DEF PollState
<1>18. /\ u.table = table /\ u.owner = owner /\ u.pe = pe /\ u.closed = closed /\ u.alive = alive
       /\ u.mask = t.mask /\ u.opens = t.opens /\ u.batch = t.batch /\ u.processing = t.processing
       /\ u.changes = <<>> /\ u.backend = v.backend /\ u.stale = v.stale /\ u.thrown = v.thrown
       /\ u.kernel = kernel /\ u.fd = fd
  BY <1>15, <1>16 DEF PollState
<1> HIDE DEF u
<1>19. Flushed(u) = kernel /\ Flushed(v) = v.kernel /\ Len(u.changes) = 0
  BY <1>4, <1>18, AppliedNone, SMTT(60) DEF Flushed
<1>20. \A d \in Events : d # e /\ t.pe[d] # NoEvent => t.pe[d] # id /\ t.fd[d] # f
  BY <1>2, <1>5, <1>7, SMTT(60) DEF TableInv
<1>21. TableInv(u)
  <2>1. \A d \in Events : u.fd[d] = 0 <=> u.pe[d] = NoEvent
    <3>1. \A d \in Events : t.fd[d] = 0 <=> t.pe[d] = NoEvent
      BY <1>5, <1>7 DEF TableInv
    <3> QED BY <3>1, <1>10, <1>11, <1>18, ZenonT(60)
  <2>2. ASSUME NEW d \in Events, u.pe[d] # NoEvent
        PROVE  /\ u.table[u.fd[d]] = u.pe[d] /\ u.owner[u.pe[d]] = d
               /\ u.pe[d] \in u.alive /\ u.pe[d] <= u.opens
    <3>1. d # e /\ u.pe[d] = t.pe[d] /\ u.fd[d] = t.fd[d]
      BY <2>2, <1>10, <1>11, <1>18
    <3>2. t.pe[d] # id /\ t.fd[d] # f /\ t.pe[d] \in PollIds /\ t.fd[d] \in Events
      BY <3>1, <2>2, <1>20, OpenIsKnown
    <3>3. /\ t.table[t.fd[d]] = t.pe[d] /\ t.owner[t.pe[d]] = d
          /\ t.pe[d] \in t.alive /\ t.pe[d] <= t.opens
      BY <3>1, <2>2, <1>5, <1>7 DEF TableInv
    <3> QED BY <3>1, <3>2, <3>3, <1>8, <1>9, <1>13, <1>18
  <2>3. ASSUME NEW g \in Events, u.table[g] # NoEvent
        PROVE  \E d \in Events : u.fd[d] = g /\ u.pe[d] = u.table[g]
    <3>1. g # f /\ u.table[g] = t.table[g]
      BY <2>3, <1>8, <1>18, SMTT(60)
    <3>2. PICK d \in Events : t.fd[d] = g /\ t.pe[d] = t.table[g]
      BY <3>1, <2>3, <1>5, <1>7 DEF TableInv
    <3> QED BY <3>1, <3>2, <1>10, <1>11, <1>18
  <2>4. ASSUME NEW i \in PollIds, u.owner[i] # NoEvent PROVE u.pe[u.owner[i]] = i
    <3>1. i # id /\ u.owner[i] = t.owner[i] /\ t.owner[i] \in Events
      BY <2>4, <1>1, <1>9, <1>18, SMTT(60) DEF PollState
    <3>2. t.pe[t.owner[i]] = i
      BY <3>1, <2>4, <1>5, <1>7, SMTT(60) DEF TableInv
    <3> QED BY <3>1, <3>2, <1>10, <1>18, SMTT(60)
  <2>5. \A i \in PollIds : u.owner[i] = NoEvent => u.mask[i] = {}
    BY <1>5, <1>7, <1>9, <1>18 DEF TableInv
  <2> QED BY <2>1, <2>2, <2>3, <2>4, <2>5 DEF TableInv
<1>22. BatchInv(u)
  <2>1. \A k \in 1..Len(u.batch) : u.batch[k].id \in u.alive
    BY <1>5, <1>7, <1>13, <1>18, SMTT(60) DEF BatchInv
  <2>2. \A i \in u.closed : u.owner[i] = NoEvent /\ i <= u.opens
    <3>1. id <= t.opens /\ \A i \in t.closed : t.owner[i] = NoEvent /\ i <= t.opens /\ i \in PollIds
      BY <1>1, <1>5, <1>7, SMTT(60) DEF BatchInv, TableInv, PollState
    <3> QED BY <3>1, <1>9, <1>13, <1>18, SMTT(60)
  <2>3. ~u.processing => u.batch = <<>> /\ u.closed = {}
    BY <1>5, <1>7, <1>13, <1>18, SMTT(60) DEF BatchInv
  <2> QED BY <2>1, <2>2, <2>3, SMTT(60) DEF BatchInv
<1>23. KernelInv(u)
  <2>1. ASSUME NEW d \in Events, u.pe[d] # NoEvent, NEW b \in PollBits
        PROVE  b \in u.mask[u.pe[d]] <=> \E x \in Flushed(u) : x.fd = u.fd[d] /\ x.bit = b
    <3>1. d # e /\ u.pe[d] = t.pe[d] /\ u.fd[d] = t.fd[d] /\ t.fd[d] # f
      BY <2>1, <1>10, <1>11, <1>18, <1>20, SMTT(60)
    <3>2. b \in t.mask[t.pe[d]] <=> \E x \in v.kernel : x.fd = t.fd[d] /\ x.bit = b
      BY <3>1, <2>1, <1>5, <1>7, <1>19, SMTT(60) DEF KernelInv
    <3> QED BY <3>1, <3>2, <1>14, <1>18, <1>19
  <2>2. \A x \in Flushed(u) : u.table[x.fd] = x.id
    <3>1. \A x \in v.kernel : t.table[x.fd] = x.id /\ x.fd \in Events
      <4>1. \A x \in v.kernel : x.fd \in Events
        BY <1>4, SMTT(60) DEF PollState, Watch
      <4> QED BY <4>1, <1>5, <1>7, <1>19 DEF KernelInv
    <3> QED BY <3>1, <1>8, <1>14, <1>18, <1>19, SMTT(60)
  <2> QED BY <2>1, <2>2, <1>18, <1>19 DEF KernelInv, FlushFails
<1> QED BY <1>24, <1>7, <1>17, <1>18, <1>21, <1>22, <1>23, SMTT(60) DEF PollInv

\* remove_and_close() and the owner's close of the descriptor.
LEMMA CloseEventKeeps ==
  ASSUME NEW t, PollInv(t), NEW e \in Events, t.pe[e] # NoEvent
  PROVE  PollInv(CloseFd(RemoveAndClose(t, e), e))
<1> DEFINE u == RemoveBit(t, e, "r")
           v == RemoveBit(u, e, "w")
<1>1. "r" \in PollBits /\ "w" \in PollBits
  BY DEF PollBits
<1>2. PollInv(u) /\ u.pe = t.pe /\ u.mask[t.pe[e]] = t.mask[t.pe[e]] \ {"r"}
  BY <1>1, RemoveKeeps
<1>6. \A x : PollInv(x) /\ x.pe[e] # NoEvent =>
        LET y == RemoveBit(x, e, "w")
        IN  PollInv(y) /\ y.pe = x.pe /\ y.mask[x.pe[e]] = x.mask[x.pe[e]] \ {"w"}
  BY <1>1, RemoveKeeps
<1> HIDE DEF u
<1>3. PollInv(v) /\ v.pe = u.pe /\ v.mask[u.pe[e]] = u.mask[u.pe[e]] \ {"w"}
  <2>1. u.pe[e] # NoEvent
    BY <1>2
  <2>2. PollInv(u)
    BY <1>2
  <2> QED BY <2>1, <2>2, <1>6
<1> HIDE DEF v
<1>4. t.mask[t.pe[e]] \in SUBSET PollBits
  BY OpenIsKnown
<1>5. v.pe[e] # NoEvent /\ v.mask[v.pe[e]] = {}
  BY <1>2, <1>3, <1>4 DEF PollBits
<1> QED BY <1>3, <1>5, CloseKeeps DEF RemoveAndClose, u, v

\* open(): a PollEvent that no batch and no closed event has.
LEMMA OpenKeeps ==
  ASSUME PollInv(ps), NEW e \in Events, OpenEvent(e)
  PROVE  PollInv(ps')
<1> DEFINE id == ps.opens + 1
<1>1. ps \in PollState /\ TableInv(ps) /\ KernelInv(ps) /\ BatchInv(ps) /\ ~ps.stale /\ ~ps.thrown
  BY DEF PollInv
<1>2. PICK f \in Events :
        /\ ps.fd[e] = 0 /\ ps.opens < MaxOpens /\ (\A d \in Events : ps.fd[d] # f)
        /\ ps' = Open([ps EXCEPT !.fd[e] = f], e)
  BY DEF OpenEvent, FreeFds
<1> DEFINE fd == [ps.fd EXCEPT ![e] = f]
           pe == [ps.pe EXCEPT ![e] = id]
           table == [ps.table EXCEPT ![f] = id]
           owner == [ps.owner EXCEPT ![id] = e]
           mask == [ps.mask EXCEPT ![id] = {}]
           alive == ps.alive \cup {id}
           t == [ps EXCEPT !.fd = fd]
           v == [t EXCEPT !.opens = id, !.pe = pe, !.table = table]
           u == [v EXCEPT !.owner = owner, !.mask = mask, !.alive = alive]
<1>3. id \in PollIds /\ id \in Nat /\ ps.opens \in Nat /\ id > ps.opens
  <2>1. ps.opens \in Nat
    BY <1>1 DEF PollState
  <2> QED BY <2>1, <1>2, PollAssumption DEF PollIds
<1>4. ps.pe[e] = NoEvent /\ ps.table[f] = NoEvent
  BY <1>1, <1>2 DEF TableInv
<1>5. f # 0 /\ e # NoEvent /\ id # NoEvent
  BY <1>3, PollAssumption DEF NoEvent
<1>6. /\ fd \in [Events -> Events \cup {0}] /\ fd[e] = f
      /\ \A d \in Events : d # e => fd[d] = ps.fd[d]
  BY <1>1 DEF PollState
<1>7. t \in PollState /\ t.fd = fd /\ t.pe = ps.pe /\ t.table = ps.table
  <2> HIDE DEF fd
  <2> QED BY <1>1, <1>6 DEF PollState
<1>8. ps' = u
  <2>1. [ps EXCEPT !.fd[e] = f] = t
    BY <1>1 DEF PollState
  <2> HIDE DEF t, fd
  <2>2. Open(t, e) = [t EXCEPT !.opens = t.opens + 1, !.pe[e] = t.opens + 1, !.table[f] = t.opens + 1,
                               !.owner[t.opens + 1] = e, !.mask[t.opens + 1] = {},
                               !.alive = t.alive \cup {t.opens + 1}]
    BY <1>4, <1>5, <1>6, <1>7 DEF Open
  <2>3. /\ t.opens = ps.opens /\ t.owner = ps.owner /\ t.mask = ps.mask /\ t.alive = ps.alive
        /\ t.pe = ps.pe /\ t.table = ps.table
    BY <1>1 DEF PollState, t
  <2> HIDE DEF id
  <2>4. t.opens + 1 = id
    BY <2>3 DEF id
  <2>5. Open(t, e) = [t EXCEPT !.opens = id, !.pe[e] = id, !.table[f] = id,
                               !.owner[id] = e, !.mask[id] = {}, !.alive = t.alive \cup {id}]
    BY <2>2, <2>4, Zenon
  <2>6. Open(t, e) = u
    BY <2>3, <2>5, <1>7, Zenon DEF PollState
  <2> QED BY <2>1, <2>6, <1>2
<1>9. /\ pe \in [Events -> PollIds \cup {NoEvent}] /\ pe[e] = id
      /\ \A d \in Events : d # e => pe[d] = ps.pe[d]
  BY <1>1, <1>3 DEF PollState
<1>10. /\ table \in [Events -> PollIds \cup {NoEvent}] /\ table[f] = id
       /\ \A g \in Events : g # f => table[g] = ps.table[g]
  BY <1>1, <1>3 DEF PollState
<1>11. /\ owner \in [PollIds -> Events \cup {NoEvent}] /\ owner[id] = e
       /\ \A i \in PollIds : i # id => owner[i] = ps.owner[i]
  BY <1>1, <1>3 DEF PollState
<1>12. /\ mask \in [PollIds -> SUBSET PollBits] /\ mask[id] = {}
       /\ \A i \in PollIds : i # id => mask[i] = ps.mask[i]
  BY <1>1, <1>3 DEF PollState
<1>13. alive \in SUBSET PollIds /\ id \in alive /\ \A i \in ps.alive : i \in alive
  BY <1>1, <1>3 DEF PollState
<1> HIDE DEF id, fd, pe, table, owner, mask, alive, t
<1>14. v \in PollState
  BY <1>3, <1>7, <1>9, <1>10, Zenon DEF PollState
<1>15. v.opens = id /\ v.pe = pe /\ v.table = table /\ v.fd = fd
  BY <1>7 DEF PollState
<1>16. /\ v.kernel = ps.kernel /\ v.changes = ps.changes /\ v.batch = ps.batch
       /\ v.closed = ps.closed /\ v.processing = ps.processing /\ v.backend = ps.backend
       /\ v.stale = ps.stale /\ v.thrown = ps.thrown
  BY <1>1 DEF PollState, t
<1> HIDE DEF v
<1>17. u \in PollState
  BY <1>11, <1>12, <1>13, <1>14, Zenon DEF PollState
<1>18. /\ u.opens = id /\ u.pe = pe /\ u.table = table /\ u.fd = fd
       /\ u.owner = owner /\ u.mask = mask /\ u.alive = alive
       /\ u.kernel = ps.kernel /\ u.changes = ps.changes /\ u.batch = ps.batch
       /\ u.closed = ps.closed /\ u.processing = ps.processing /\ u.backend = ps.backend
       /\ u.stale = ps.stale /\ u.thrown = ps.thrown
  BY <1>14, <1>15, <1>16 DEF PollState
<1> HIDE DEF u
<1>19. \A d \in Events : ps.pe[d] # NoEvent =>
         /\ d # e /\ ps.fd[d] # f /\ ps.fd[d] \in Events /\ ps.pe[d] # id /\ ps.pe[d] \in PollIds
         /\ ps.pe[d] <= id
  <2> TAKE d \in Events
  <2> HAVE ps.pe[d] # NoEvent
  <2>1. ps.fd[d] \in Events /\ ps.pe[d] \in PollIds
    BY OpenIsKnown, SMTT(60)
  <2>2. ps.pe[d] <= ps.opens /\ ps.pe[d] \in Nat
    BY <1>1, <2>1 DEF TableInv, PollIds
  <2>3. ps.pe[d] <= id /\ ps.pe[d] # id
    BY <2>2, <1>3
  <2> QED BY <2>1, <2>3, <1>2, <1>4
<1>20. Flushed(u) = Flushed(ps) /\ (FlushFails(u) <=> FlushFails(ps))
  BY <1>18, SMTT(60) DEF Flushed, FlushFails
<1>21. TableInv(u)
  <2>1. \A d \in Events : u.fd[d] = 0 <=> u.pe[d] = NoEvent
    <3>1. \A d \in Events : ps.fd[d] = 0 <=> ps.pe[d] = NoEvent
      BY <1>1, SMTT(60) DEF TableInv
    <3>2. \A d \in Events : d # e => (fd[d] = 0 <=> pe[d] = NoEvent)
      BY <3>1, <1>6, <1>9
    <3>3. fd[e] # 0 /\ pe[e] # NoEvent
      BY <1>5, <1>6, <1>9
    <3> QED BY <3>2, <3>3, <1>18, Zenon
  <2>2. ASSUME NEW d \in Events, u.pe[d] # NoEvent
        PROVE  /\ u.table[u.fd[d]] = u.pe[d] /\ u.owner[u.pe[d]] = d
               /\ u.pe[d] \in u.alive /\ u.pe[d] <= u.opens
    <3>1. CASE d = e
      <4>1. id <= id
        BY <1>3, SMTT(60)
      <4> QED BY <3>1, <4>1, <1>6, <1>9, <1>10, <1>11, <1>13, <1>18
    <3>2. CASE d # e
      <4>1. u.pe[d] = ps.pe[d] /\ u.fd[d] = ps.fd[d]
        BY <3>2, <1>6, <1>9, <1>18, SMTT(60)
      <4>2. /\ ps.table[ps.fd[d]] = ps.pe[d] /\ ps.owner[ps.pe[d]] = d /\ ps.pe[d] \in ps.alive
        BY <4>1, <2>2, <1>1 DEF TableInv
      <4> QED BY <4>1, <4>2, <2>2, <1>10, <1>11, <1>13, <1>18, <1>19, SMTT(60)
    <3> QED BY <3>1, <3>2, SMTT(60)
  <2>3. ASSUME NEW g \in Events, u.table[g] # NoEvent
        PROVE  \E d \in Events : u.fd[d] = g /\ u.pe[d] = u.table[g]
    <3>1. CASE g = f
      BY <3>1, <1>6, <1>9, <1>10, <1>18, SMTT(60)
    <3>2. CASE g # f
      <4>1. u.table[g] = ps.table[g]
        BY <3>2, <1>10, <1>18, SMTT(60)
      <4>2. PICK d \in Events : ps.fd[d] = g /\ ps.pe[d] = ps.table[g]
        BY <4>1, <2>3, <1>1 DEF TableInv
      <4>3. d # e
        BY <4>1, <4>2, <2>3, <1>4
      <4> QED BY <4>1, <4>2, <4>3, <1>6, <1>9, <1>18, SMTT(60)
    <3> QED BY <3>1, <3>2, SMTT(60)
  <2>4. ASSUME NEW i \in PollIds, u.owner[i] # NoEvent PROVE u.pe[u.owner[i]] = i
    <3>1. CASE i = id
      BY <3>1, <1>9, <1>11, <1>18, SMTT(60)
    <3>2. CASE i # id
      <4>1. u.owner[i] = ps.owner[i] /\ ps.owner[i] \in Events /\ i # NoEvent
        BY <3>2, <2>4, <1>1, <1>11, <1>18, SMTT(60) DEF PollState, PollIds, NoEvent
      <4>2. ps.pe[ps.owner[i]] = i
        BY <4>1, <2>4, <1>1, SMTT(60) DEF TableInv
      <4>3. ps.owner[i] # e
        BY <4>1, <4>2, <1>4, SMTT(60)
      <4> QED BY <4>1, <4>2, <4>3, <1>9, <1>18, SMTT(60)
    <3> QED BY <3>1, <3>2
  <2>5. \A i \in PollIds : u.owner[i] = NoEvent => u.mask[i] = {}
    BY <1>1, <1>11, <1>12, <1>18, SMTT(60) DEF TableInv
  <2> QED BY <2>1, <2>2, <2>3, <2>4, <2>5 DEF TableInv
<1>22. BatchInv(u)
  <2>1. \A k \in 1..Len(u.batch) : u.batch[k].id \in u.alive
    BY <1>1, <1>13, <1>18, SMTT(60) DEF BatchInv
  <2>2. ASSUME NEW i \in u.closed PROVE u.owner[i] = NoEvent /\ i <= u.opens
    <3>1. i \in PollIds /\ ps.owner[i] = NoEvent /\ i <= ps.opens
      BY <1>1, <1>18, <2>2, SMTT(60) DEF BatchInv, PollState
    <3>2. i # id /\ i <= id
      BY <3>1, <1>3, SMTT(60) DEF PollIds
    <3> QED BY <3>1, <3>2, <1>11, <1>18, SMTT(60)
  <2> QED BY <2>1, <2>2, <1>1, <1>18, SMTT(60) DEF BatchInv
<1>23. \A x \in Flushed(ps) : x.fd \in Events /\ ps.table[x.fd] = x.id /\ x.fd # f /\ x.id # NoEvent
  <2>1. ps.kernel \in SUBSET Watch /\ ps.changes \in Changes
    BY <1>1 DEF PollState
  <2>2. Flushed(ps) \subseteq Watch
    <3>1. Len(ps.changes) \in 0..Len(ps.changes)
      BY <2>1 DEF Changes
    <3> QED BY <2>1, <3>1, AppliedType DEF Flushed
  <2>3. \A x \in Watch : x.fd \in Events /\ x.id # NoEvent
    BY PollAssumption, SMTT(60) DEF Watch, PollIds, NoEvent
  <2>4. \A x \in Flushed(ps) : ps.table[x.fd] = x.id
    BY <1>1 DEF KernelInv
  <2> QED BY <2>2, <2>3, <2>4, <1>4
<1>24. \A i \in 1..Len(ps.changes) :
         LET c == ps.changes[i] IN c.fd \in Events /\ ps.table[c.fd] = c.id /\ c.id # NoEvent
  <2> TAKE i \in 1..Len(ps.changes)
  <2>1. ps.changes[i] \in Change
    BY <1>1, SMTT(60) DEF PollState, Changes
  <2>2. ps.table[ps.changes[i].fd] = ps.changes[i].id
    BY <1>1, SMTT(60) DEF KernelInv
  <2> QED BY <2>1, <2>2, PollAssumption DEF Change, PollIds, NoEvent
<1>25. KernelInv(u)
  <2>1. ASSUME NEW d \in Events, u.pe[d] # NoEvent, NEW b \in PollBits
        PROVE  b \in u.mask[u.pe[d]] <=> \E x \in Flushed(u) : x.fd = u.fd[d] /\ x.bit = b
    <3>1. CASE d = e
      BY <3>1, <1>6, <1>9, <1>12, <1>18, <1>20, <1>23, SMTT(60)
    <3>2. CASE d # e
      <4>1. u.pe[d] = ps.pe[d] /\ u.fd[d] = ps.fd[d]
        BY <3>2, <1>6, <1>9, <1>18, SMTT(60)
      <4>2. b \in ps.mask[ps.pe[d]] <=> \E x \in Flushed(ps) : x.fd = ps.fd[d] /\ x.bit = b
        BY <4>1, <2>1, <1>1, SMTT(60) DEF KernelInv
      <4>3. u.mask[u.pe[d]] = ps.mask[ps.pe[d]]
        BY <4>1, <2>1, <1>12, <1>18, <1>19, SMTT(60)
      <4> QED BY <4>1, <4>2, <4>3, <1>20
    <3> QED BY <3>1, <3>2, SMTT(60)
  <2>2. \A x \in Flushed(u) : u.table[x.fd] = x.id
    BY <1>10, <1>18, <1>20, <1>23, SMTT(60)
  <2>3. \A i \in 1..Len(u.changes) : u.table[u.changes[i].fd] = u.changes[i].id
    BY <1>4, <1>10, <1>18, <1>24, SMTT(60)
  <2>4. ~FlushFails(u) /\ (u.backend = "epoll" => u.changes = <<>>)
    BY <1>1, <1>18, <1>20, SMTT(60) DEF KernelInv
  <2> QED BY <2>1, <2>2, <2>3, <2>4, SMTT(60) DEF KernelInv
<1> QED BY <1>1, <1>8, <1>17, <1>18, <1>21, <1>22, <1>25 DEF PollInv

\* A step that leaves the table and the kernel's side alone, and that keeps the PollEvents
\* of open events alive.
LEMMA SameTable ==
  ASSUME NEW t, NEW u, TableInv(t), KernelInv(t), u.fd = t.fd, u.pe = t.pe, u.table = t.table,
         u.mask = t.mask, u.owner = t.owner, u.opens = t.opens, u.kernel = t.kernel,
         u.changes = t.changes, u.backend = t.backend,
         \A e \in Events : t.pe[e] # NoEvent => t.pe[e] \in u.alive
  PROVE  TableInv(u) /\ KernelInv(u)
<1>1. Flushed(u) = Flushed(t) /\ (FlushFails(u) <=> FlushFails(t))
  BY Zenon DEF Flushed, FlushFails
<1>2. \A e \in Events : t.pe[e] # NoEvent =>
        /\ u.table[u.fd[e]] = u.pe[e] /\ u.owner[u.pe[e]] = e
        /\ u.pe[e] \in u.alive /\ u.pe[e] <= u.opens
  BY SMTT(60) DEF TableInv
<1>3. /\ \A e \in Events : u.fd[e] = 0 <=> u.pe[e] = NoEvent
      /\ \A f \in Events : u.table[f] # NoEvent => \E e \in Events : u.fd[e] = f /\ u.pe[e] = u.table[f]
  BY SMTT(60) DEF TableInv
<1>4. /\ \A i \in PollIds : u.owner[i] # NoEvent => u.pe[u.owner[i]] = i
      /\ \A i \in PollIds : u.owner[i] = NoEvent => u.mask[i] = {}
  BY SMTT(60) DEF TableInv
<1>5. TableInv(u)
  <2>1. \A e \in Events : u.pe[e] # NoEvent => t.pe[e] # NoEvent
    BY Zenon
  <2> QED BY <1>2, <1>3, <1>4, <2>1, ZenonT(60) DEF TableInv
<1>6. \A e \in Events : u.pe[e] # NoEvent =>
        \A b \in PollBits : b \in u.mask[u.pe[e]] <=> \E x \in Flushed(t) : x.fd = u.fd[e] /\ x.bit = b
  BY SMTT(60) DEF KernelInv
<1>7. /\ \A x \in Flushed(t) : u.table[x.fd] = x.id
      /\ \A i \in 1..Len(u.changes) : u.table[u.changes[i].fd] = u.changes[i].id
      /\ u.backend = "epoll" => u.changes = <<>>
  BY ZenonT(60) DEF KernelInv
<1>8. KernelInv(u)
  <2>1. ~FlushFails(u)
    BY <1>1 DEF KernelInv
  <2> QED BY <1>1, <1>6, <1>7, <2>1, SMTT(60) DEF KernelInv
<1> QED BY <1>5, <1>8

\* A batch that is not empty: its first report and the rest.
LEMMA BatchParts ==
  ASSUME NEW t \in PollState, BatchInv(t), t.batch # <<>>
  PROVE  /\ Head(t.batch) \in Report /\ Tail(t.batch) \in Batch /\ Head(t.batch).id \in t.alive
         /\ \A k \in 1..Len(Tail(t.batch)) : Tail(t.batch)[k].id \in t.alive
<1> DEFINE r == Head(t.batch)
           tail == Tail(t.batch)
<1>1. t.batch \in Seq(Report) /\ \A k \in 1..Len(t.batch) : t.batch[k].id \in t.alive
  BY DEF PollState, Batch, BatchInv
<1>2. r = t.batch[1] /\ 1 \in 1..Len(t.batch) /\ r \in Report
  BY <1>1
<1>3. tail \in Seq(Report) /\ Len(tail) = Len(t.batch) - 1 /\ \A k \in 1..Len(tail) : tail[k] = t.batch[k + 1]
  BY <1>1
<1>4. \A k \in 1..Len(tail) : k + 1 \in 1..Len(t.batch)
  BY <1>1, <1>3
<1> HIDE DEF tail, r
<1>5. r \in Report /\ tail \in Batch /\ r.id \in t.alive /\ \A k \in 1..Len(tail) : tail[k].id \in t.alive
  BY <1>1, <1>2, <1>3, <1>4, SMTT(60) DEF Batch
<1> QED BY <1>5 DEF r, tail

\* poll(): the changes go to the kernel, and its reports carry PollEvents of the table.
LEMMA PollKeeps ==
  ASSUME PollInv(ps), DoPoll
  PROVE  PollInv(ps')
<1> DEFINE t == Flush(ps)
<1>1. PollInv(t) /\ Flushed(t) = t.kernel
  <2>1. PollInv(t) /\ Flushed(t) = Flushed(ps) /\ t.kernel = Flushed(ps)
    BY FlushKeeps, Zenon
  <2> QED BY <2>1, SMTT(60)
<1>2. PICK b \in Batches(t) : ps' = [t EXCEPT !.batch = b, !.processing = TRUE, !.closed = {}]
  BY Zenon DEF DoPoll
<1> HIDE DEF t
<1>3. t \in PollState /\ TableInv(t) /\ KernelInv(t) /\ ~t.stale /\ ~t.thrown
  BY <1>1 DEF PollInv
<1>4. \A k \in t.kernel : k.id \in PollIds /\ k.id \in t.alive
  <2> TAKE k \in t.kernel
  <2>1. k \in Watch /\ t.table[k.fd] = k.id
    BY <1>1, <1>3 DEF PollState, KernelInv
  <2>2. k.fd \in Events /\ k.id \in PollIds /\ k.id # NoEvent
    BY <2>1, SMTT(60) DEF Watch, PollIds, NoEvent
  <2>3. PICK e \in Events : t.pe[e] = k.id
    BY <2>1, <2>2, <1>3 DEF TableInv
  <2> QED BY <2>2, <2>3, <1>3 DEF TableInv
<1>5. \A r \in Reports(t) : r \in Report /\ r.id \in t.alive
  <2> TAKE r \in Reports(t)
  <2>1. PICK k \in t.kernel, ready \in SUBSET PollBits, err \in BOOLEAN :
          r = [id |-> k.id, ready |-> ready, err |-> err]
    <3> DEFINE readies == IF t.backend = "epoll" THEN SUBSET PollBits \ {{}} ELSE {{b1} : b1 \in PollBits}
    <3>1. \A ready \in readies : ready \in SUBSET PollBits
      OBVIOUS
    <3>2. \/ \E k \in t.kernel, ready \in readies : r = [id |-> k.id, ready |-> ready, err |-> FALSE]
          \/ \E k \in t.kernel : r = [id |-> k.id, ready |-> {}, err |-> TRUE]
      BY DEF Reports
    <3> HIDE DEF readies
    <3>3. {} \in SUBSET PollBits
      BY SMTT(60)
    <3> QED BY <3>1, <3>2, <3>3, Zenon
  <2> QED BY <2>1, <1>4 DEF Report
<1>6. b \in Batch /\ \A k \in 1..Len(b) : b[k].id \in t.alive
  <2>1. CASE \E r \in Reports(t) : b = <<r>>
    BY <2>1, <1>5 DEF Batch
  <2>2. CASE \E r1, r2 \in Reports(t) : b = <<r1, r2>>
    BY <2>2, <1>5 DEF Batch
  <2> QED BY <2>1, <2>2 DEF Batches
<1> DEFINE u == [t EXCEPT !.batch = b, !.processing = TRUE, !.closed = {}]
<1>7. u \in PollState
  BY <1>3, <1>6, Zenon DEF PollState
<1>8. /\ u.batch = b /\ u.processing = TRUE /\ u.closed = {} /\ u.fd = t.fd /\ u.pe = t.pe
      /\ u.table = t.table /\ u.mask = t.mask /\ u.owner = t.owner /\ u.alive = t.alive
      /\ u.opens = t.opens /\ u.kernel = t.kernel /\ u.changes = t.changes
      /\ u.backend = t.backend /\ u.stale = t.stale /\ u.thrown = t.thrown
  BY <1>3 DEF PollState
<1>9. ps' = u
  BY <1>2, SMTT(60)
<1> HIDE DEF u
<1>10. TableInv(u) /\ KernelInv(u)
  <2>1. \A e \in Events : t.pe[e] # NoEvent => t.pe[e] \in u.alive
    BY <1>3, <1>8 DEF TableInv
  <2> QED BY <1>3, <1>8, <2>1, SameTable, Zenon
<1>11. BatchInv(u)
  BY <1>6, <1>8, SMTT(60) DEF BatchInv
<1> QED BY <1>3, <1>7, <1>8, <1>9, <1>10, <1>11 DEF PollInv

\* A handler is called with its event open and listening.
LEMMA HandlerKeeps ==
  ASSUME PollInv(ps), ps.batch # <<>>, NEW bit \in PollBits,
         ps' = CallHandler(ps, bit, Head(ps.batch).ready)
  PROVE  PollInv(ps')
<1> DEFINE r == Head(ps.batch)
           tail == Tail(ps.batch)
           ready == r.ready \ {"r"}
           again == [r EXCEPT !.ready = ready, !.err = FALSE]
           batch == IF bit = "r" THEN <<again>> \o tail ELSE tail
           call == bit \in r.ready /\ bit \in ps.mask[r.id]
           e == ps.owner[r.id]
           wrong == ps.stale \/ r.id \notin ps.alive \/ (call /\ (e = NoEvent \/ ps.fd[e] = 0))
           u == [ps EXCEPT !.stale = FALSE, !.batch = batch]
<1>1. ps \in PollState /\ TableInv(ps) /\ KernelInv(ps) /\ BatchInv(ps) /\ ~ps.stale /\ ~ps.thrown
  BY DEF PollInv
<1>2. /\ r \in Report /\ tail \in Batch /\ r.id \in ps.alive
      /\ \A k \in 1..Len(tail) : tail[k].id \in ps.alive
  BY <1>1, BatchParts, Zenon
<1> HIDE DEF tail
<1>3. again \in Report /\ again.id = r.id
  <2>1. ready \in SUBSET PollBits
    BY <1>2 DEF Report
  <2> HIDE DEF ready, r
  <2> QED BY <2>1, <1>2, ZenonT(60) DEF Report
<1> HIDE DEF again
<1>4. batch \in Batch /\ \A k \in 1..Len(batch) : batch[k].id \in ps.alive
  <2>1. CASE bit = "r"
    <3>1. /\ <<again>> \o tail \in Batch /\ Len(<<again>> \o tail) = Len(tail) + 1
          /\ (<<again>> \o tail)[1] = again
          /\ \A k \in 2..(Len(tail) + 1) : (<<again>> \o tail)[k] = tail[k - 1]
      BY <1>2, <1>3 DEF Batch
    <3>2. \A k \in 1..(Len(tail) + 1) : k = 1 \/ (k \in 2..(Len(tail) + 1) /\ k - 1 \in 1..Len(tail))
      BY <1>2 DEF Batch
    <3> HIDE DEF r
    <3> QED BY <2>1, <3>1, <3>2, <1>2, <1>3
  <2>2. CASE bit # "r"
    BY <2>2, <1>2, SMTT(60)
  <2> QED BY <2>1, <2>2
<1>5. ~wrong
  <2>1. ASSUME call PROVE e # NoEvent /\ ps.fd[e] # 0
    <3>1. r.id \in PollIds /\ ps.mask[r.id] # {}
      BY <2>1, <1>2, SMTT(60) DEF Report
    <3>2. e # NoEvent /\ e \in Events
      BY <3>1, <1>1, SMTT(60) DEF TableInv, PollState
    <3>3. ps.pe[e] = r.id
      BY <3>1, <3>2, <1>1, Zenon DEF TableInv
    <3>4. r.id # NoEvent
      BY <3>1 DEF PollIds, NoEvent
    <3> QED BY <3>2, <3>3, <3>4, <1>1, Zenon DEF TableInv
  <2> QED BY <2>1, <1>1, <1>2
<1>6. ps' = u
  <2>1. ps' = [ps EXCEPT !.stale = wrong, !.batch = batch]
    BY SMTT(60) DEF CallHandler, again, tail
  <2>2. wrong = FALSE
    BY <1>5
  <2> HIDE DEF wrong, batch
  <2> QED BY <2>1, <2>2, Zenon
<1> HIDE DEF batch
<1>7. u \in PollState
  BY <1>1, <1>4, Zenon DEF PollState
<1>8. /\ u.batch = batch /\ u.processing = ps.processing /\ u.closed = ps.closed /\ u.fd = ps.fd
      /\ u.pe = ps.pe /\ u.table = ps.table /\ u.mask = ps.mask /\ u.owner = ps.owner
      /\ u.alive = ps.alive /\ u.opens = ps.opens /\ u.kernel = ps.kernel
      /\ u.changes = ps.changes /\ u.backend = ps.backend /\ u.stale = FALSE /\ u.thrown = ps.thrown
  BY <1>1, SMTT(60) DEF PollState
<1> HIDE DEF u
<1>9. TableInv(u) /\ KernelInv(u)
  <2>1. \A x \in Events : ps.pe[x] # NoEvent => ps.pe[x] \in u.alive
    BY <1>1, <1>8, Zenon DEF TableInv
  <2> QED BY <1>1, <1>8, <2>1, SameTable, Zenon
<1>10. BatchInv(u)
  BY <1>1, <1>4, <1>8, Zenon DEF BatchInv
<1> QED BY <1>1, <1>6, <1>7, <1>8, <1>9, <1>10 DEF PollInv

\* event_error() closes the event, if the PollEvent still has one.
LEMMA ErrorKeeps ==
  ASSUME PollInv(ps), ps.batch # <<>>, ps' = CallError(ps)
  PROVE  PollInv(ps')
<1> DEFINE r == Head(ps.batch)
           tail == Tail(ps.batch)
           e == ps.owner[r.id]
           u == [ps EXCEPT !.batch = tail, !.stale = FALSE]
<1>1. ps \in PollState /\ TableInv(ps) /\ KernelInv(ps) /\ BatchInv(ps) /\ ~ps.stale /\ ~ps.thrown
  BY DEF PollInv
<1>2. /\ r \in Report /\ tail \in Batch /\ r.id \in ps.alive
      /\ \A k \in 1..Len(tail) : tail[k].id \in ps.alive
  BY <1>1, BatchParts, Zenon
<1>3. ps' = IF e = NoEvent THEN u ELSE CloseFd(RemoveAndClose(u, e), e)
  <2>1. (ps.stale \/ r.id \notin ps.alive) = FALSE
    BY <1>1, <1>2
  <2>2. [ps EXCEPT !.batch = tail, !.stale = ps.stale \/ r.id \notin ps.alive] = u
    BY <2>1, Zenon
  <2>3. CallError(ps)
          = LET w == [ps EXCEPT !.batch = tail, !.stale = ps.stale \/ r.id \notin ps.alive]
            IN  IF e = NoEvent THEN w ELSE CloseFd(RemoveAndClose(w, e), e)
    BY DEF CallError
  <2> HIDE DEF u, r, tail
  <2> QED BY <2>2, <2>3
<1> HIDE DEF tail
<1>4. u \in PollState
  BY <1>1, <1>2, ZenonT(60) DEF PollState
<1>5. /\ u.batch = tail /\ u.processing = ps.processing /\ u.closed = ps.closed /\ u.fd = ps.fd
      /\ u.pe = ps.pe /\ u.table = ps.table /\ u.mask = ps.mask /\ u.owner = ps.owner
      /\ u.alive = ps.alive /\ u.opens = ps.opens /\ u.kernel = ps.kernel
      /\ u.changes = ps.changes /\ u.backend = ps.backend /\ u.stale = FALSE /\ u.thrown = ps.thrown
  BY <1>1, SMTT(60) DEF PollState
<1> HIDE DEF u
<1>6. PollInv(u)
  <2>1. TableInv(u) /\ KernelInv(u)
    <3>1. \A x \in Events : ps.pe[x] # NoEvent => ps.pe[x] \in u.alive
      BY <1>1, <1>5, Zenon DEF TableInv
    <3> QED BY <1>1, <1>5, <3>1, SameTable, Zenon
  <2>2. BatchInv(u)
    BY <1>1, <1>2, <1>5, Zenon DEF BatchInv
  <2> QED BY <2>1, <2>2, <1>1, <1>4, <1>5, SMTT(60) DEF PollInv
<1>7. ASSUME e # NoEvent PROVE e \in Events /\ u.pe[e] # NoEvent
  <2>1. r.id \in PollIds /\ r.id # NoEvent
    BY <1>2 DEF Report, PollIds, NoEvent
  <2>2. e \in Events
    BY <2>1, <1>1, <1>7, SMTT(60) DEF PollState
  <2> QED BY <2>1, <2>2, <1>1, <1>5, <1>7 DEF TableInv
<1> HIDE DEF e
<1> QED BY <1>3, <1>6, <1>7, CloseEventKeeps

\* The batch ends: the closed PollEvents are let go.
LEMMA EndKeeps ==
  ASSUME PollInv(ps), ProcessEnds
  PROVE  PollInv(ps')
<1> DEFINE alive == ps.alive \ ps.closed
           u == [ps EXCEPT !.processing = FALSE, !.alive = alive, !.closed = {}]
<1>1. /\ ps \in PollState /\ TableInv(ps) /\ KernelInv(ps) /\ BatchInv(ps) /\ ~ps.stale /\ ~ps.thrown
      /\ ps.batch = <<>>
  BY DEF PollInv, ProcessEnds
<1>2. ps' = u
  BY <1>1 DEF ProcessEnds, PollState
<1>3. alive \in SUBSET PollIds
  BY <1>1, SMTT(60) DEF PollState
<1>4. ASSUME NEW e \in Events, ps.pe[e] # NoEvent PROVE ps.pe[e] \in alive
  <2>1. e # NoEvent
    BY PollAssumption DEF NoEvent
  <2> QED BY <2>1, <1>1, <1>4 DEF TableInv, BatchInv
<1> HIDE DEF alive
<1>5. u \in PollState
  BY <1>1, <1>3, ZenonT(60) DEF PollState
<1>6. /\ u.batch = <<>> /\ u.processing = FALSE /\ u.closed = {} /\ u.fd = ps.fd
      /\ u.pe = ps.pe /\ u.table = ps.table /\ u.mask = ps.mask /\ u.owner = ps.owner
      /\ u.alive = alive /\ u.opens = ps.opens /\ u.kernel = ps.kernel
      /\ u.changes = ps.changes /\ u.backend = ps.backend /\ u.stale = ps.stale /\ u.thrown = ps.thrown
  BY <1>1 DEF PollState
<1> HIDE DEF u
<1>7. TableInv(u) /\ KernelInv(u)
  <2>1. \A e \in Events : ps.pe[e] # NoEvent => ps.pe[e] \in u.alive
    BY <1>4, <1>6
  <2> QED BY <1>1, <1>6, <2>1, SameTable, Zenon
<1>8. BatchInv(u)
  <2>1. Len(<<>>) = 0
    OBVIOUS
  <2> QED BY <2>1, <1>6 DEF BatchInv
<1> QED BY <1>1, <1>2, <1>5, <1>6, <1>7, <1>8 DEF PollInv

-----------------------------------------------------------------------------

\* However many events and whatever handlers do to the poll set while a batch is processed,
\* with either backend: a handler is called only for an event that is open and listens, and
\* the kernel, once the buffered changes reach it, watches what the masks say
\* (HandlersAreLive).
THEOREM HandlersStayLive == PollSpec => []HandlersAreLive
<1>1. PollInit => PollInvHolds
  <2>0. SUFFICES ASSUME NEW b \in Backends,
                        ps = [backend |-> b, fd |-> [e \in Events |-> 0], pe |-> [e \in Events |-> NoEvent],
                              table |-> [f \in Events |-> NoEvent], mask |-> [i \in PollIds |-> {}],
                              owner |-> [i \in PollIds |-> NoEvent], alive |-> {}, closed |-> {}, opens |-> 0,
                              kernel |-> {}, changes |-> <<>>, batch |-> <<>>, processing |-> FALSE,
                              stale |-> FALSE, thrown |-> FALSE]
                 PROVE  PollInv(ps)
    BY Zenon DEF PollInit, PollInvHolds
  <2>1. <<>> \in Changes /\ <<>> \in Batch /\ Len(<<>>) = 0
    BY DEF Changes, Batch
  <2>2. b \in {"epoll", "kqueue"}
    BY PollAssumption, SMTT(60)
  <2>3. ps \in PollState
    BY <2>0, <2>1, <2>2 DEF PollState, NoEvent
  <2>4. TableInv(ps)
    BY <2>0, SMTT(60) DEF TableInv, NoEvent
  <2>5. Flushed(ps) = {}
    BY <2>0, AppliedNone DEF Flushed
  <2>6. KernelInv(ps)
    <3>1. ps.changes = <<>> /\ \A e \in Events : ps.pe[e] = NoEvent
      BY <2>0, SMTT(60)
    <3> QED BY <3>1, <2>1, <2>5, SMTT(60) DEF KernelInv, FlushFails
  <2>7. BatchInv(ps) /\ ~ps.stale /\ ~ps.thrown
    BY <2>0, <2>1 DEF BatchInv
  <2> QED BY <2>3, <2>4, <2>6, <2>7, SMTT(60) DEF PollInv
<1>2. PollInvHolds /\ [PollNext]_ps => PollInvHolds'
  <2> SUFFICES ASSUME PollInv(ps), [PollNext]_ps PROVE PollInv(ps')
    BY DEF PollInvHolds
  <2>1. ASSUME NEW e \in Events, OpenEvent(e) PROVE PollInv(ps')
    BY <2>1, OpenKeeps
  <2>2. ASSUME NEW e \in Events, InsertEvent(e) PROVE PollInv(ps')
    BY <2>2, InsertKeeps, SMTT(60) DEF InsertEvent
  <2>3. ASSUME NEW e \in Events, RemoveEvent(e) PROVE PollInv(ps')
    BY <2>3, RemoveKeeps DEF RemoveEvent
  <2>4. ASSUME NEW e \in Events, CloseEvent(e) PROVE PollInv(ps')
    <3>1. ps.pe[e] # NoEvent
      BY <2>4 DEF CloseEvent, PollInv, TableInv
    <3> QED BY <3>1, <2>4, CloseEventKeeps, SMTT(60) DEF CloseEvent
  <2>5. CASE DoPoll
    BY <2>5, PollKeeps
  <2>6. CASE Process
    <3>1. "r" \in PollBits /\ "w" \in PollBits
      BY DEF PollBits
    <3> QED BY <2>6, <3>1, HandlerKeeps, ErrorKeeps DEF Process
  <2>7. CASE ProcessEnds
    BY <2>7, EndKeeps
  <2>8. CASE UNCHANGED ps
    BY <2>8, SMTT(60)
  <2> QED BY <2>1, <2>2, <2>3, <2>4, <2>5, <2>6, <2>7, <2>8 DEF PollNext
<1>3. PollInvHolds => HandlersAreLive
  <2> SUFFICES ASSUME PollInv(ps) PROVE HandlersAreLive
    BY DEF PollInvHolds
  <2>1. ps \in PollState /\ TableInv(ps) /\ KernelInv(ps) /\ ~ps.stale /\ ~ps.thrown
    BY DEF PollInv
  <2>2. Flushed(ps) \subseteq Watch
    <3>1. ps.kernel \in SUBSET Watch /\ ps.changes \in Changes
      BY <2>1 DEF PollState
    <3>2. Len(ps.changes) \in 0..Len(ps.changes)
      BY <3>1 DEF Changes
    <3> QED BY <3>1, <3>2, AppliedType DEF Flushed
  <2>3. ASSUME NEW e \in Events, ps.pe[e] # NoEvent
        PROVE  {x.bit : x \in {x \in Flushed(ps) : x.fd = ps.fd[e]}} = ps.mask[ps.pe[e]]
    <3>1. ps.mask[ps.pe[e]] \in SUBSET PollBits
      BY <2>3, OpenIsKnown
    <3>2. \A x \in Flushed(ps) : x.bit \in PollBits
      BY <2>2, SMTT(60) DEF Watch
    <3>3. \A b \in PollBits : b \in ps.mask[ps.pe[e]] <=> \E x \in Flushed(ps) : x.fd = ps.fd[e] /\ x.bit = b
      BY <2>1, <2>3, SMTT(60) DEF KernelInv
    <3> QED BY <3>1, <3>2, <3>3
  <2>4. ASSUME NEW x \in Flushed(ps) PROVE x.id \in ps.alive /\ ps.table[x.fd] = x.id
    <3>1. x.fd \in Events /\ x.id # NoEvent /\ ps.table[x.fd] = x.id
      BY <2>1, <2>2, <2>4, SMTT(60) DEF Watch, PollIds, NoEvent, KernelInv
    <3>2. PICK e \in Events : ps.pe[e] = x.id
      BY <3>1, <2>1, SMTT(60) DEF TableInv
    <3> QED BY <3>1, <3>2, <2>1, SMTT(60) DEF TableInv
  <2>5. \A i \in DOMAIN ps.changes : ps.table[ps.changes[i].fd] = ps.changes[i].id
    <3>1. DOMAIN ps.changes = 1..Len(ps.changes)
      BY <2>1, SMTT(60) DEF PollState, Changes
    <3> QED BY <3>1, <2>1 DEF KernelInv
  <2>6. ~FlushFails(ps)
    BY <2>1 DEF KernelInv
  <2> QED BY <2>1, <2>3, <2>4, <2>5, <2>6 DEF HandlersAreLive, NoStaleHandler, KernelMatches, NoPollError
<1> QED BY <1>1, <1>2, <1>3, PTL DEF PollSpec
=============================================================================
