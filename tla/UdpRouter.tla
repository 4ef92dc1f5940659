----------------------------- MODULE UdpRouter ------------------------------
(***************************************************************************)
(* tracker::UdpRouter: the socket of one address family that the UDP       *)
(* trackers share.  A connection_info waits for the resolver, in the write *)
(* queue for the socket or in the timeout queue for an answer; a queue     *)
(* entry whose connection is gone stays behind as a null pointer.          *)
(*                                                                         *)
(* Time is counted in units of 15 seconds, and a deadline is the time left *)
(* until it.                                                               *)
(***************************************************************************)
EXTENDS Integers, Sequences, SequencesExt

CONSTANTS
  Ids,             \* bound: transaction ids, and so connections
  MaxQueue,        \* bound: entries of a queue, cleared ones included
  RebindBusy       \* the bind address may change while requests are pending

VARIABLE s

None == -1         \* no timer
Null == 0          \* the connection_info* of an entry that was cleared
MaxRetries == 3

(* connection_info: queue_ptr and timeout_ptr say whether an entry of the   *)
(* queue points back; `wanted' is that the failure callback is still set.   *)
Info(addr) ==
  [address |-> addr, wanted |-> TRUE, retry_count |-> 0, queue_ptr |-> FALSE, timeout_ptr |-> FALSE]

Init ==
  s = [open |-> FALSE, conns |-> <<>>, write |-> <<>>, timeout |-> <<>>, timer |-> None,
       inWrite |-> FALSE, resolving |-> {}, thrown |-> FALSE]

Known(t, id) == id \in DOMAIN t.conns
Unknown(t) ==
  IF Len(t.write) < MaxQueue /\ Len(t.timeout) < MaxQueue THEN Ids \ (DOMAIN t.conns \cup t.resolving) ELSE {}
Without(f, id) == [i \in DOMAIN f \ {id} |-> f[i]]
With(f, id, v) == [i \in DOMAIN f \cup {id} |-> IF i = id THEN v ELSE f[i]]
Throw(t) == [t EXCEPT !.thrown = TRUE]

TypeOK ==
  /\ DOMAIN s.conns \subseteq Ids
  /\ \A i \in DOMAIN s.write : s.write[i] \in Ids \cup {Null}
  /\ \A i \in DOMAIN s.timeout :
       s.timeout[i].id \in Ids \cup {Null} /\ s.timeout[i].left \in 0..MaxRetries
  /\ s.timer \in {None} \cup 0..MaxRetries

-----------------------------------------------------------------------------
(* clear_timeout() and disconnect_unsafe() null the entries of both queues. *)
ClearTimeout(t, id) ==
  [t EXCEPT !.timeout = [i \in DOMAIN @ |-> IF @[i].id = id THEN [@[i] EXCEPT !.id = Null] ELSE @[i]],
            !.conns[id].timeout_ptr = FALSE]
DisconnectUnsafe(t, id) ==
  LET u == ClearTimeout(t, id)
  IN [u EXCEPT !.write = [i \in DOMAIN @ |-> IF @[i] = id THEN Null ELSE @[i]],
               !.conns = Without(@, id)]
DisconnectFailureUnsafe(t, id) == DisconnectUnsafe(t, id)

(* The timer is started only when the queue was empty.                      *)
QueueTimeout(t, id) ==
  IF t.conns[id].timeout_ptr THEN Throw(t)
  ELSE LET left == t.conns[id].retry_count + 1
       IN [t EXCEPT !.conns[id].retry_count = left, !.conns[id].timeout_ptr = TRUE,
                    !.timer = IF t.timeout = <<>> THEN left ELSE @,
                    !.timeout = Append(@, [id |-> id, left |-> left])]
QueueWrite(t, id) ==
  IF t.conns[id].queue_ptr THEN Throw(t)
  ELSE [t EXCEPT !.conns[id].queue_ptr = TRUE, !.write = Append(@, id),
                !.inWrite = @ \/ t.write = <<>>]

(* try_write(): `err' is what the socket says.                              *)
TryWrite(t, id, err) ==
  IF ~t.open \/ t.conns[id].retry_count >= MaxRetries THEN Throw(t)
  ELSE IF err = "unreachable" THEN DisconnectFailureUnsafe(t, id) ELSE t
QueueAfter(t, id, err) ==
  CASE t.thrown \/ err = "unreachable" -> t
    [] err = "again" -> QueueWrite(t, id)
    [] OTHER -> QueueTimeout(t, id)
TryWriteWithQueues(t, id, err) ==
  QueueAfter(TryWrite(ClearTimeout(t, id), id, err), id, err)

Errors == {"ok", "again", "unreachable"}

-----------------------------------------------------------------------------
OpenSocket ==
  /\ ~s.thrown /\ ~s.open
  /\ s' = [s EXCEPT !.open = TRUE]

(* close(): the timer, the resolver callbacks and the socket go, the        *)
(* connections and the queues stay.                                         *)
Closed(t) == [t EXCEPT !.open = FALSE, !.timer = None, !.resolving = {}, !.inWrite = FALSE]
MayRebind == RebindBusy \/ (DOMAIN s.conns = {} /\ s.write = <<>> /\ s.timeout = <<>>)
CloseSocket ==
  /\ ~s.thrown /\ s.open /\ MayRebind
  /\ s' = Closed(s)

(* updated_network_config() with another bind address.                      *)
UpdatedNetworkConfig ==
  /\ ~s.thrown /\ s.open /\ MayRebind
  /\ s' = [Closed(s) EXCEPT !.open = TRUE]

Connected(t, id, addr) == [t EXCEPT !.conns = With(@, id, Info(addr))]

(* connect() with an address, and with a name that has to be resolved.      *)
ConnectAddress ==
  /\ ~s.thrown /\ s.open
  /\ \E id \in Unknown(s), err \in Errors :
       s' = TryWriteWithQueues(Connected(s, id, TRUE), id, err)
ConnectHostname ==
  /\ ~s.thrown /\ s.open
  /\ \E id \in Unknown(s) :
       s' = [Connected(s, id, FALSE) EXCEPT !.resolving = @ \cup {id}]

(* resolved_hostname().                                                     *)
Resolved(t, id, failed, err) ==
  CASE ~Known(t, id) -> t
    [] Known(t, id) /\ t.conns[id].address -> Throw(t)
    [] Known(t, id) /\ ~t.conns[id].wanted -> DisconnectUnsafe(t, id)
    [] OTHER -> IF failed THEN DisconnectFailureUnsafe(t, id)
                ELSE TryWriteWithQueues([t EXCEPT !.conns[id].address = TRUE], id, err)
ResolvedHostname ==
  /\ ~s.thrown
  /\ \E id \in s.resolving, failed \in BOOLEAN, err \in Errors :
       s' = Resolved([s EXCEPT !.resolving = @ \ {id}], id, failed, err)

(* disconnect() by the tracker that closes: the resolver may still call.    *)
Disconnect ==
  /\ ~s.thrown
  /\ \E id \in DOMAIN s.conns :
       /\ s.conns[id].wanted
       /\ s' = IF s.conns[id].address THEN DisconnectUnsafe(s, id)
               ELSE [s EXCEPT !.conns[id].wanted = FALSE]

(* event_read() of one datagram: process() ends the connection, ignores the *)
(* packet or transfer()s the address to a new connection.                   *)
Transfer(t, id, new, err) ==
  TryWriteWithQueues(DisconnectUnsafe(Connected(t, new, TRUE), id), new, err)
EventRead ==
  /\ ~s.thrown /\ s.open
  /\ \E id \in DOMAIN s.conns :
       /\ s.conns[id].address
       /\ \/ s' = DisconnectUnsafe(s, id)
          \/ \E new \in Unknown(s), err \in Errors : s' = Transfer(s, id, new, err)

(* event_write(): err[i] answers the i-th attempt, the last one when the    *)
(* socket is full.                                                          *)
WriteFront(t, id, err) ==
  LET u == TryWrite(t, id, err)
      v == [u EXCEPT !.write = Tail(@)]
  IN IF err = "again" THEN [u EXCEPT !.inWrite = TRUE]
     ELSE IF u.thrown \/ err = "unreachable" THEN v
     ELSE QueueTimeout([v EXCEPT !.conns[id].queue_ptr = FALSE], id)
WriteStep(acc, i, errs) ==
  IF acc.stop \/ acc.t.write = <<>> \/ acc.t.thrown THEN acc
  ELSE IF Head(acc.t.write) = Null THEN [acc EXCEPT !.t.write = Tail(@)]
  ELSE [t |-> WriteFront(acc.t, Head(acc.t.write), errs[Head(acc.t.write)]),
        stop |-> errs[Head(acc.t.write)] = "again"]
WriteAll(t, errs) ==
  FoldLeft(LAMBDA acc, i : WriteStep(acc, i, errs), [t |-> t, stop |-> FALSE], [i \in DOMAIN t.write |-> i]).t
EventWrite ==
  /\ ~s.thrown /\ s.open /\ s.inWrite
  /\ \E errs \in [DOMAIN s.conns -> Errors] :
       LET t == WriteAll(s, errs)
       IN s' = [t EXCEPT !.inWrite = t.write # <<>>]

(* receive_timeout(): the entries that are due, the oldest first.           *)
ExpireFrontOneMore(t, id, err) ==
  IF id = Null THEN t
  ELSE LET u == [t EXCEPT !.conns[id].timeout_ptr = FALSE]
       IN IF t.conns[id].retry_count > MaxRetries THEN DisconnectFailureUnsafe(u, id)
          ELSE TryWriteWithQueues(u, id, err)
ExpireFront(t, id, err) ==
  IF id = Null THEN t
  ELSE LET u == [t EXCEPT !.conns[id].timeout_ptr = FALSE]
       IN IF t.conns[id].retry_count >= MaxRetries THEN DisconnectFailureUnsafe(u, id)
          ELSE IF t.conns[id].queue_ptr THEN Throw(u) ELSE TryWriteWithQueues(u, id, err)
ErrorOf(errs, id) == IF id = Null THEN "ok" ELSE errs[id]
ExpireStep(t, errs) ==
  IF t.thrown \/ t.timeout = <<>> \/ Head(t.timeout).left > 0 THEN t
  ELSE ExpireFront([t EXCEPT !.timeout = Tail(@)], Head(t.timeout).id, ErrorOf(errs, Head(t.timeout).id))
ExpireAll(t, errs) == FoldLeft(LAMBDA a, i : ExpireStep(a, errs), t, [i \in DOMAIN t.timeout |-> i])
RearmTimerNever(t) == t
RearmTimer(t) == [t EXCEPT !.timer = IF t.timeout = <<>> THEN @ ELSE Head(t.timeout).left]
ReceiveTimeout ==
  /\ ~s.thrown /\ s.timer = 0
  /\ \E errs \in [DOMAIN s.conns -> Errors] : s' = RearmTimer(ExpireAll([s EXCEPT !.timer = None], errs))

(* Fifteen seconds pass; a due timer fires before that.                     *)
Tick ==
  /\ ~s.thrown /\ s.timer # 0
  /\ s.timer > 0 \/ \E i \in DOMAIN s.timeout : s.timeout[i].left > 0
  /\ s' = [s EXCEPT !.timer = IF @ = None THEN None ELSE @ - 1,
                    !.timeout = [i \in DOMAIN @ |-> [@[i] EXCEPT !.left = IF @ = 0 THEN 0 ELSE @ - 1]]]

Requests == ConnectAddress \/ ConnectHostname \/ Disconnect
Next ==
  \/ OpenSocket \/ CloseSocket \/ UpdatedNetworkConfig \/ Requests
  \/ ResolvedHostname \/ EventRead \/ EventWrite \/ ReceiveTimeout \/ Tick

Spec == Init /\ [][Next]_s

-----------------------------------------------------------------------------
Queued(id) ==
  /\ s.conns[id].queue_ptr <=> \E i \in DOMAIN s.write : s.write[i] = id
  /\ s.conns[id].timeout_ptr <=> \E i \in DOMAIN s.timeout : s.timeout[i].id = id

(* No request is forgotten: while the router is open every connection waits *)
(* for exactly one thing that will happen, the resolver, the socket or the  *)
(* timer, and the entries of the queues belong to the connection they name. *)
NothingForgotten ==
  /\ \A id \in DOMAIN s.conns :
       /\ Queued(id)
       /\ s.open => IF s.conns[id].address THEN s.conns[id].queue_ptr # s.conns[id].timeout_ptr
                    ELSE id \in s.resolving
  /\ s.open => (s.write # <<>> => s.inWrite) /\ (s.timeout # <<>> => s.timer # None)

NothingThrown == ~s.thrown
=============================================================================
