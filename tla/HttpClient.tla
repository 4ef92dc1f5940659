----------------------------- MODULE HttpClient -----------------------------
(***************************************************************************)
(* HTTP requests: HttpGet/CurlGet (torrent/net/http_get.cc,                *)
(* net/curl_get.cc), the CurlStack of the net thread (net/curl_stack.cc)   *)
(* and the sockets libcurl opens through CurlSocket (net/curl_socket.cc).  *)
(* An owner uses a request the way TrackerHttp does: it waits for the old  *)
(* request to be gone, makes a new one, starts it, and closes it with its  *)
(* callbacks cancelled when a slot has run or when it gives up.            *)
(*                                                                         *)
(* The net thread takes a callback off its queue in one step and runs it,  *)
(* under the mutex of the request, in the next: cancel_callback() does not *)
(* reach a callback that was taken.  libcurl is external: what it does     *)
(* with an added handle is a choice.                                       *)
(***************************************************************************)
EXTENDS Integers, FiniteSets, FiniteSetsExt, Sequences, SequencesExt

CONSTANTS Gets,        \* owners, each with one request at a time
          Resolves,    \* pairs <<m_initial_resolve, m_retry_resolve>>
          Usables,     \* families a url and the bind addresses allow
          MaxClears    \* bound: calls of clear_requests() in a behaviour

VARIABLE s

None == "none"
NewGet == [handle |-> FALSE, stack |-> FALSE, active |-> FALSE, prepare_canceled |-> FALSE,
           start_pending |-> FALSE, was_started |-> FALSE, was_closed |-> FALSE,
           was_cleaned_up |-> FALSE, retrying |-> FALSE,
           msg |-> None, socket |-> None]

Throw(t) == [t EXCEPT !.thrown = TRUE]

\* A slot added by HttpGet::add_*_slot() posts to the owner's thread.
Signal(t, g, what) == [t EXCEPT !.inbox[g] = Append(@, what)]

-----------------------------------------------------------------------------
(* CurlSocket: the callbacks libcurl makes.  socket_map is the set of      *)
(* requests with a CurlSocket; each is registered with the socket manager  *)
(* and in the poll.                                                        *)

\* open_socket()
OpenSocket(t, g) ==
  IF ~t.running THEN t
  ELSE IF g \in t.socket_map THEN Throw(t)
  ELSE [t EXCEPT !.socket_map = @ \cup {g}, !.registered = @ + 1, !.get[g].socket = "opened"]

\* receive_socket() with a poll request; handle_poll_new() the first time.
PollSocket(t, g) ==
  IF t.get[g].socket = None THEN t
  ELSE IF g \notin t.socket_map \/ t.get[g].socket = "removed" THEN Throw(t)
  ELSE [t EXCEPT !.get[g].socket = "polled"]

\* receive_socket(CURL_POLL_REMOVE), handle_poll_remove()
PollRemove(t, g) ==
  IF t.get[g].socket # "polled" THEN t
  ELSE IF g \notin t.socket_map THEN Throw(t)
  ELSE [t EXCEPT !.get[g].socket = "removed"]

\* close_socket(): out of the poll, the manager and the map.
CloseSocketKeepsRegistered(t, g) ==
  IF t.get[g].socket = None THEN t
  ELSE IF g \notin t.socket_map THEN Throw(t)
  ELSE [t EXCEPT !.socket_map = @ \ {g}, !.get[g].socket = None]
CloseSocket(t, g) ==
  IF t.get[g].socket = None THEN t
  ELSE IF g \notin t.socket_map THEN Throw(t)
  ELSE [t EXCEPT !.socket_map = @ \ {g}, !.registered = @ - 1, !.get[g].socket = None]

\* libcurl is done with the connection: CURLOPT_FORBID_REUSE closes it.
CurlDropsSocket(t, g) == CloseSocket(PollRemove(t, g), g)

-----------------------------------------------------------------------------
(* CurlGet, under its mutex.                                               *)

Deactivate(t, g) ==
  IF ~t.get[g].active THEN Throw(t)
  ELSE CurlDropsSocket([t EXCEPT !.get[g].active = FALSE, !.get[g].msg = None], g)

Activate(t, g) == IF t.get[g].active THEN Throw(t) ELSE [t EXCEPT !.get[g].active = TRUE]

\* prepare_resolve_unsafe(): a family that is not available is an input_error.
CanResolve(t, family) == family \in t.usable

\* The end of prepare_start_unsafe(): the initial family, else the other one.
PrepareFamilies(t, g) ==
  CASE t.resolve[1] = "whatever" \/ CanResolve(t, t.resolve[1]) -> t
    [] CanResolve(t, t.resolve[2]) -> [t EXCEPT !.get[g].retrying = TRUE]
    [] OTHER -> Signal([t EXCEPT !.get[g].prepare_canceled = TRUE,
                                 !.get[g].retrying = (t.resolve[2] # None)], g, "failed")

PrepareStartAnyway(t, g) ==
  PrepareFamilies([t EXCEPT !.get[g].start_pending = FALSE, !.get[g].handle = TRUE,
                            !.get[g].stack = TRUE, !.get[g].retrying = FALSE], g)
PrepareStart(t, g) ==
  LET get == t.get[g]
  IN CASE get.handle -> Throw(t)
       [] ~get.start_pending -> t
       [] ~get.was_started -> Throw(t)
       [] get.was_closed \/ get.was_cleaned_up ->
            [t EXCEPT !.get[g].start_pending = FALSE, !.get[g].prepare_canceled = TRUE]
       [] OTHER -> PrepareFamilies([t EXCEPT !.get[g].start_pending = FALSE, !.get[g].handle = TRUE,
                                             !.get[g].stack = TRUE, !.get[g].retrying = FALSE], g)

\* cleanup_unsafe()
CleanupDown(t, g) ==
  [t EXCEPT !.get[g] = [@ EXCEPT !.handle = FALSE, !.stack = FALSE, !.start_pending = FALSE,
                                 !.was_started = FALSE, !.was_closed = FALSE,
                                 !.prepare_canceled = FALSE, !.retrying = FALSE,
                                 !.was_cleaned_up = TRUE]]

Cleanup(t, g) ==
  LET get == t.get[g]
  IN CASE get.handle /\ get.active -> CleanupDown(Deactivate(t, g), g)
       [] get.handle -> CleanupDown(t, g)
       [] get.prepare_canceled -> CleanupDown(t, g)
       [] OTHER -> Throw(t)

\* retry_resolve(): the other family, once; TRUE when the handle runs again.
Retries(t, g) == ~t.get[g].retrying /\ t.resolve[2] # None

RetryResolve(t, g) ==
  LET u == [Deactivate(t, g) EXCEPT !.get[g].retrying = TRUE]
  IN IF CanResolve(t, t.resolve[2]) THEN Activate(u, g) ELSE u

\* trigger_done(), trigger_failed()
Trigger(t, g, what) ==
  LET u == [t EXCEPT !.get[g].retrying = TRUE]
  IN IF t.get[g].was_closed THEN u ELSE Signal(u, g, what)

TriggerCleared(t, g) ==
  LET u == [t EXCEPT !.get[g].retrying = TRUE]
  IN IF t.get[g].was_closed THEN u
     ELSE Signal(IF t.get[g].active THEN Deactivate(u, g) ELSE u, g, "failed")

-----------------------------------------------------------------------------
(* CurlStack, in the net thread.                                           *)

\* start_get(): push_back() and activate, unless the request did not prepare.
Push(t, g) ==
  IF t.get[g].handle /\ ~t.get[g].prepare_canceled /\ g \notin ToSet(t.stack)
  THEN Activate([t EXCEPT !.stack = Append(@, g)], g)
  ELSE t

StartGet(t, g) ==
  IF ~t.running THEN Throw(t)
  ELSE IF ~t.get[g].start_pending THEN PrepareStart(t, g)
  ELSE Push(PrepareStart(t, g), g)

\* close_get(): notify_closed() wakes wait_for_close().
CloseGet(t, g) ==
  IF t.get[g].prepare_canceled THEN Cleanup(t, g)
  ELSE IF g \notin ToSet(t.stack) THEN Throw(t)
  ELSE Cleanup([t EXCEPT !.stack = SelectSeq(@, LAMBDA x : x # g)], g)

ClearRequests(t) == FoldLeft(TriggerCleared, t, t.stack)

\* libcurl has a message that was not read.
HasMessage(t, g) == t.get[g].msg \notin {None, "read"}

\* process_done_handle() for one message; find_curl_handle() must find it.
ProcessDoneHandle(t, g) ==
  LET msg == t.get[g].msg
      u == [t EXCEPT !.get[g].msg = "read"]
  IN CASE g \notin ToSet(t.stack) -> Throw(t)
       [] t.get[g].was_closed -> u
       [] msg = "noresolve" /\ Retries(t, g) ->
            LET r == RetryResolve(u, g)
            IN IF r.get[g].active THEN r ELSE Trigger(r, g, "failed")
       [] msg = "ok" -> Trigger(u, g, "done")
       [] OTHER -> Trigger(u, g, "failed")

\* call_events(), handle_action() and receive_timeout() read every message.
ProcessDone ==
  /\ s.running /\ s.netrun = None
  /\ \E g \in Gets : HasMessage(s, g)
  /\ s' = FoldSet(LAMBDA g, t : IF HasMessage(t, g) THEN ProcessDoneHandle(t, g) ELSE t, s, Gets)

\* receive_timeout(): the timer runs again while there are requests.
ReceiveTimeout ==
  /\ s.running /\ s.netrun = None /\ s.timer
  /\ s' = LET t == FoldSet(LAMBDA g, x : IF HasMessage(x, g) THEN ProcessDoneHandle(x, g) ELSE x, s, Gets)
          IN [t EXCEPT !.timer = (t.stack # <<>>)]

\* The net thread takes the next callback and then runs it.
NetTake ==
  /\ s.running /\ s.netrun = None /\ s.netq # <<>>
  /\ s' = [s EXCEPT !.netrun = Head(s.netq).kind, !.netget = Head(s.netq).get, !.netq = Tail(@)]

RunCallback(t, kind, g) ==
  CASE kind = "start" -> StartGet(t, g)
    [] kind = "close" -> CloseGet(t, g)
    [] kind = "clear" -> ClearRequests(t)
    [] OTHER -> t

NetRun ==
  /\ s.running /\ s.netrun # None
  /\ s' = [RunCallback(s, s.netrun, s.netget) EXCEPT !.netrun = None, !.netget = None]

\* shutdown(): close_get() for what is left in the stack.
Shutdown ==
  /\ s.running /\ s.netrun = None
  /\ s' = FoldRight(LAMBDA g, t : CloseGet(t, g), s.stack, [s EXCEPT !.running = FALSE, !.timer = FALSE])

Stopped == ~s.running /\ UNCHANGED s

-----------------------------------------------------------------------------
(* libcurl (external).                                                     *)

CurlOpens == \E g \in Gets :
  /\ s.running /\ s.netrun = None /\ s.get[g].active /\ s.get[g].msg = None /\ s.get[g].socket = None
  /\ s' = PollSocket(OpenSocket(s, g), g)

CurlEnds == \E g \in Gets, msg \in {"ok", "failed", "noresolve"} :
  /\ s.running /\ s.netrun = None /\ s.get[g].active /\ s.get[g].msg = None
  /\ s' = CurlDropsSocket([s EXCEPT !.get[g].msg = msg], g)

CurlSetsTimer ==
  /\ s.running /\ s.netrun = None /\ ~s.timer /\ \E g \in Gets : s.get[g].active
  /\ s' = [s EXCEPT !.timer = TRUE]

-----------------------------------------------------------------------------
(* The owners' threads.                                                    *)

Post(t, kind, g) == [t EXCEPT !.netq = Append(@, [kind |-> kind, get |-> g])]

\* try_wait_for_close(), reset(), use_*(), CurlGet::start()
Start == \E g \in Gets :
  /\ s.running /\ ~s.busy[g]
  /\ s.get[g].was_closed => ~s.get[g].handle
  /\ s' = Post([s EXCEPT !.busy[g] = TRUE, !.netrun = IF s.netget = g THEN "void" ELSE @,
                         !.get[g] = [NewGet EXCEPT !.was_started = TRUE, !.start_pending = TRUE]], "start", g)

\* CurlGet::close_self() with the callbacks cancelled.
CancelCallbacks(t, g) ==
  [t EXCEPT !.netq = SelectSeq(@, LAMBDA c : c.get # g), !.inbox[g] = <<>>]

CloseLast(t, g) ==
  IF ~t.get[g].stack
  THEN [CancelCallbacks(t, g) EXCEPT !.get[g] = NewGet]
  ELSE CancelCallbacks(Post([t EXCEPT !.get[g].was_closed = TRUE], "close", g), g)
CloseSelf(t, g) ==
  CASE ~t.get[g].was_started \/ t.get[g].was_closed -> Throw(t)
    [] ~t.get[g].stack ->
         [CancelCallbacks(t, g) EXCEPT !.get[g].start_pending = FALSE, !.get[g].was_started = FALSE,
                                       !.get[g].prepare_canceled = FALSE, !.get[g].retrying = FALSE]
    [] OTHER -> Post([CancelCallbacks(t, g) EXCEPT !.get[g].was_closed = TRUE], "close", g)

Close == \E g \in Gets :
  /\ s.running /\ s.busy[g]
  /\ s' = CloseSelf([s EXCEPT !.busy[g] = FALSE], g)

\* A slot runs in the owner's thread, and the owner closes the request.
Deliver == \E g \in Gets :
  /\ s.running /\ s.inbox[g] # <<>>
  /\ s' = IF ~s.busy[g] THEN [s EXCEPT !.stray = TRUE, !.inbox[g] = Tail(@)]
          ELSE CloseSelf([s EXCEPT !.busy[g] = FALSE, !.inbox[g] = Tail(@)], g)

\* HttpStack::clear_requests()
Clear ==
  /\ s.running /\ s.clears < MaxClears
  /\ s' = Post([s EXCEPT !.clears = @ + 1], "clear", None)

InitWith(r, u) ==
        s = [resolve |-> r, usable |-> u,
             get |-> [g \in Gets |-> NewGet], busy |-> [g \in Gets |-> FALSE],
             inbox |-> [g \in Gets |-> <<>>], netq |-> <<>>, netrun |-> None, netget |-> None,
             stack |-> <<>>, running |-> TRUE, timer |-> FALSE, clears |-> 0,
             socket_map |-> {}, registered |-> 0, stray |-> FALSE, thrown |-> FALSE]

Init == \E r \in Resolves, u \in Usables : InitWith(r, u)

Next == \/ ProcessDone \/ ReceiveTimeout \/ NetTake \/ NetRun \/ Shutdown \/ Stopped
        \/ CurlOpens \/ CurlEnds \/ CurlSetsTimer
        \/ Start \/ Close \/ Deliver \/ Clear

Spec == Init /\ [][Next]_s

-----------------------------------------------------------------------------
(* Properties.                                                             *)

\* No internal_error is thrown whenever the owner closes: before the net thread
\* has taken the start, while it runs it, after a retry, after clear_requests().
NothingThrown == ~s.thrown

\* Once close_and_cancel_callbacks() has returned no slot of that request runs,
\* and an owner gets at most one result per request.
ClosedIsQuiet ==
  /\ ~s.stray
  /\ \A g \in Gets : ~s.busy[g] => s.inbox[g] = <<>>

Waiting(kind, g) ==
  \/ s.netrun = kind /\ s.netget = g
  \/ \E i \in DOMAIN s.netq : s.netq[i].kind = kind /\ s.netq[i].get = g

\* A request is never leaked: the stack holds exactly the requests with an easy
\* handle that prepared, and one that is closed but has its handle still has a
\* close_get() coming to it, so that try_wait_for_close() returns.
NothingLeaks ==
  s.running =>
    /\ IsInjective(s.stack)
    /\ ToSet(s.stack) = {g \in Gets : s.get[g].handle /\ ~s.get[g].prepare_canceled}
    /\ \A g \in Gets : s.get[g].was_closed => Waiting("close", g)

\* An owner that waits for a result will get one: its start is still queued, or
\* a slot is on its way, or libcurl works on the handle or has a message for it.
ResultComes ==
  s.running => \A g \in Gets : s.busy[g] =>
    \/ Waiting("start", g) \/ s.inbox[g] # <<>>
    \/ s.get[g].active /\ s.get[g].msg # "read"

\* The sockets known to the stack are those the socket manager counts, and only
\* a handle libcurl works on has one.
SocketsMatch ==
  /\ s.registered = Cardinality(s.socket_map)
  /\ \A g \in s.socket_map : s.get[g].active
=============================================================================
