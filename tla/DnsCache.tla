------------------------------ MODULE DnsCache ------------------------------
(***************************************************************************)
(* Name resolution as its callers see it: Resolver (torrent/net/resolver.cc*)
(* in the caller's thread), DnsCache and DnsBuffer (net/dns_cache.cc,      *)
(* net/dns_buffer.cc, both in the net thread) and the callback queues      *)
(* between them.  The resolver under the buffer (module DnsResolver) is    *)
(* taken for what it promises: one answer for every query.                 *)
(*                                                                         *)
(* An age is the time since last_update_or_failed(), Never when both times *)
(* are zero, and it stops growing at CullAge.                              *)
(***************************************************************************)
EXTENDS Integers, FiniteSets, FiniteSetsExt, Sequences, SequencesExt

CONSTANTS Requesters, Hosts, Families,
          MaxRequests,                             \* DnsBuffer::max_requests
          MaxAsks,                                 \* bound: requests made in a behaviour
          RetryAge, NoRecordAge, StaleAge, CullAge \* 10 min, 2 h, 24 h, 48 h

VARIABLE s

Never == -1
Cache == "cache"           \* the requester of a background update
Expired == "expired"       \* a weak_ptr whose requester is gone
Inets == {"inet", "inet6"}
NoQuery == [family |-> "none"]

NewInfo == [addr |-> FALSE, no_record |-> FALSE, updating |-> FALSE, age |-> Never]
Slots == 1..MaxRequests

\* An answer: for each family "addr", an error, or "0" when not asked.
Answer(sin, sin6) == [sin |-> sin, sin6 |-> sin6]
FamilyAnswer(f, a) == IF f = "inet" THEN Answer(a, "0") ELSE Answer("0", a)

-----------------------------------------------------------------------------
(* DnsBuffer                                                               *)

\* initialize_fn(): find or make the DnsBufferRequester and count the query.
Register(t, r, count) ==
  [t EXCEPT !.requesters[r] = IF @ = <<>> THEN [active |-> IF count = "active" THEN 1 ELSE 0,
                                                pending |-> IF count = "pending" THEN 1 ELSE 0]
                              ELSE [@ EXCEPT ![count] = @ + 1]]

\* activate_and_resolve_query(): the first free slot; dns_resolver()->resolve().
Activate(t, query) ==
  IF t.active_count >= MaxRequests \/ query.callbacks = <<>> THEN [t EXCEPT !.thrown = TRUE]
  ELSE LET i == Min({x \in Slots : t.active[x].family = "none"})
       IN [t EXCEPT !.active[i] = query, !.active_count = @ + 1, !.asked = @ \cup {i}]

\* DnsBuffer::resolve(): join a query for the same name or make a new one.
\* What the callback adds to the answer (the address of the other family the
\* cache had) is its "known" field.
Same(query, h, f) == query.family = f /\ query.family # "none" /\ query.host = h
BufferResolve(t, r, h, f, known) ==
  LET cb == [requester |-> r, known |-> known]
      act == {i \in Slots : Same(t.active[i], h, f)}
      pend == {i \in DOMAIN t.pending : Same(t.pending[i], h, f)}
  IN IF t.active_count # 0 /\ act # {}
     THEN [Register(t, r, "active") EXCEPT !.active[Min(act)].callbacks = Append(@, cb)]
     ELSE IF t.active_count # 0 /\ pend # {}
     THEN [Register(t, r, "pending") EXCEPT !.pending[Min(pend)].callbacks = Append(@, cb)]
     ELSE IF t.active_count < MaxRequests
     THEN Activate(Register(t, r, "active"), [family |-> f, host |-> h, callbacks |-> <<cb>>])
     ELSE [Register(t, r, "pending") EXCEPT
             !.pending = Append(@, [family |-> f, host |-> h, callbacks |-> <<cb>>])]

\* cancel_safe(): the requester goes, its weak pointers expire.
ExpireIn(query, r) ==
  IF query.family = "none" THEN query
  ELSE [query EXCEPT !.callbacks = [i \in DOMAIN @ |->
          IF @[i].requester = r THEN [@[i] EXCEPT !.requester = Expired] ELSE @[i]]]

CancelSafe(t, r) ==
  [t EXCEPT !.requesters[r] = <<>>,
            !.active = [i \in Slots |-> ExpireIn(@[i], r)],
            !.pending = [i \in DOMAIN @ |-> ExpireIn(@[i], r)]]

\* activate_pending_query(): the first pending query someone still waits for.
MovePending(t, cb) ==
  IF t.requesters[cb.requester].pending = 0 THEN [t EXCEPT !.thrown = TRUE]
  ELSE [t EXCEPT !.requesters[cb.requester].pending = @ - 1, !.requesters[cb.requester].active = @ + 1]

LiveCallbacks(query) == SelectSeq(query.callbacks, LAMBDA cb : cb.requester # Expired)

ActivateFrom(t, i) ==
  LET query == [t.pending[i] EXCEPT !.callbacks = LiveCallbacks(t.pending[i])]
  IN Activate(FoldLeft(MovePending, [t EXCEPT !.pending = SubSeq(@, i + 1, Len(@))], query.callbacks), query)

ActivateFirst(t) ==
  IF t.pending # <<>> /\ LiveCallbacks(t.pending[1]) # <<>> THEN ActivateFrom(t, 1)
  ELSE [t EXCEPT !.pending = IF @ = <<>> THEN @ ELSE Tail(@)]
ActivatePending(t) ==
  LET live == {i \in DOMAIN t.pending : LiveCallbacks(t.pending[i]) # <<>>}
  IN IF live = {} THEN [t EXCEPT !.pending = <<>>] ELSE ActivateFrom(t, Min(live))

\* The caller's callback goes to the caller's thread, with its id.
PostAnswer(t, r, answer) == [t EXCEPT !.inbox[r] = Append(@, answer)]

\* What a callback of the cache adds to the answer.
Fill(answer, known) ==
  [f \in {"sin", "sin6"} |-> IF known = f THEN "addr" ELSE answer[f]]

\* process_callback()
ProcessCallback(t, cb, answer) ==
  IF cb.requester = Expired THEN t
  ELSE IF t.requesters[cb.requester].active = 0 THEN [t EXCEPT !.thrown = TRUE]
  ELSE LET u == [t EXCEPT !.requesters[cb.requester].active = @ - 1]
       IN IF cb.requester = Cache THEN u
          ELSE PostAnswer(u, cb.requester, Fill(answer, cb.known))

-----------------------------------------------------------------------------
(* DnsCache                                                                *)

\* reset_sin_updated(), reset_sin_failed() and their IPv6 twins: the entry goes
\* to the end of the staleness list of its family.
ResetInfo(t, h, f, info) ==
  [t EXCEPT !.entries[h][f] = [info EXCEPT !.updating = FALSE, !.age = 0],
            !.present = @ \cup {h},
            !.stale[f] = Append(SelectSeq(@, LAMBDA x : x # h), h)]

\* process_success() and process_failure(): a failed update keeps the address
\* that was there, EAI_NONAME removes it.
ProcessSuccess(t, h, f) ==
  ResetInfo(t, h, f, [t.entries[h][f] EXCEPT !.addr = TRUE, !.no_record = FALSE])

ProcessFailure(t, h, f, error) ==
  ResetInfo(t, h, f, IF error = "NONAME" THEN [t.entries[h][f] EXCEPT !.addr = FALSE, !.no_record = TRUE]
                     ELSE t.entries[h][f])

Learn(t, h, f, a) ==
  CASE a = "addr" -> ProcessSuccess(t, h, f)
    [] a = "0" -> t
    [] OTHER -> ProcessFailure(t, h, f, a)

\* cull_stale_entries(): the stale front of one list, with the entry and its
\* place in the other list.
Old(t, f) == SelectSeq(t.stale[f], LAMBDA h : t.entries[h][f].age >= CullAge)

CullOneFamily(t, f) ==
  LET old == ToSet(Old(t, f))
  IN [t EXCEPT !.entries = [h \in Hosts |-> IF h \in old THEN [x \in Inets |-> NewInfo] ELSE @[h]],
               !.present = @ \ old,
               !.stale[f] = SelectSeq(@, LAMBDA h : h \notin old)]
CullFamily(t, f) ==
  LET old == ToSet(Old(t, f))
  IN [t EXCEPT !.entries = [h \in Hosts |-> IF h \in old THEN [x \in Inets |-> NewInfo] ELSE @[h]],
               !.present = @ \ old,
               !.stale = [x \in Inets |-> SelectSeq(@[x], LAMBDA h : h \notin old)]]

CullStaleEntries(t) == CullFamily(CullFamily(t, "inet"), "inet6")

\* update_stale_info(): a background query, with the cache as requester.
UpdateStaleInfo(t, h, f) ==
  [BufferResolve(t, Cache, h, f, "none") EXCEPT !.entries[h][f].updating = TRUE]

QueueResolve(t, r, h, f, known) ==
  [BufferResolve(t, r, h, f, known) EXCEPT !.entries[h][f].updating = TRUE]

\* The status of one family, and the background update it may start.
Status(info) ==
  CASE info.addr -> "VALID"
    [] info.age = Never -> "EMPTY"
    [] info.updating -> "AGAIN"
    [] info.no_record -> "NONAME"
    [] OTHER -> "AGAIN"

Outdated(info) ==
  CASE info.addr -> info.age > StaleAge
    [] info.age = Never \/ info.updating -> FALSE
    [] info.no_record -> info.age > NoRecordAge
    [] OTHER -> info.age > RetryAge

Refresh(t, h, f) == IF Outdated(t.entries[h][f]) THEN UpdateStaleInfo(t, h, f) ELSE t

Cached(status) == IF status = "VALID" THEN "addr" ELSE status

\* resolve() for one family.
ResolveFamily(t, r, h, f, status) ==
  IF status = "EMPTY" THEN QueueResolve(t, r, h, f, "none")
  ELSE PostAnswer(t, r, FamilyAnswer(f, Cached(status)))

\* resolve() for AF_UNSPEC: the missing family is asked for; an address of the
\* other one goes into the answer, an error of the other one does not.
ResolveUnspec(t, r, h, sin, sin6) ==
  CASE sin = "VALID" /\ sin6 = "EMPTY" -> QueueResolve(t, r, h, "inet6", "sin")
    [] sin6 = "VALID" /\ sin = "EMPTY" -> QueueResolve(t, r, h, "inet", "sin6")
    [] sin = "EMPTY" /\ sin6 = "EMPTY" -> [t EXCEPT !.thrown = TRUE]
    [] sin = "EMPTY" -> QueueResolve(t, r, h, "inet", "none")
    [] sin6 = "EMPTY" -> QueueResolve(t, r, h, "inet6", "none")
    [] OTHER -> PostAnswer(t, r, Answer(Cached(sin), Cached(sin6)))

CacheLookup(t, r, h, f) ==
  CASE h \notin t.present -> BufferResolve(t, r, h, f, "none")
    [] f \in Inets -> ResolveFamily(Refresh(t, h, f), r, h, f, Status(t.entries[h][f]))
    [] OTHER -> ResolveUnspec(Refresh(Refresh(t, h, "inet"), h, "inet6"), r, h,
                              Status(t.entries[h]["inet"]), Status(t.entries[h]["inet6"]))

CacheResolve(t, r, h, f) == CacheLookup(CullStaleEntries(t), r, h, f)

-----------------------------------------------------------------------------
(* Actions of the net thread.                                              *)

\* The callback Resolver::resolve_*() posted to the net thread.
NetResolve ==
  /\ s.netq # <<>>
  /\ LET c == Head(s.netq)
     IN s' = CacheResolve([s EXCEPT !.netq = Tail(@)], c.id, c.host, c.family)

\* DnsBuffer::process(): free the slot, teach the cache, answer, start the next.
ProcessAnswer(t, i, answer) ==
  LET query == t.active[i]
      u == [t EXCEPT !.active[i] = NoQuery, !.active_count = @ - 1, !.asked = @ \ {i}]
  IN ActivatePending(FoldLeft(LAMBDA x, cb : ProcessCallback(x, cb, answer),
                              Learn(Learn(u, query.host, "inet", answer.sin), query.host, "inet6", answer.sin6),
                              query.callbacks))

Outcomes == {"addr", "NONAME", "AGAIN"}
Answers(f) ==
  CASE f = "inet" -> {Answer(a, "0") : a \in Outcomes}
    [] f = "inet6" -> {Answer("0", a) : a \in Outcomes}
    [] OTHER -> {Answer(a, b) : a \in Outcomes, b \in Outcomes}

Process == \E i \in s.asked : \E answer \in Answers(s.active[i].family) :
  s' = ProcessAnswer(s, i, answer)

-----------------------------------------------------------------------------
(* Actions of the callers' threads.                                        *)

\* resolve_both(), resolve_preferred(), resolve_specific() for a host name.
Resolve == \E r \in Requesters, h \in Hosts, f \in Families :
  /\ s.caller[r] = "idle" /\ s.asks < MaxAsks
  /\ s' = [s EXCEPT !.caller[r] = "waiting", !.wanted[r] = f, !.asks = @ + 1,
                    !.netq = Append(@, [id |-> r, host |-> h, family |-> f])]

\* ... and for a numeric address, which the caller's thread answers itself.
ResolveNumeric == \E r \in Requesters, f \in Families :
  /\ s.caller[r] = "idle" /\ s.asks < MaxAsks
  /\ s' = PostAnswer([s EXCEPT !.caller[r] = "waiting", !.wanted[r] = f, !.asks = @ + 1], r,
                     CASE f = "inet6" -> Answer("0", "addr") [] f = "inet" -> Answer("addr", "0")
                       [] OTHER -> Answer("addr", "NONAME"))

\* The one address, or error, resolve_preferred() and resolve_specific() pass on.
Preferred(answer, f, other) ==
  CASE answer[f] = "addr" \/ answer[other] = "addr" -> "addr"
    [] answer[f] # "0" -> answer[f]
    [] OTHER -> answer[other]
Specific(answer, f) == answer[f]

\* The caller's callback runs in its thread.
Deliver == \E r \in Requesters :
  /\ s.inbox[r] # <<>> /\ s.caller[r] \in {"idle", "waiting"}
  /\ s' = [s EXCEPT !.inbox[r] = Tail(@), !.caller[r] = "idle", !.wanted[r] = "none",
                    !.stray = @ \/ s.caller[r] # "waiting"]

\* Resolver::cancel(), in three steps between which the net thread runs.
DropCallbacks(t, r) ==
  [t EXCEPT !.inbox[r] = <<>>, !.netq = SelectSeq(@, LAMBDA c : c.id # r)]

CancelCallbacks == \E r \in Requesters :
  /\ s.caller[r] = "waiting"
  /\ s' = DropCallbacks([s EXCEPT !.caller[r] = "dropped"], r)

CancelBuffer == \E r \in Requesters :
  /\ s.caller[r] = "dropped"
  /\ s' = CancelSafe([s EXCEPT !.caller[r] = "canceled"], r)

CancelAgainNot(t, r) == [t EXCEPT !.caller[r] = "idle", !.wanted[r] = "none"]
CancelAgainStep(t, r) == DropCallbacks([t EXCEPT !.caller[r] = "idle", !.wanted[r] = "none"], r)

CancelAgain == \E r \in Requesters :
  /\ s.caller[r] = "canceled"
  /\ s' = CancelAgainStep(s, r)

\* Time passes.
Older(info) == IF info.age \in 0..(CullAge - 1) THEN [info EXCEPT !.age = @ + 1] ELSE info
TimePasses ==
  s' = [s EXCEPT !.entries = [h \in Hosts |-> [f \in Inets |-> Older(@[h][f])]]]

\* The cache may already know something of a host: an address, no record, or
\* only that the last try failed, of any age.
Known == {[NewInfo EXCEPT !.addr = a, !.no_record = n, !.age = g] :
             a \in BOOLEAN, n \in BOOLEAN, g \in 0..CullAge}
Seeds == {i \in Known : ~(i.addr /\ i.no_record)} \cup {NewInfo}

InitWith(seed) == [netq |-> <<>>, inbox |-> [r \in Requesters |-> <<>>],
             caller |-> [r \in Requesters |-> "idle"], wanted |-> [r \in Requesters |-> "none"],
             requesters |-> [r \in Requesters \cup {Cache} |-> <<>>],
             active |-> [i \in Slots |-> NoQuery], active_count |-> 0, asked |-> {}, pending |-> <<>>,
             entries |-> [h \in Hosts |-> seed],
             present |-> IF \A f \in Inets : seed[f].age = Never THEN {} ELSE Hosts,
             stale |-> [f \in Inets |-> IF seed[f].age = Never THEN <<>> ELSE SetToSeq(Hosts)],
             asks |-> 0, stray |-> FALSE, thrown |-> FALSE]

Init == \E seed \in [Inets -> Seeds] : s = InitWith(seed)

Next == \/ NetResolve \/ Process
        \/ Resolve \/ ResolveNumeric \/ Deliver \/ CancelCallbacks \/ CancelBuffer \/ CancelAgain
        \/ TimePasses

Spec == Init /\ [][Next]_s

-----------------------------------------------------------------------------
(* Properties.                                                             *)

Live(query, r) == \E j \in DOMAIN query.callbacks : query.callbacks[j].requester = r
Held(r) ==
  \/ \E i \in s.asked : Live(s.active[i], r)
  \/ \E i \in DOMAIN s.pending : Live(s.pending[i], r)

\* No internal_error is thrown in the buffer or the cache, whatever is in the
\* cache when a name is asked for and whoever cancels meanwhile.
NothingThrown == ~s.thrown

\* Resolver::cancel() is final: once it has returned, no callback for the
\* caller is queued anywhere or held by a query, and none ever runs.
CancelIsFinal ==
  /\ ~s.stray
  /\ \A r \in Requesters : s.caller[r] = "idle" =>
       s.inbox[r] = <<>> /\ ~Held(r) /\ \A i \in DOMAIN s.netq : s.netq[i].id # r

\* A caller that waits is never forgotten: its request is in exactly one of the
\* net thread's queue, a query of the buffer, or the answers posted to it.
WaitsOnce ==
  \A r \in Requesters : s.caller[r] = "waiting" =>
    LET net == Cardinality({i \in DOMAIN s.netq : s.netq[i].id = r})
    IN net + Len(s.inbox[r]) + (IF Held(r) THEN 1 ELSE 0) = 1

\* No query waits in m_pending_queries while a slot is free.
PendingOnlyWhenFull ==
  /\ s.active_count = Cardinality({i \in Slots : s.active[i].family # "none"})
  /\ s.pending # <<>> => s.active_count = MaxRequests

\* An entry that answers EAI_AGAIN because it is being updated really is: some
\* query for it is active, or pending with the cache itself waiting for it.
UpdatingIsUnderWay ==
  \A h \in Hosts, f \in Inets :
    LET info == s.entries[h][f]
    IN info.updating /\ info.age # Never =>
         \/ \E i \in s.asked : s.active[i].host = h /\ s.active[i].family \in {f, "unspec"}
         \/ \E i \in DOMAIN s.pending : s.pending[i].host = h /\ Live(s.pending[i], Cache)

\* The staleness lists hold exactly the entries that have been tried, once and
\* in order of age: the iterators kept in the entries are never dangling.
StalenessMatches ==
  \A f \in Inets :
    /\ IsInjective(s.stale[f])
    /\ ToSet(s.stale[f]) = {h \in s.present : s.entries[h][f].age # Never}
    /\ \A i, j \in DOMAIN s.stale[f] : i < j => s.entries[s.stale[f][i]][f].age >= s.entries[s.stale[f][j]][f].age

\* An answer tells the caller something for the family asked: an address or an
\* error, for one of the two families when both were asked.
AnswerTells ==
  \A r \in Requesters : \A i \in DOMAIN s.inbox[r] :
    LET a == s.inbox[r][i]
    IN CASE s.wanted[r] = "inet" -> Specific(a, "sin") # "0"
         [] s.wanted[r] = "inet6" -> Specific(a, "sin6") # "0"
         [] OTHER -> Preferred(a, "sin", "sin6") # "0" /\ Preferred(a, "sin6", "sin") # "0"
=============================================================================
