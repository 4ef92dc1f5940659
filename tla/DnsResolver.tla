----------------------------- MODULE DnsResolver -----------------------------
(***************************************************************************)
(* The asynchronous resolver of the net thread: the stub resolver library  *)
(* in net/udns/udns_resolver.c (the list of active queries ordered by      *)
(* deadline, servers, tries, search list) and the UdnsResolver of          *)
(* net/udns_resolver.cc that drives it (one UdnsQuery per slot of the DNS  *)
(* buffer, with an A and an AAAA query under it, the poll and the timer).  *)
(*                                                                         *)
(* Times are relative to now: a deadline that has passed is 0.  A query    *)
(* id is unique among the active queries (dns_newid looks for one), so a   *)
(* reply that does not belong to a waiting server of an active query is    *)
(* dropped and is not a step.                                              *)
(***************************************************************************)
EXTENDS Integers, FiniteSets, FiniteSetsExt, Sequences, SequencesExt

CONSTANTS Slots,      \* slots of DnsBuffer, the requesters of the resolver
          NServ,      \* dnsc_nserv
          NTries,     \* dnsc_ntries
          Timeout,    \* dnsc_timeout
          NSearch,    \* elements of the search list
          Families,   \* families asked for
          Names       \* kinds of host names asked for

VARIABLE s

None == -1
Servers == 0..(NServ - 1)
Kinds == {"a4", "a6"}
Keys == Slots \X Kinds

\* What a name server may answer: no answer records, records dns_parse_a takes
\* or refuses, dns_rcode; "refused" is every code (and the TC bit) after which
\* the server is left out.
Replies == {"nodata", "records", "badrecords", "nxdomain", "formerr", "refused"}

NewDnsQuery == [servi |-> 0, wait |-> {}, skip |-> {}, nEDNS0 |-> {}, tries |-> 0,
                srch |-> 0, nodata |-> FALSE, deadline |-> 0]

NewQuery == [state |-> "none", family |-> "unspec", a4 |-> FALSE, a6 |-> FALSE,
             sin |-> FALSE, sin6 |-> FALSE, error_sin |-> "0", error_sin6 |-> "0"]

-----------------------------------------------------------------------------
(* The active list.                                                        *)

QlistRemove(t, k) == [t EXCEPT !.active = SelectSeq(@, LAMBDA x : x # k)]

\* Insert from the tail, behind the last query that is due no later.
QlistInsertHead(t, k) == [t EXCEPT !.active = <<k>> \o @]
QlistInsert(t, k) ==
  LET due == {i \in DOMAIN t.active : t.dq[t.active[i]].deadline <= t.dq[k].deadline}
  IN [t EXCEPT !.active = InsertAt(@, IF due = {} THEN 1 ELSE Max(due) + 1, k)]

-----------------------------------------------------------------------------
(* What UdnsResolver does with a result.                                   *)

GaiError(status) ==
  CASE status = "TEMPFAIL" -> "AGAIN" [] status = "PROTOCOL" -> "FAIL"
    [] status = "NXDOMAIN" -> "NONAME" [] OTHER -> "ADDRFAMILY"

\* process_final_result_unsafe(): the callback posts DnsBuffer::process().
FinalResult(t, r) ==
  LET q == t.query[r]
  IN [t EXCEPT !.query[r].state = "posted",
               !.thrown = @ \/ (q.sin /\ q.error_sin # "0") \/ (q.sin6 /\ q.error_sin6 # "0")]

\* process_partial_result_unsafe(): wait until both families are in.
PartialResultAtOnce(t, r) == FinalResult(t, r)
PartialResult(t, r) ==
  IF t.query[r].a4 \/ t.query[r].a6 THEN t ELSE FinalResult(t, r)

\* a4_callback_wrapper() and a6_callback_wrapper(); find_query_or_fail_unsafe()
\* throws when the query is no longer in the map.  The parser never returns a
\* result without records, so the CNAME and no-record branches cannot run.
A4Callback(t, r, status) ==
  PartialResult(IF status = "OK"
                THEN [t EXCEPT !.query[r].a4 = FALSE, !.query[r].sin = TRUE]
                ELSE [t EXCEPT !.query[r].a4 = FALSE, !.query[r].error_sin = GaiError(status)], r)

A6Callback(t, r, status) ==
  PartialResult(IF status = "OK"
                THEN [t EXCEPT !.query[r].a6 = FALSE, !.query[r].sin6 = TRUE]
                ELSE [t EXCEPT !.query[r].a6 = FALSE, !.query[r].error_sin6 = GaiError(status)], r)

ResultCallback(t, k, status) ==
  IF t.query[k[1]].state # "map" THEN [t EXCEPT !.thrown = TRUE]
  ELSE IF k[2] = "a4" THEN A4Callback(t, k[1], status) ELSE A6Callback(t, k[1], status)

-----------------------------------------------------------------------------
(* The library.                                                            *)

\* dns_end_query()
EndQuery(t, k, status) ==
  ResultCallback([QlistRemove(t, k) EXCEPT !.nactive = @ - 1, !.dq[k] = NewDnsQuery], k, status)

\* dns_find_serv(): the next server that has not failed this query.
FindServ(d) ==
  LET left == {i \in d.servi..(NServ - 1) : i \notin d.skip}
  IN [d EXCEPT !.servi = IF left = {} THEN NServ ELSE Min(left)]

HasServ(d) == FindServ(d).servi < NServ

\* dns_newid(): a new id also forgets what the servers said.
NewId(d) == [d EXCEPT !.tries = 0, !.servi = 0, !.wait = {}, !.skip = {}, !.nEDNS0 = {}]

\* dns_next_srch(): the next search suffix, if there is one.
NextSrch(d) == [NewId(d) EXCEPT !.srch = @ - 1]

\* dns_send_this(): ask one server and move the query to its new place.
SendThis(t, k, i) ==
  IF t.down THEN EndQuery(t, k, "TEMPFAIL")
  ELSE LET d == FindServ([t.dq[k] EXCEPT !.wait = @ \cup {i}])
           w == IF d.servi < NServ THEN 1 ELSE Timeout * 2 ^ d.tries
       IN QlistInsert([QlistRemove(t, k) EXCEPT !.dq[k] = [d EXCEPT !.deadline = w]], k)

SendWith(t, k, d) ==
  SendThis([t EXCEPT !.dq[k] = [d EXCEPT !.servi = @ + 1]], k, d.servi)

\* dns_send(): the next server, the next try, or the end of the query.
SendForever(t, k) ==
  IF HasServ(t.dq[k]) THEN SendWith(t, k, FindServ(t.dq[k]))
  ELSE LET d == FindServ([t.dq[k] EXCEPT !.servi = 0, !.tries = @ + 1])
       IN IF d.tries > NTries \/ d.servi >= NServ THEN EndQuery(t, k, "TEMPFAIL")
          ELSE SendWith(t, k, d)
Send(t, k) ==
  IF HasServ(t.dq[k]) THEN SendWith(t, k, FindServ(t.dq[k]))
  ELSE LET d == FindServ([t.dq[k] EXCEPT !.servi = 0, !.tries = @ + 1])
       IN IF d.tries >= NTries \/ d.servi >= NServ THEN EndQuery(t, k, "TEMPFAIL")
          ELSE SendWith(t, k, d)

\* dns_submit_dn(): at the head of the list, already expired.
SubmitDn(t, k, absolute) ==
  [t EXCEPT !.dq[k] = [NewDnsQuery EXCEPT !.srch = IF absolute THEN 0 ELSE NSearch],
            !.active = <<k>> \o @, !.nactive = @ + 1]

\* dns_timeouts(): (re)send what has expired; what is left to wait.
RECURSIVE DnsTimeouts(_)
DnsTimeouts(t) ==
  IF t.active = <<>> \/ t.dq[Head(t.active)].deadline > 0 THEN t
  ELSE DnsTimeouts(Send(t, Head(t.active)))

\* UdnsResolver::process_timeouts()
ArmTimer(t) ==
  IF t.active = <<>> THEN [t EXCEPT !.reads = FALSE, !.timer = None]
  ELSE [t EXCEPT !.reads = TRUE, !.timer = t.dq[Head(t.active)].deadline]

ProcessTimeouts(t) == ArmTimer(DnsTimeouts(t))

\* dns_ioevent(), from the reply matched to a waiting server on: the server is
\* not waited for any more, then the return code decides.
Definite(t, k, status) ==
  IF t.dq[k].srch > 0
  THEN Send([t EXCEPT !.dq[k] = [NextSrch(@) EXCEPT !.nodata = @ \/ status = "NODATA"]], k)
  ELSE EndQuery(t, k, IF t.dq[k].nodata THEN "NODATA" ELSE status)

\* The server does not count any more for this query.
Refused(t, k, i) ==
  LET u == [t EXCEPT !.dq[k].skip = @ \cup {i}]
  IN IF u.dq[k].wait = {} THEN Send(u, k) ELSE u

ProcessRcode(t, k, i, reply) ==
  CASE reply = "nodata" -> Definite(t, k, "NODATA")
    [] reply = "records" -> EndQuery(t, k, "OK")
    [] reply = "badrecords" -> EndQuery(t, k, "PROTOCOL")
    [] reply = "nxdomain" -> Definite(t, k, "NXDOMAIN")
    [] reply = "formerr" /\ i \notin t.dq[k].nEDNS0 ->
         SendThis([t EXCEPT !.dq[k].nEDNS0 = @ \cup {i}], k, i)
    [] OTHER -> Refused(t, k, i)

IoEvent(t, k, i, reply) ==
  ProcessRcode([t EXCEPT !.dq[k].wait = @ \ {i}], k, i, reply)

-----------------------------------------------------------------------------
(* UdnsResolver::resolve()                                                 *)

NewUdnsQuery(family) == [NewQuery EXCEPT !.family = family]

\* try_resolve_numeric(): the result is there at once.
ResolveNumeric(t, r, family) ==
  FinalResult([t EXCEPT !.query[r] = [NewUdnsQuery(family) EXCEPT !.sin = TRUE]], r)

\* A name dns_ptodn() refuses is kept apart, for flush() to answer.
ResolveMalformed(t, r, family) ==
  ProcessTimeouts([t EXCEPT !.query[r] = [NewUdnsQuery(family) EXCEPT
                               !.state = "malformed", !.error_sin = "NONAME"]])

SubmitA4(t, r, family, name) ==
  IF family = "inet6" THEN t
  ELSE SubmitDn([t EXCEPT !.query[r].a4 = TRUE], <<r, "a4">>, name = "absolute")

SubmitA6(t, r, family, name) ==
  IF family = "inet" THEN t
  ELSE SubmitDn([t EXCEPT !.query[r].a6 = TRUE], <<r, "a6">>, name = "absolute")

Submit(t, r, family, name) ==
  ProcessTimeouts(SubmitA6(SubmitA4(
    [t EXCEPT !.query[r] = [NewUdnsQuery(family) EXCEPT !.state = "map"]],
    r, family, name), r, family, name))

ResolveName(t, r, family, name) ==
  CASE name = "numeric" /\ family # "inet6" -> ResolveNumeric(t, r, family)
    [] name = "malformed" -> ResolveMalformed(t, r, family)
    [] OTHER -> Submit(t, r, family, name)

Resolve == \E r \in Slots, family \in Families, name \in Names :
  /\ ~s.reading /\ s.query[r].state = "none"
  /\ s' = ResolveName(s, r, family, name)

\* event_read(): dns_ioevent() takes every datagram there is, one by one, and
\* then the timeouts are processed.
EventRead == \E k \in Keys, i \in Servers, reply \in Replies :
  /\ s.reads
  /\ \E j \in DOMAIN s.active : s.active[j] = k
  /\ i \in s.dq[k].wait
  /\ s' = IoEvent([s EXCEPT !.reading = TRUE], k, i, reply)

EventReadDone ==
  /\ s.reading
  /\ s' = ProcessTimeouts([s EXCEPT !.reading = FALSE])

\* m_task_timeout runs process_timeouts().
TimeoutFires ==
  /\ ~s.reading /\ s.timer = 0
  /\ s' = ProcessTimeouts([s EXCEPT !.timer = None])

\* flush(), from ThreadNet::call_events()
FlushOne(t, r) ==
  IF t.query[r].state # "malformed" THEN t
  ELSE [t EXCEPT !.query[r].state = "posted",
                 !.thrown = @ \/ (t.query[r].error_sin = "0" /\ t.query[r].error_sin6 = "0")]

Flush ==
  /\ ~s.reading /\ \E r \in Slots : s.query[r].state = "malformed"
  /\ s' = FoldSet(LAMBDA r, t : FlushOne(t, r), s, Slots)

\* What DnsBuffer::process() refuses: a result beside an error, an answer to a
\* question that was not asked, or neither result nor error.
BadAnswer(q) ==
  \/ q.sin /\ q.error_sin # "0"
  \/ q.sin6 /\ q.error_sin6 # "0"
  \/ /\ q.family = "unspec" /\ ~q.sin /\ ~q.sin6
     /\ q.error_sin = "0" \/ q.error_sin6 = "0"
  \/ /\ q.family = "inet"
     /\ (~q.sin /\ q.error_sin = "0") \/ q.sin6 \/ q.error_sin6 # "0"
  \/ /\ q.family = "inet6"
     /\ (~q.sin6 /\ q.error_sin6 = "0") \/ q.sin \/ q.error_sin # "0"

Process == \E r \in Slots :
  /\ ~s.reading /\ s.query[r].state = "posted"
  /\ s' = [s EXCEPT !.query[r] = NewQuery, !.thrown = @ \/ BadAnswer(s.query[r])]

\* A second passes; the timer wakes the thread, which may be late.
Earlier(n) == IF n > 0 THEN n - 1 ELSE n
Tick ==
  /\ ~s.reading /\ s.timer > 0
  /\ s' = [s EXCEPT !.timer = Earlier(@),
                    !.dq = [k \in Keys |-> [@[k] EXCEPT !.deadline = Earlier(@)]]]

\* sendto() starts or stops failing.
NetworkChanges == ~s.reading /\ s' = [s EXCEPT !.down = ~@]

Init == s = [active |-> <<>>, nactive |-> 0, dq |-> [k \in Keys |-> NewDnsQuery],
             query |-> [r \in Slots |-> NewQuery],
             timer |-> None, reads |-> FALSE, reading |-> FALSE, down |-> FALSE, thrown |-> FALSE]

Next == \/ Resolve \/ EventRead \/ EventReadDone \/ TimeoutFires \/ Flush \/ Process
        \/ Tick \/ NetworkChanges

Spec == Init /\ [][Next]_s

-----------------------------------------------------------------------------
(* Properties.                                                             *)

\* No internal_error is thrown: the callback of a query only runs while the
\* query is in m_queries_unsafe, and DnsBuffer::process() gets for each family
\* that was asked, and only for those, a result or an error.
NothingThrown == ~s.thrown

\* Between events every active query is either waited for by the timer, no
\* later than its own deadline, or expired with the timer due; and the socket
\* is polled exactly while there are active queries.  So a lost reply never
\* leaves a query unattended.
NothingForgotten ==
  /\ s.nactive = Len(s.active)
  /\ ~s.reading =>
       /\ s.reads = (s.active # <<>>)
       /\ \A i \in DOMAIN s.active :
            s.timer # None /\ s.timer <= s.dq[s.active[i]].deadline

\* A slot that waits for its answer has exactly the queries in the active list
\* that it counts as outstanding, at least one of them, and no query runs for
\* a slot that does not wait: an answer comes exactly once.
OutstandingMatches ==
  \A r \in Slots, f \in Kinds :
     /\ s.query[r][f] = (<<r, f>> \in ToSet(s.active))
     /\ s.query[r].state = "map" => s.query[r].a4 \/ s.query[r].a6
     /\ s.query[r][f] => s.query[r].state = "map"

\* A query gives up after its tries: it never waits for more than the timeout
\* of the last try, and every server left out stays out.
GivesUp ==
  \A i \in DOMAIN s.active :
     LET d == s.dq[s.active[i]]
     IN /\ d.tries < NTries /\ d.deadline <= Timeout * 2 ^ (NTries - 1)
        /\ d.wait \cap d.skip = {} /\ d.wait \cup d.skip # {}
=============================================================================
