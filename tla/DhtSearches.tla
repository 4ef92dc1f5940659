---------------------------- MODULE DhtSearches ----------------------------
(***************************************************************************)
(* A search of the DHT and its transactions: DhtServer, DhtSearch,         *)
(* DhtAnnounce, DhtTransaction and DhtTransactionPacket, with the          *)
(* TrackerDht an announce reports to.  A search sends find_node to the     *)
(* closest nodes it knows, three at a time, and learns closer ones from    *)
(* the replies; an announce then sends get_peers to the closest nodes that *)
(* replied, and announce_peer to those that hand it a token.               *)
(*                                                                         *)
(* Nodes are numbered by their closeness to the target and have an address *)
(* each, so that a transaction is named by its node and its type; that the *)
(* random byte of the key is in use already is left out.  A transaction    *)
(* and its unsent packet own each other: one that is taken out of          *)
(* m_transactions before its packet is sent is never destroyed (`lost`).   *)
(* Likewise a search owns itself through each of its contacts.  Searches   *)
(* are looked at one at a time.  Which nodes are reported to the routing   *)
(* table as good or unresponsive is left to DhtTable, where either may     *)
(* happen at any time.                                                     *)
(***************************************************************************)
EXTENDS Integers, FiniteSets, SequencesExt, TLC

CONSTANTS
  Nodes,        \* 1..n, by closeness to the target
  NumGood,      \* DhtBucket::num_nodes
  MaxContacts,  \* DhtSearch::max_contacts
  MaxAnnounce,  \* DhtSearch::max_announce
  Concurrency,  \* the initial m_concurrency
  MaxReplies,   \* DhtServer::max_reply_packets
  Kinds         \* which searches are made: "find", "announce"

VARIABLE s

End == 0
Types == <<"find", "get", "peer", "ping">>
Keys == Nodes \X ToSet(Types)
NoTx == [here |-> FALSE]
IsSearch(k) == k[2] \in {"find", "get"}

-----------------------------------------------------------------------------
(* DhtSearch.  mark: whether the node is a contact and what is known of it; *)
(* act: whether it is being contacted (m_last_seen).                        *)

NewSearch(kind) ==
  [kind |-> kind, mark |-> [n \in Nodes |-> "out"], act |-> {}, pending |-> 0,
   contacted |-> 0, replied |-> 0, conc |-> Concurrency, restart |-> FALSE,
   started |-> FALSE, next |-> End, listed |-> FALSE, announcing |-> FALSE,
   gone |-> FALSE, tried |-> {}]

Contacts(r) == {n \in Nodes : r.mark[n] # "out"}
Complete(r) == r.started /\ r.pending = 0
Uncontacted(r, n) == r.mark[n] = "new" /\ n \notin r.act
FirstOf(ns) == IF ns = {} THEN End ELSE CHOOSE n \in ns : \A m \in ns : n <= m

AddContact(r, n) ==
  IF r.mark[n] # "out" THEN r ELSE [r EXCEPT !.mark[n] = "new", !.restart = TRUE]

\* add_contacts: `known` are the nodes of the table in the order of the chain
\* of buckets, `bad` the bad ones.  The accumulator is <<search, closest, good>>.
AddContactsStep(acc, n, isBad) ==
  IF (acc[2] <= 0 /\ acc[3] <= 0) \/ (isBad /\ acc[2] <= 0) THEN acc
  ELSE <<AddContact(acc[1], n), acc[2] - 1, IF isBad THEN acc[3] ELSE acc[3] - 1>>
AddContacts(r, known, bad) ==
  FoldLeft(LAMBDA acc, n : AddContactsStep(acc, n, n \in bad),
           <<r, MaxContacts, NumGood>>, known)[1]

\* trim: the accumulator is <<search, closest, good>>; nodes in order of closeness.
TrimStepKeepsBad(acc, n) ==
  LET r == acc[1] IN
  IF r.mark[n] = "out" THEN acc
  ELSE IF n \notin r.act /\ acc[2] <= 0 /\ acc[3] <= 0
  THEN <<[r EXCEPT !.mark[n] = "out"], acc[2], acc[3]>>
  ELSE <<[r EXCEPT !.next = IF @ = End /\ Uncontacted(r, n) THEN n ELSE @],
         acc[2] - 1, acc[3] - 1>>
TrimStep(acc, n) ==
  LET r == acc[1]
      good == r.mark[n] = "good"
  IN IF r.mark[n] = "out" THEN acc
     ELSE IF n \notin r.act /\ acc[2] <= 0 /\ (~good \/ acc[3] <= 0)
     THEN <<[r EXCEPT !.mark[n] = "out"], acc[2], acc[3]>>
     ELSE <<[r EXCEPT !.next = IF @ = End /\ Uncontacted(r, n) THEN n ELSE @],
            acc[2] - 1, IF good THEN acc[3] - 1 ELSE acc[3]>>
Trim(r, isFinal) ==
  [FoldLeft(TrimStep, <<[r EXCEPT !.next = End],
                        IF isFinal THEN 0 ELSE MaxContacts,
                        IF r.kind = "announce" THEN MaxAnnounce ELSE 0>>,
            SetToSortSeq(Nodes, LAMBDA x, y : x < y))[1]
     EXCEPT !.restart = FALSE]

\* get_contact: <<search, node>>
Contacting(r, n) ==
  IF n = End THEN <<r, End>>
  ELSE <<[r EXCEPT !.act = @ \cup {n}, !.pending = @ + 1, !.contacted = @ + 1,
                   !.tried = @ \cup {n},
                   !.next = FirstOf({m \in Nodes : m > n /\ Uncontacted(r, m)})], n>>
Ready(r) == IF r.restart THEN Trim(r, FALSE) ELSE r
GetContact(r) ==
  IF r.pending >= r.conc THEN <<r, End>> ELSE Contacting(Ready(r), Ready(r).next)

NodeStatusKeepsPending(r, n, ok) ==
  [r EXCEPT !.mark[n] = IF ok THEN "good" ELSE "bad", !.act = @ \ {n},
            !.replied = IF ok THEN @ + 1 ELSE @,
            !.pending = IF ok THEN @ - 1 ELSE @]
NodeStatus(r, n, ok) ==
  [r EXCEPT !.mark[n] = IF ok THEN "good" ELSE "bad", !.act = @ \ {n},
            !.replied = IF ok THEN @ + 1 ELSE @, !.pending = @ - 1]

-----------------------------------------------------------------------------
(* TrackerDht.  Events reach it through callbacks of the tracker thread.   *)

Tell(t, e) ==
  IF t.r.kind # "announce" \/ e \in ToSet(t.events) THEN t
  ELSE [t EXCEPT !.events = Append(@, e)]

Outcome(t) == IF t.r.contacted = 0 \/ t.r.replied = 0 THEN "failed" ELSE "success"

\* The last reference to a search is gone: its contacts are no more, and no
\* transaction and no m_searches holds it.
CheckDestroyed(t) ==
  IF \/ t.r.gone \/ t.r.listed \/ Contacts(t.r) # {}
     \/ \E k \in Keys : IsSearch(k) /\ (t.tx[k].here \/ k \in t.lost)
  THEN t
  ELSE Tell([t EXCEPT !.r.gone = TRUE], Outcome(t))

-----------------------------------------------------------------------------
(* DhtTransaction *)

NewTx(k) == [here |-> TRUE, quick |-> k[2] = "find", pkt |-> TRUE, done |-> FALSE]

CompleteTx(t, k, ok) ==
  IF t.tx[k].done THEN [t EXCEPT !.thrown = TRUE]
  ELSE [t EXCEPT !.tx[k].done = TRUE,
                 !.r = NodeStatus([@ EXCEPT !.conc = IF t.tx[k].quick THEN @ ELSE @ - 1],
                                  k[1], ok)]

SetStalledKeepsConc(t, k) == [t EXCEPT !.tx[k].quick = FALSE]
SetStalled(t, k) == [t EXCEPT !.tx[k].quick = FALSE, !.r.conc = @ + 1]

\* ~DhtTransactionSearch
CheckSearchCompleted(t) == IF Complete(t.r) THEN [t EXCEPT !.r.listed = FALSE] ELSE t
Destroyed(t, k) ==
  LET u == IF ~IsSearch(k) THEN t
           ELSE CheckSearchCompleted(IF t.tx[k].done THEN t ELSE CompleteTx(t, k, FALSE))
  IN CheckDestroyed([u EXCEPT !.tx[k] = NoTx])

DropPacket(t, k) ==
  LET q == SelectSeq(t.high, LAMBDA j : j # k)
  IN [t EXCEPT !.high = q, !.wr = IF q = <<>> /\ t.low = 0 THEN FALSE ELSE @]

\* drop_packet() and m_transactions.erase()
Erase(t, k) ==
  IF ~t.tx[k].pkt THEN Destroyed(DropPacket(t, k), k)
  ELSE [DropPacket(t, k) EXCEPT !.tx[k] = NoTx, !.lost = @ \cup {k},
                                !.undone = IF IsSearch(k) /\ ~t.tx[k].done
                                           THEN @ \cup {<<k[1], k[2], t.tx[k].quick>>} ELSE @]

StartWriteOnlyWrites(t) ==
  [t EXCEPT !.wr = @ \/ t.high # <<>> \/ t.low > 0]
StartWrite(t) ==
  [t EXCEPT !.wr = @ \/ t.high # <<>> \/ t.low > 0,
            !.timer = @ \/ \E k \in Keys : t.tx[k].here]

\* create_query and add_packet: announces are put in front.
AddTransaction(t, k, prio) ==
  StartWrite([t EXCEPT !.tx[k] = NewTx(k),
                       !.r.conc = IF k[2] = "get" THEN @ + 1 ELSE @,
                       !.high = IF prio = "high" THEN <<k>> \o @ ELSE Append(@, k)])

Prio(t) == IF t.r.kind = "announce" THEN "high" ELSE "low"

\* The loop over get_contact(), once per node at most.
ContactStep(t, got) ==
  IF got[2] = End THEN [t EXCEPT !.r = got[1]]
  ELSE AddTransaction([t EXCEPT !.r = got[1]], <<got[2], "find">>, Prio(t))
ContactAll(t) == FoldSet(LAMBDA n, u : ContactStep(u, GetContact(u.r)), t, Nodes)

\* DhtAnnounce::start_announce and the get_peers queries.
StartAnnounce(t) ==
  LET r == Trim(t.r, TRUE)
      ns == Contacts(r)
  IN IF ns = {} THEN [t EXCEPT !.r = r]
     ELSE IF ~Complete(r) \/ r.next # End \/ Cardinality(ns) > NumGood
     THEN [t EXCEPT !.thrown = TRUE]
     ELSE FoldSet(LAMBDA n, u : AddTransaction(u, <<n, "get">>, "high"),
                  Tell([t EXCEPT !.r = [r EXCEPT !.contacted = Cardinality(ns),
                                                 !.pending = Cardinality(ns), !.replied = 0,
                                                 !.announcing = TRUE, !.act = ns]],
                       "announcing"), ns)

FindNodeNext(t) ==
  LET u == ContactAll(t) IN
  IF u.r.kind = "announce" /\ Complete(u.r) THEN StartAnnounce(u) ELSE u

-----------------------------------------------------------------------------
(* DhtServer *)

FailFind(t, k, quick) ==
  FindNodeNext(IF quick THEN SetStalled(t, k) ELSE CompleteTx(t, k, FALSE))

FailedTransaction(t, k, quick) ==
  LET u == IF k[2] = "find" THEN FailFind(t, k, quick) ELSE t
  IN IF quick THEN u ELSE Erase(u, k)

\* Transactions are visited in the order of their addresses.
InOrder == [i \in 1..(Cardinality(Nodes) * 4) |->
              <<((i - 1) \div 4) + 1, Types[((i - 1) % 4) + 1]>>]
TimeoutStep(t, k, late) ==
  IF ~t.tx[k].here \/ k \notin late THEN t ELSE FailedTransaction(t, k, t.tx[k].quick)
ReceiveTimeout(t, late) ==
  StartWrite(FoldLeft(LAMBDA u, k : TimeoutStep(u, k, late), [t EXCEPT !.timer = FALSE],
                      InOrder))

\* One turn of the loop of process_queue() on m_highQueue.
SendFirst(t, k, fails) ==
  LET u == [t EXCEPT !.high = Tail(@)] IN
  IF k \notin fails THEN [u EXCEPT !.tx[k].pkt = FALSE]
  ELSE IF ~u.tx[k].here THEN [u EXCEPT !.thrown = TRUE]
  ELSE FailedTransaction(u, k, FALSE)
ProcessHigh(t, fails) ==
  FoldSet(LAMBDA k, u : IF u.high = <<>> THEN u ELSE SendFirst(u, Head(u.high), fails),
          t, Keys)
EventWrite(t, fails) ==
  IF t.high = <<>> /\ t.low = 0 THEN [t EXCEPT !.thrown = TRUE]
  ELSE LET u == [ProcessHigh(t, fails) EXCEPT !.low = 0]
       IN [u EXCEPT !.wr = IF u.high = <<>> THEN FALSE ELSE @]

\* parse_find_node_reply and parse_get_peers_reply; a token that is too long
\* is an error, after which the transaction is erased all the same.
ParseFindNode(t, k, found) ==
  FindNodeNext([CompleteTx(t, k, TRUE) EXCEPT
                  !.r = FoldSet(LAMBDA n, r : AddContact(r, n), @, found)])
ParseGetPeers(t, k, values, token) ==
  LET u == IF values THEN Tell(CompleteTx(t, k, TRUE), "peers") ELSE CompleteTx(t, k, TRUE)
  IN IF token # "token" THEN u ELSE AddTransaction(u, <<k[1], "peer">>, "low")

ProcessResponse(t, k, found, values, token) ==
  LET u == CASE k[2] = "find" -> ParseFindNode(t, k, found)
             [] k[2] = "get" -> ParseGetPeers(t, k, values, token)
             [] OTHER -> t
  IN StartWrite(Erase(u, k))

ProcessError(t, k) == StartWrite(Erase(t, k))

\* A query of another node: a reply or an error is queued, and a node that
\* the router could use is pinged.
AddReply(t) == [t EXCEPT !.low = IF @ < MaxReplies THEN @ + 1 ELSE @]
Ping(t, n) == IF \E y \in ToSet(Types) : t.tx[<<n, y>>].here THEN t
              ELSE AddTransaction(t, <<n, "ping">>, "low")
ProcessQuery(t, n, wanted) ==
  StartWrite(AddReply(IF wanted THEN Ping(t, n) ELSE t))

\* find_node() and announce()
StartSearch(t, known, bad) ==
  LET u == ContactAll([t EXCEPT !.r = AddContacts(@, known, bad)])
      v == [u EXCEPT !.r.started = TRUE]
  IN IF v.r.pending = 0 THEN CheckDestroyed(v) ELSE [v EXCEPT !.r.listed = TRUE]

OfSearch(t) == {k \in Keys : t.tx[k].here /\ IsSearch(k)}
CancelAnnounce(t) ==
  FoldLeft(LAMBDA u, k : IF k \in OfSearch(t) THEN Erase(u, k) ELSE u, t, InOrder)

\* clear_transactions() drops every packet before the first transaction.
ClearTransactions(t) ==
  FoldLeft(LAMBDA u, k : IF t.tx[k].here THEN Erase(u, k) ELSE u,
           FoldLeft(LAMBDA u, k : IF t.tx[k].here THEN DropPacket(u, k) ELSE u, t, InOrder),
           InOrder)
Stop(t) == [ClearTransactions(t) EXCEPT !.timer = FALSE, !.wr = FALSE,
                                         !.active = FALSE]

-----------------------------------------------------------------------------
(* The tracker's side *)

UpdateRequesting(t) == [t EXCEPT !.tr.delay = @ /\ t.tr.state = "announcing"]
SetState(t, st) == UpdateRequesting([t EXCEPT !.tr.state = st])
TakeEvent(t, e) ==
  CASE e = "announcing" -> [SetState(t, "announcing") EXCEPT !.tr.delay = TRUE]
    [] e = "peers" -> t
    [] OTHER -> [SetState(t, "idle") EXCEPT !.tr.told = e]

-----------------------------------------------------------------------------
Idle(kind) ==
  [r |-> NewSearch(kind), tx |-> [k \in Keys |-> NoTx], lost |-> {}, undone |-> {},
   high |-> <<>>, low |-> 0, wr |-> FALSE, timer |-> FALSE,
   active |-> TRUE, events |-> <<>>,
   tr |-> [state |-> "idle", delay |-> FALSE, told |-> ""], thrown |-> FALSE]

Init == \E kind \in Kinds : s = Idle(kind)

Going == ~s.thrown /\ s.active
\* TrackerDht::send_event() sets the state and asks for the announce.
Begin == \E ns \in SUBSET Nodes, bad \in SUBSET Nodes :
  /\ Going /\ ~s.r.started /\ ~s.r.gone /\ bad \subseteq ns
  /\ s' = StartSearch(IF s.r.kind = "announce" THEN SetState(s, "searching") ELSE s,
                      SetToSortSeq(ns, LAMBDA x, y : x > y), bad)
Write == \E fails \in SUBSET {s.high[i] : i \in DOMAIN s.high} :
  Going /\ s.wr /\ s' = EventWrite(s, fails)
Reply == \E k \in Keys, found \in SUBSET Nodes, values \in BOOLEAN,
            token \in {"none", "token", "long"} :
  /\ Going /\ s.tx[k].here
  /\ k[2] # "find" => found = {}
  /\ k[2] # "get" => ~values /\ token = "none"
  /\ s' = ProcessResponse(s, k, found, values, token)
ErrorReply == \E k \in Keys : Going /\ s.tx[k].here /\ s' = ProcessError(s, k)
\* Bound: queries of others are looked at beside a plain search.
Query == \E n \in Nodes, wanted \in BOOLEAN :
  Going /\ s.r.kind = "find" /\ s' = ProcessQuery(s, n, wanted)
Timeout == \E late \in SUBSET {k \in Keys : s.tx[k].here} :
  Going /\ s.timer /\ s' = ReceiveTimeout(s, late)
Cancel == Going /\ s.r.kind = "announce" /\ s.r.started /\ OfSearch(s) # {} /\ s' = CancelAnnounce(s)
StopServer == Going /\ s' = Stop(s)
TrackerEvent == /\ ~s.thrown /\ s.events # <<>>
                /\ s' = TakeEvent([s EXCEPT !.events = Tail(@)], Head(s.events))
DelayClears == ~s.thrown /\ s.tr.delay /\ s' = SetState(s, "idle")

Next == Begin \/ Write \/ Reply \/ ErrorReply \/ Query \/ Timeout \/ Cancel
        \/ StopServer \/ TrackerEvent \/ DelayClears

Spec == Init /\ [][Next]_s

-----------------------------------------------------------------------------
(* Properties *)

\* No internal_error: no transaction is completed twice, every queued packet
\* has its transaction, an announce begins only when the search is over, and
\* a write event finds something to write.
NothingThrown == ~s.thrown

Open(t) == {k \in OfSearch(t) : ~t.tx[k].done}

\* Whatever replies, errors, stalls, failures and cancellations come in
\* whatever order, m_pending is the number of contacts that are waited for,
\* each of which has its transaction, and at most three of those have not
\* stalled: the search neither stops early nor floods the network.
SearchAccounts ==
  /\ s.r.pending = Cardinality(Open(s)) + Cardinality(s.undone)
  /\ s.r.act = {k[1] : k \in Open(s) \cup s.undone}
  /\ Cardinality({k \in Open(s) : s.tx[k].quick}) <= Concurrency
  /\ s.r.conc = Concurrency + Cardinality({k \in Open(s) : ~s.tx[k].quick})
                + Cardinality({k \in s.undone : ~k[3]})

\* While a search is listed one of its transactions is in the table (or was
\* taken out of it unsent); while there is a transaction the timer is set,
\* and while a packet of one is queued write events are asked for.
NothingForgotten ==
  /\ s.r.listed => OfSearch(s) # {} \/ \E k \in s.lost : IsSearch(k)
  /\ s.active /\ (\E k \in Keys : s.tx[k].here) => s.timer
  /\ s.high # <<>> => s.wr /\ \A i \in DOMAIN s.high : s.tx[s.high[i]].here /\ s.tx[s.high[i]].pkt

\* Peers are asked for at, and announced to, only nodes that have answered
\* this search, and no more of them than max_announce.
AnnouncesToRepliers ==
  /\ \A n \in Nodes : s.tx[<<n, "get">>].here /\ ~s.tx[<<n, "get">>].done => s.r.mark[n] = "good"
  /\ \A n \in Nodes : s.tx[<<n, "peer">>].here => n \in s.r.tried
  /\ Cardinality({n \in Nodes : s.tx[<<n, "get">>].here}) <= MaxAnnounce

\* A search none of whose transactions is left has been destroyed, and its
\* tracker told: dht_search.cc says that it is the destruction of a
\* transaction that triggers the destructor of the search.
DestroyedWithLast == s.r.started /\ OfSearch(s) = {} => s.r.gone
=============================================================================
