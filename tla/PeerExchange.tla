----------------------------- MODULE PeerExchange -----------------------------
(***************************************************************************)
(* Peer exchange (the ut_pex extension) of one download: the switches in   *)
(* DownloadInfo, DownloadMain::do_peer_exchange(), ProtocolExtension's     *)
(* flags of every connection, and the messages the connections send.       *)
(* A connection also uploads, since both go through fill_write_buffer().   *)
(***************************************************************************)
EXTENDS Integers, Sequences, FiniteSets, FiniteSetsExt

CONSTANTS
  Peers,        \* peers, ordered as in the connection list
  Listening,    \* peers whose listen port is known (IPv4)
  MinSizes,     \* values of ConnectionList::min_size()
  MaxPex,       \* DownloadInfo::max_size_pex()
  MaxList,      \* DownloadInfo::max_size_pex_list()
  MaxEvents,    \* bound: exchanges, switches and remote toggles
  Uploading     \* TRUE: connections upload, so that a lost turn shows

VARIABLE s

NoMessage == [kind |-> "none", added |-> {}, removed |-> {}]
PexMessage(added, removed) ==
  IF added = {} /\ removed = {} THEN NoMessage
  ELSE [kind |-> "pex", added |-> added, removed |-> removed]

\* ProtocolExtension and the write side of a connection.
NoConnection ==
  [on |-> "no", supported |-> FALSE, id |-> 0, local |-> FALSE, first |-> FALSE,
   fresh |-> TRUE,       \* flag_initial_handshake
   mask |-> {}, told |-> FALSE, out |-> "none", up |-> "idle", poll |-> FALSE,
   uploads |-> 0]

Init ==
  \E min \in MinSizes : s = [min |-> min, c |-> [p \in Peers |-> NoConnection], enabled |-> TRUE, active |-> TRUE, size |-> 0,
       list |-> {}, initial |-> NoMessage, delta |-> NoMessage, seen |-> {},
       events |-> 0, thrown |-> FALSE]

Connected(t) == {p \in Peers : t.c[p].on = "conn"}
Event(t) == [t EXCEPT !.events = @ + 1]

\* set_local_enabled() and unset_local_enabled().
SetLocal(t, p) ==
  [t EXCEPT !.c[p].local = TRUE, !.size = IF t.c[p].local THEN @ ELSE @ + 1]
UnsetLocalAlways(t, p) ==
  [t EXCEPT !.c[p].local = FALSE, !.size = @ - 1]
UnsetLocal(t, p) ==
  [t EXCEPT !.c[p].local = FALSE, !.size = IF t.c[p].local THEN @ - 1 ELSE @]

\* parse_handshake(): v is the ut_pex id the message gives, -1 for none.
ParseHandshake(t, p, v) ==
  LET r == [t EXCEPT !.c[p].supported = @ \/ v >= 0,
                     !.c[p].first = @ \/ (v > 0 /\ v # t.c[p].id),
                     !.c[p].id = IF v >= 0 THEN v ELSE @]
      u == IF r.c[p].fresh /\ ~r.c[p].supported THEN UnsetLocal(r, p) ELSE r
  IN  [u EXCEPT !.c[p].fresh = FALSE]

SetPeerExchangeSilent(t, p, v) ==
  IF ~t.c[p].supported THEN t
  ELSE IF v THEN SetLocal([t EXCEPT !.c[p].mask = @ \ {"disable"}], p)
  ELSE UnsetLocal([t EXCEPT !.c[p].mask = (@ \ {"enable"}) \cup {"disable"}], p)

\* PeerConnectionBase::set_peer_exchange().
SetPeerExchange(t, p, v) ==
  IF ~t.c[p].supported THEN t
  ELSE IF v THEN SetLocal([t EXCEPT !.c[p].mask = (@ \ {"disable"}) \cup {"enable"}], p)
  ELSE UnsetLocal([t EXCEPT !.c[p].mask = (@ \ {"enable"}) \cup {"disable"}], p)

-----------------------------------------------------------------------------
(* Handshake and connection.                                               *)

\* Handshake::write_extension_handshake().
WriteExtensionHandshake(p) ==
  /\ s.c[p].on = "no"
  /\ LET t == [s EXCEPT !.c[p] = [NoConnection EXCEPT !.on = "shake"]]
         u == IF s.enabled /\ s.active /\ s.size < MaxPex THEN SetLocal(t, p) ELSE t
     IN  s' = [u EXCEPT !.c[p].told = u.c[p].local]

\* Handshake::read_extension(), then the connection takes over.
ReadExtension(p, v) ==
  /\ s.c[p].on = "shake"
  /\ s' = [ParseHandshake(s, p, v) EXCEPT !.c[p].on = "conn", !.c[p].poll = TRUE]

\* The remote end switches its side on or off later.
RemoteToggles(p, v) ==
  /\ s.c[p].on = "conn" /\ s.events < MaxEvents /\ s.c[p].id # v
  /\ s' = Event(ParseHandshake(s, p, v))

\* ~Handshake() and PeerConnectionBase::cleanup() call extensions()->cleanup().
Disconnect(p) ==
  /\ s.c[p].on # "no"
  /\ LET t == IF s.c[p].local THEN UnsetLocal(s, p) ELSE s
     IN  s' = [t EXCEPT !.c[p] = NoConnection]

-----------------------------------------------------------------------------
(* DownloadMain::do_peer_exchange().                                       *)

\* The toggle of this round: "enable", "disable" or "none", and the new flag.
Toggle(t, few) ==
  IF ~t.active /\ 2 * Cardinality(Connected(t)) < t.min /\ few
  THEN [active |-> TRUE, toggle |-> IF t.size < MaxPex THEN "enable" ELSE "none"]
  ELSE IF t.active /\ Cardinality(Connected(t)) >= t.min
  THEN [active |-> FALSE, toggle |-> "disable"]
  ELSE [active |-> t.active, toggle |-> "none"]

\* One connection of the loop; a is [t, toggle].
ExchangeUnchecked(a, p) ==
  IF ~a.t.c[p].supported THEN a
  ELSE IF a.toggle = "enable"
  THEN [a EXCEPT !.t = [SetPeerExchange(@, p, TRUE) EXCEPT !.c[p].mask = @ \cup {"do"}]]
  ELSE IF ~a.t.c[p].local THEN a
  ELSE IF a.toggle = "disable" THEN [a EXCEPT !.t = SetPeerExchange(@, p, FALSE)]
  ELSE [a EXCEPT !.t.c[p].mask = @ \cup {"do"}]

ExchangeOne(a, p) ==
  IF ~a.t.c[p].supported THEN a
  ELSE IF a.toggle = "enable"
  THEN LET t == [SetPeerExchange(a.t, p, TRUE) EXCEPT !.c[p].mask = @ \cup {"do"}]
       IN  [t |-> t, toggle |-> IF t.size >= MaxPex THEN "none" ELSE "enable"]
  ELSE IF ~a.t.c[p].local THEN a
  ELSE IF a.toggle = "disable" THEN [a EXCEPT !.t = SetPeerExchange(@, p, FALSE)]
  ELSE [a EXCEPT !.t.c[p].mask = @ \cup {"do"}]

\* FoldSet goes through the peers in an order of its own: the list's order is
\* that of ConnectionList, which erases by swapping.
ExchangeAll(t, toggle) == FoldSet(LAMBDA p, a : ExchangeOne(a, p), [t |-> t, toggle |-> toggle],
                                  Connected(t)).t

Smallest(n, set) ==
  CHOOSE k \in SUBSET set : Cardinality(k) = n /\ \A x \in k, y \in set \ k : x < y

NewListsUncapped(t, current) ==
  LET u == [t EXCEPT !.list = current, !.seen = current, !.delta = NoMessage]
  IN  IF current = {} THEN u
      ELSE [u EXCEPT !.delta = PexMessage(current \ t.list, t.list \ current),
                     !.initial = PexMessage(current, {})]

\* The list sent from now on: at most MaxList, keeping those already in it.
NewLists(t, current) ==
  LET added == current \ t.list
      removed == t.list \ current
      excess == Cardinality(current) - MaxList
      kept == IF excess > 0 THEN Smallest(Cardinality(added) - excess, added) ELSE added
      list == (t.list \ removed) \cup kept
      u == [t EXCEPT !.list = list, !.seen = current, !.delta = NoMessage,
                     !.thrown = @ \/ (excess > 0 /\ Cardinality(added) < excess)]
  IN  IF kept = {} /\ list = {} THEN u
      ELSE [u EXCEPT !.delta = PexMessage(kept, removed), !.initial = PexMessage(list, {})]

DoPeerExchange(t, few) ==
  LET g == Toggle(t, few)
      e == ExchangeAll([t EXCEPT !.active = g.active], g.toggle)
  IN  NewLists(e, Connected(t) \cap Listening)

\* receive_tick() every two minutes: the exchange, or switching it off, and
\* then receive_keepalive() of each connection.
Tick(few) ==
  /\ s.events < MaxEvents
  /\ LET t == IF s.enabled THEN DoPeerExchange(s, few)
              ELSE IF s.active
              THEN FoldSet(LAMBDA p, a : SetPeerExchange(a, p, FALSE),
                           [s EXCEPT !.active = FALSE], Connected(s))
              ELSE s
     IN  s' = Event([t EXCEPT !.c = [p \in Peers |->
                       IF @[p].on = "conn" /\ @[p].up = "idle"
                       THEN [@[p] EXCEPT !.poll = TRUE, !.out = "keepalive"] ELSE @[p]]])

\* Download::set_pex_enabled().
SetPexEnabled ==
  /\ s.events < MaxEvents
  /\ s' = Event([s EXCEPT !.enabled = ~@])

-----------------------------------------------------------------------------
(* fill_write_buffer() and event_write().                                  *)

\* send_pex_message(): [t, wrote what, "done": what it returns].
SendPexMessage(t, p) ==
  LET c == t.c[p]
  IN  IF ~c.supported
      THEN [t |-> [t EXCEPT !.c[p].mask = {}], out |-> "none", done |-> FALSE]
      ELSE IF c.mask \cap {"enable", "disable"} # {}
      THEN [t |-> [t EXCEPT !.c[p].mask = @ \cap {"do"}, !.c[p].told = "enable" \in c.mask],
            out |-> "toggle", done |-> TRUE]
      ELSE IF "do" \in c.mask /\ c.id # 0
      THEN LET m == IF c.first THEN t.initial ELSE t.delta
           IN  [t |-> [t EXCEPT !.c[p].mask = {}, !.c[p].first = FALSE],
                out |-> IF m = NoMessage THEN "none" ELSE "pex", done |-> m # NoMessage]
      ELSE [t |-> [t EXCEPT !.c[p].mask = {}], out |-> "none", done |-> TRUE]

Fill(t, p) ==
  LET r == IF t.c[p].mask = {} THEN [t |-> t, out |-> "none", done |-> FALSE]
           ELSE SendPexMessage(t, p)
      piece == ~r.done /\ r.t.c[p].uploads > 0
      out == IF piece THEN "piece" ELSE r.out
  IN  [r.t EXCEPT !.c[p].uploads = IF piece THEN @ - 1 ELSE @,
                  !.c[p].out = IF out = "none" THEN @ ELSE out]

EventWrite(p) ==
  /\ s.c[p].on = "conn" /\ s.c[p].poll
  /\ s' = IF s.c[p].up = "idle"
          THEN LET f == Fill(s, p)
               IN  IF f.c[p].out = "none" THEN [f EXCEPT !.c[p].poll = FALSE]
                   ELSE [f EXCEPT !.c[p].up = "busy"]
          ELSE [s EXCEPT !.c[p].up = "idle", !.c[p].out = "none"]

\* A REQUEST of the peer, as many as its pipe holds.
ReadRequest(p) ==
  /\ Uploading /\ s.c[p].on = "conn" /\ s.c[p].uploads = 0
  /\ s' = [s EXCEPT !.c[p].uploads = 2, !.c[p].poll = @ \/ s.c[p].up = "idle"]

Next ==
  \/ \E p \in Peers : WriteExtensionHandshake(p) \/ Disconnect(p) \/ EventWrite(p) \/ ReadRequest(p)
  \/ \E p \in Peers, v \in {-1, 0, 1} : ReadExtension(p, v)
  \/ \E p \in Peers, v \in {0, 1} : RemoteToggles(p, v)
  \/ \E few \in BOOLEAN : Tick(few)
  \/ SetPexEnabled

Spec == Init /\ [][Next]_s

-----------------------------------------------------------------------------
(* Properties.                                                             *)

\* size_pex() counts the handshakes and connections that have ut_pex enabled
\* and stays within max_size_pex(): ~DownloadMain() asserts it is zero.
SizePexMatches ==
  /\ s.size = Cardinality({p \in Peers : s.c[p].local})
  /\ s.size <= MaxPex

\* The list the messages are built from names peers that were connected at the
\* last exchange, no more than max_size_pex_list(), and all of them when they
\* fit; do_peer_exchange() never finds fewer new peers than it must leave out.
ListIsBounded ==
  /\ ~s.thrown /\ s.list \subseteq s.seen /\ Cardinality(s.list) <= MaxList
  /\ Cardinality(s.seen) <= MaxList => s.list = s.seen

\* A peer whose messages this end waits for has been told to send them, once
\* the toggles decided for it are written (set_peer_exchange()).
ToggleTold ==
  \A p \in Connected(s) :
    s.c[p].local /\ s.c[p].mask \cap {"enable", "disable"} = {} => s.c[p].told

\* "If no peers were added or removed, the initial message is still correct":
\* the full message sent to a peer that enables ut_pex lists the current peers.
InitialIsCurrent == s.initial.added = s.list

\* A connection with pieces to send is in the write poll or writing.
UploadsGoOn ==
  \A p \in Connected(s) : s.c[p].uploads > 0 => s.c[p].poll
=============================================================================
