---------------------------- MODULE NetworkConfig ----------------------------
(***************************************************************************)
(* The network settings and what follows them: runtime::NetworkConfig,     *)
(* ProxyManager and NetworkManager (torrent/runtime/*.cc), the listen      *)
(* sockets (net/listen.cc), the udp routers' addresses                     *)
(* (tracker/udp_router.cc) and the port of the DHT server                  *)
(* (torrent/tracker/dht_controller.cc).                                    *)
(*                                                                         *)
(* A setting that changes arms a timer of 200 ms in the main thread; when  *)
(* it fires every subscriber posts a callback to its own thread, and the   *)
(* main thread restarts its sockets in one callback, the tracker thread    *)
(* its routers in another.  Addresses are abstract: an address of each     *)
(* family, the any address of each family, unspec, and none for nullptr.   *)
(***************************************************************************)
EXTENDS Integers, WellFoundedInduction, TLAPS

CONSTANTS MaxPort,      \* the largest uint16_t
          PortScenes,   \* pairs of the port ranges <<first, last>> the client
                        \* asks for and the <<family, port>> other programs have
                        \* bound; family 0 is a datagram socket
          Lone6         \* TRUE: an inet6 address may be the only bind address
                        \* while ipv4 and ipv4-in-6 are allowed

ASSUME ConfigAssumption ==
  /\ MaxPort \in Nat /\ Lone6 \in BOOLEAN
  /\ PortScenes \subseteq (SUBSET ((0..MaxPort) \X (0..MaxPort))) \X (SUBSET (Nat \X Nat))

VARIABLE nc

NoAddress == "none"
Family(a) == CASE a \in {"addr4", "any4"} -> 4 [] a \in {"addr6", "any6"} -> 6 [] OTHER -> 0
ConfigThrow(t) == [t EXCEPT !.thrown = TRUE]

-----------------------------------------------------------------------------
(* Which address to use.                                                   *)

Bound4(t) == t.bind4 # "unspec"
Bound6(t) == t.bind6 # "unspec"

\* generic_address_best_match(): the caller checks that it is not blocked.
AddressBestMatch(t) ==
  IF ~Bound4(t) THEN t.bind6
  ELSE IF ~Bound6(t) THEN t.bind4
  ELSE IF t.prefer_ipv6 THEN (IF t.block_ipv6 /\ ~t.block_ipv4 THEN t.bind4 ELSE t.bind6)
  ELSE (IF t.block_ipv4 /\ ~t.block_ipv6 THEN t.bind6 ELSE t.bind4)

\* generic_address_or_unspec_and_null()
AddressOrUnspecAndNull(t) ==
  IF t.block_ipv4 /\ t.block_ipv6 THEN NoAddress
  ELSE IF ~Bound4(t) /\ ~Bound6(t) THEN "unspec"
  ELSE IF ~Bound4(t) THEN (IF t.block_ipv6 THEN NoAddress ELSE t.bind6)
  ELSE IF ~Bound6(t) THEN (IF t.block_ipv4 THEN NoAddress ELSE t.bind4)
  ELSE IF t.block_ipv4 \/ (t.prefer_ipv6 /\ ~t.block_ipv6) THEN t.bind6
  ELSE t.bind4

\* generic_address_or_any_and_null()
AddressOrAnyAndNull(t) ==
  LET a == AddressOrUnspecAndNull(t)
  IN IF a # "unspec" THEN a ELSE IF t.block_ipv6 THEN "any4" ELSE "any6"

\* generic_address_for_connect()
ConnectInet(t) ==
  IF t.block_ipv4 THEN NoAddress
  ELSE IF Bound4(t) THEN t.bind4
  ELSE IF ~Bound6(t) THEN "any4"
  ELSE IF t.block_ipv4in6 THEN NoAddress ELSE t.bind6
ConnectInet6(t) ==
  IF t.block_ipv6 THEN NoAddress
  ELSE IF Bound6(t) THEN t.bind6
  ELSE IF Bound4(t) THEN NoAddress ELSE "any6"
AddressForConnect(t, family, udp) ==
  IF udp /\ t.block_udp THEN NoAddress ELSE IF family = 4 THEN ConnectInet(t) ELSE ConnectInet6(t)

\* bind_addresses_or_null_unsafe()
BindAddressesOrNullOnlyUnbound(t) ==
  <<IF t.block_ipv4 THEN NoAddress ELSE t.bind4,
    IF t.block_ipv6 /\ ~Bound4(t) THEN NoAddress ELSE t.bind6>>
BindAddressesOrNull(t) ==
  <<IF t.block_ipv4 \/ (Bound6(t) /\ ~Bound4(t)) THEN NoAddress ELSE t.bind4,
    IF t.block_ipv6 \/ (Bound4(t) /\ ~Bound6(t)) THEN NoAddress ELSE t.bind6>>

\* listen_addresses_unsafe(), without the ipv4-in-6 flag.
ListenAddresses(t) ==
  IF t.block_ipv4 /\ t.block_ipv6 THEN <<NoAddress, NoAddress>>
  ELSE IF t.block_ipv4 THEN <<NoAddress, IF Bound6(t) THEN t.bind6 ELSE "any6">>
  ELSE IF t.block_ipv6 THEN <<IF Bound4(t) THEN t.bind4 ELSE "any4", NoAddress>>
  ELSE IF ~Bound4(t) /\ ~Bound6(t) THEN <<"any4", "any6">>
  ELSE <<IF Bound4(t) THEN t.bind4 ELSE NoAddress, IF Bound6(t) THEN t.bind6 ELSE NoAddress>>

-----------------------------------------------------------------------------
(* Listen (net/listen.cc).                                                 *)

\* listen_open_range(): the first port of the range that can be bound, and for
\* the DHT with a datagram socket too; port 0 always binds.  -1: no such port.
OpenRange(t, family, first, last, check_dht) ==
  LET free == {p \in first .. last :
                 p = 0 \/ (<<family, p>> \notin t.used /\ (check_dht => <<0, p>> \notin t.used))}
  IN IF free = {} THEN -1 ELSE CHOOSE p \in free : \A q \in free : p <= q

\* One round of open_both() for a range: the inet6 socket is looked for in the
\* whole range, and only `options` is narrowed to the inet port.
OpenBothRound(t, first, last, check_dht) ==
  LET inet == OpenRange(t, 4, first, last, check_dht)
  IN IF inet = -1 THEN [inet |-> -1, inet6 |-> -1]
     ELSE [inet |-> inet, inet6 |-> OpenRange(t, 6, first, last, check_dht)]

OpenedBoth(t, r) ==
  IF r.inet # r.inet6 THEN ConfigThrow(t)
  ELSE [t EXCEPT !.listen4 = r.inet, !.listen6 = r.inet6, !.listen_port = r.inet]

\* open_both(): the next round starts at the port after the inet port, as a
\* uint16_t, and ends at the inet port.
OpenBoth(t, first, last, check_dht) ==
  LET r == OpenBothRound(t, first, last, check_dht)
      next == (r.inet + 1) % (MaxPort + 1)
      again == OpenBothRound(t, next, r.inet, check_dht)
  IN IF r.inet = -1 THEN t
     ELSE IF r.inet6 # -1 THEN OpenedBoth(t, r)
     ELSE IF next <= r.inet /\ again.inet6 # -1 THEN OpenedBoth(t, again)
     ELSE t

OpenSingle(t, family, first, last, check_dht) ==
  LET port == OpenRange(t, family, first, last, check_dht)
  IN IF port = -1 THEN t
     ELSE IF family = 4 THEN [t EXCEPT !.listen4 = port, !.listen_port = port]
     ELSE [t EXCEPT !.listen6 = port, !.listen_port = port]

-----------------------------------------------------------------------------
(* NetworkManager.                                                         *)

Closed == -1
IsListening(t) == t.listen4 # Closed \/ t.listen6 # Closed

\* listen_open_unsafe(); an input_error or resource_error opens nothing.
ListenOpen(t, first, last) ==
  LET a == ListenAddresses(t)
      check_dht == first # last /\ t.override_dht_port = 0
  IN IF IsListening(t) THEN ConfigThrow(t)
     ELSE IF first = 0 \/ first > last THEN t
     ELSE IF a[1] # NoAddress /\ a[2] # NoAddress THEN OpenBoth(t, first, last, check_dht)
     ELSE IF a[1] # NoAddress THEN OpenSingle(t, 4, first, last, check_dht)
     ELSE IF a[2] # NoAddress THEN OpenSingle(t, 6, first, last, check_dht)
     ELSE t

ListenClose(t) == [t EXCEPT !.listen4 = Closed, !.listen6 = Closed]

\* listen_restart_unsafe()
ListenRestartKeeps(t) ==
  IF t.listen_port = 0 \/ t.block_incoming THEN t
  ELSE ListenOpen(ListenClose(t), t.listen_port, t.listen_port)
ListenRestart(t) ==
  IF t.listen_port = 0 \/ t.block_incoming THEN ListenClose(t)
  ELSE ListenOpen(ListenClose(t), t.listen_port, t.listen_port)

\* DhtController::start() with the port in force; DhtServer::start() listens on
\* ipv4 or fails.
DhtPort(t) == IF t.override_dht_port # 0 THEN t.override_dht_port ELSE t.listen_port
DhtStart(t) ==
  IF DhtPort(t) = 0 \/ t.block_udp \/ BindAddressesOrNull(t)[1] = NoAddress \/ <<0, DhtPort(t)>> \in t.used
  THEN [t EXCEPT !.dht_port = 0]
  ELSE [t EXCEPT !.dht_port = DhtPort(t)]

\* dht_restart()
DhtRestart(t) == IF t.dht_port = 0 THEN t ELSE DhtStart(t)

\* UdpRouter::open(), close() and updated_network_config()
UpdateRouter(t, family) ==
  LET a == AddressForConnect(t, family, TRUE)
  IN IF a # NoAddress /\ Family(a) # family THEN ConfigThrow(t)
     ELSE [t EXCEPT !.router[family] = a]

-----------------------------------------------------------------------------
(* What the client does, in the main thread.                               *)

\* notify_changes_unsafe()
NotifyChanges(t) == [t EXCEPT !.timer = TRUE]

LoneInet6(t) == Bound6(t) /\ ~Bound4(t) /\ ~t.block_ipv4 /\ ~t.block_ipv4in6

Allowed(t) == LoneInet6(t) => Lone6

\* set_block_ipv4(), set_block_ipv6(), set_block_ipv4in6(); set_prefer_ipv6()
\* changes nothing that is open.
SetBlock ==
  \E t \in {[nc EXCEPT !.block_ipv4 = ~@], [nc EXCEPT !.block_ipv6 = ~@], [nc EXCEPT !.block_ipv4in6 = ~@]} :
    Allowed(t) /\ nc' = NotifyChanges(t)

\* set_bind_address(): an inet address or unspec, for both families.
SetBindAddress == \E a \in {"unspec", "addr4"} :
  nc' = NotifyChanges([nc EXCEPT !.bind4 = a, !.bind6 = "unspec"])

\* set_bind_inet_address(), set_bind_inet6_address()
SetBindFamily ==
  \E t \in {[nc EXCEPT !.bind4 = a] : a \in {"unspec", "addr4"}} \cup {[nc EXCEPT !.bind6 = a] : a \in {"unspec", "addr6"}} :
    Allowed(t) /\ nc' = NotifyChanges(t)

\* ProxyManager::update_proxy(), clear_proxy() and set_http_proxy_url(); the
\* stack of HTTP requests has the proxy's url unless one was set for it.
UpdateProxy(t) ==
  NotifyChanges([t EXCEPT !.proxy = "set", !.block_udp = TRUE, !.block_incoming = TRUE,
                          !.http_proxy = IF t.http_url THEN @ ELSE "proxy"])

ClearProxyKeepsBlocks(t) ==
  LET u == [t EXCEPT !.proxy = "cleared", !.http_proxy = IF t.http_url THEN @ ELSE NoAddress]
  IN IF t.proxy # "initial" THEN u
     ELSE NotifyChanges([u EXCEPT !.block_udp = FALSE, !.block_incoming = FALSE])
ClearProxy(t) ==
  LET u == [t EXCEPT !.proxy = "cleared", !.http_proxy = IF t.http_url THEN @ ELSE NoAddress]
  IN IF t.proxy = "cleared" THEN u
     ELSE NotifyChanges([u EXCEPT !.block_udp = FALSE, !.block_incoming = FALSE])

SetProxy ==
  \/ nc' = UpdateProxy(nc)
  \/ nc' = ClearProxy(nc)

SetHttpProxyUrl ==
  /\ nc.proxy = "initial" /\ ~nc.timer
  /\ nc' = [nc EXCEPT !.http_url = TRUE, !.http_proxy = "own"]

\* listen_open(), called by a client that listens on no port yet and whose
\* settings allow incoming connections.
ClientListens == \E r \in nc.ranges :
  /\ ~IsListening(nc) /\ ~nc.block_incoming
  /\ nc' = ListenOpen(nc, r[1], r[2])

\* NetworkManager::set_listen_port()
SetListenPort == \E r \in nc.ranges :
  /\ r[1] # nc.listen_port
  /\ LET t == ListenRestart([nc EXCEPT !.listen_port = r[1]])
     IN nc' = IF t.override_dht_port = 0 THEN DhtRestart(t) ELSE t

\* NetworkManager::set_dht_port()
SetDhtPort == \E port \in {0} \cup {r[1] : r \in nc.ranges} :
  /\ port # nc.override_dht_port
  /\ LET t == [nc EXCEPT !.override_dht_port = port] IN nc' = IF port # 0 THEN DhtRestart(t) ELSE t

ClientStartsDht ==
  /\ nc.dht_port = 0 /\ DhtPort(nc) # 0
  /\ nc' = DhtStart(nc)

\* force_notify_changes(): the timer fires.
NotifySubscribers ==
  /\ nc.timer
  /\ nc' = [nc EXCEPT !.timer = FALSE, !.posted = {"main", "tracker"}]

MainRestarts ==
  /\ "main" \in nc.posted
  /\ nc' = [DhtRestart(ListenRestart(nc)) EXCEPT !.posted = @ \ {"main"}]

TrackerRebinds ==
  /\ "tracker" \in nc.posted
  /\ nc' = [UpdateRouter(UpdateRouter(nc, 4), 6) EXCEPT !.posted = @ \ {"tracker"}]

ConfigInit == \E scene \in PortScenes :
  nc = [block_ipv4 |-> FALSE, block_ipv6 |-> FALSE, block_ipv4in6 |-> FALSE, prefer_ipv6 |-> FALSE,
        block_udp |-> FALSE, block_incoming |-> FALSE, bind4 |-> "unspec", bind6 |-> "unspec",
        proxy |-> "initial", http_url |-> FALSE, http_proxy |-> NoAddress,
        timer |-> FALSE, posted |-> {}, listen4 |-> Closed, listen6 |-> Closed, listen_port |-> 0,
        override_dht_port |-> 0, dht_port |-> 0, router |-> [f \in {4, 6} |-> IF f = 4 THEN "any4" ELSE "any6"],
        ranges |-> scene[1], used |-> scene[2], thrown |-> FALSE]

ConfigNext ==
  \/ SetBlock \/ SetBindAddress \/ SetBindFamily \/ SetProxy \/ SetHttpProxyUrl
  \/ ClientListens \/ SetListenPort \/ SetDhtPort \/ ClientStartsDht
  \/ NotifySubscribers \/ MainRestarts \/ TrackerRebinds

ConfigSpec == ConfigInit /\ [][ConfigNext]_nc

-----------------------------------------------------------------------------
(* Properties.                                                             *)

\* No internal_error, whatever the settings: the two listen sockets have one
\* port, and a router is bound to an address of its family.
NoConfigError == ~nc.thrown

Blocked(f) == IF f = 4 THEN nc.block_ipv4 ELSE nc.block_ipv6

\* Once the timer and the callbacks it posted are through, the sockets follow the
\* settings of now, not those of when the change was announced: the routers have
\* the address the settings give, and no listen socket is open for a family or at
\* a time the settings forbid; a missing one could not be bound.
SettledFollowsConfig ==
  ~nc.timer /\ nc.posted = {} =>
    /\ \A f \in {4, 6} : nc.router[f] = AddressForConnect(nc, f, TRUE)
    /\ nc.block_incoming => ~IsListening(nc)
    /\ nc.listen4 # Closed => ListenAddresses(nc)[1] # NoAddress
    /\ nc.listen6 # Closed => ListenAddresses(nc)[2] # NoAddress
    /\ nc.listen4 # Closed /\ nc.listen6 # Closed => nc.listen4 = nc.listen6
    /\ nc.dht_port # 0 => BindAddressesOrNull(nc)[1] # NoAddress /\ ~nc.block_udp
    /\ IsListening(nc) => nc.listen_port \in {nc.listen4, nc.listen6}

Allows(t) ==
  /\ \A f \in {4, 6} : LET a == AddressForConnect(t, f, FALSE) IN
       a # NoAddress => ~Blocked(f) /\ (Family(a) = f \/ (f = 4 /\ ~t.block_ipv4in6))
  /\ AddressOrAnyAndNull(t) # NoAddress => ~Blocked(Family(AddressOrAnyAndNull(t)))
  /\ \A i \in {1, 2} :
       /\ BindAddressesOrNull(t)[i] # NoAddress => ~Blocked(2 * i + 2)
       /\ ListenAddresses(t)[i] # NoAddress => ~Blocked(2 * i + 2)
  /\ AddressBestMatch(t) # "unspec" /\ Blocked(Family(AddressBestMatch(t))) =>
       (Blocked(4) /\ Blocked(6)) \/ ~Bound4(t) \/ ~Bound6(t)

\* The functions that choose an address agree: none of them gives an address of a
\* blocked family, apart from best_match, whose caller checks; ipv4 goes over an
\* inet6 address only where ipv4-in-6 is allowed.
AddressesAllowed == \A prefer \in BOOLEAN : Allows([nc EXCEPT !.prefer_ipv6 = prefer])

\* With a proxy in use neither udp nor incoming connections are allowed, without
\* one both are, and HTTP requests go through the proxy unless they have their own.
ProxyBlocks ==
  /\ nc.block_udp = (nc.proxy = "set") /\ nc.block_incoming = (nc.proxy = "set")
  /\ nc.http_proxy = IF nc.http_url THEN "own" ELSE IF nc.proxy = "set" THEN "proxy" ELSE NoAddress

(* Once the callbacks of a change of the settings are through, the         *)
(* listening sockets and routers follow the settings of now, and a proxy   *)
(* blocks what cannot go through it.                                       *)
SocketsFollowSettings ==
  SettledFollowsConfig /\ AddressesAllowed /\ ProxyBlocks /\ NoConfigError

-----------------------------------------------------------------------------
(* NetworkConfig.  The inductive invariant.                                *)

Ports == 0..MaxPort
Inet == {"unspec", "addr4"}
Inet6 == {"unspec", "addr6"}
Proxies == {"initial", "set", "cleared"}
HttpProxies == {NoAddress, "own", "proxy"}
Addresses == {"unspec", "addr4", "addr6", "any4", "any6", NoAddress}

ConfigState ==
  [block_ipv4 : BOOLEAN, block_ipv6 : BOOLEAN, block_ipv4in6 : BOOLEAN, prefer_ipv6 : BOOLEAN,
   block_udp : BOOLEAN, block_incoming : BOOLEAN, bind4 : Inet, bind6 : Inet6,
   proxy : Proxies, http_url : BOOLEAN, http_proxy : HttpProxies, timer : BOOLEAN, posted : SUBSET {"main", "tracker"},
   listen4 : Ports \cup {Closed}, listen6 : Ports \cup {Closed}, listen_port : Ports,
   override_dht_port : Ports, dht_port : Ports, router : [{4, 6} -> Addresses],
   ranges : SUBSET (Ports \X Ports), used : SUBSET (Nat \X Nat), thrown : BOOLEAN]

\* What is bound in one family is bound in the other, or there is one port to look at.
RangeAgrees(used, first, last) ==
  first = last \/ \A p \in first..last : <<4, p>> \in used <=> <<6, p>> \in used

PortsAgree == \A scene \in PortScenes : \A r \in scene[1] : RangeAgrees(scene[2], r[1], r[2])

PortInv(t) ==
  /\ t.listen4 # Closed /\ t.listen6 # Closed => t.listen4 = t.listen6
  /\ IsListening(t) => t.listen_port \in {t.listen4, t.listen6}
  /\ \A r \in t.ranges : RangeAgrees(t.used, r[1], r[2])

\* What the main thread restarts, and what the tracker thread does, follows the settings
\* unless its callback is still to come.
ListenFollows(t) ==
  /\ t.block_incoming => ~IsListening(t)
  /\ t.listen4 # Closed => ListenAddresses(t)[1] # NoAddress
  /\ t.listen6 # Closed => ListenAddresses(t)[2] # NoAddress
  /\ t.dht_port # 0 => BindAddressesOrNull(t)[1] # NoAddress /\ ~t.block_udp
RouterFollows(t) == \A f \in {4, 6} : t.router[f] = AddressForConnect(t, f, TRUE)

PendingInv(t) ==
  /\ ~t.timer /\ "main" \notin t.posted => ListenFollows(t)
  /\ ~t.timer /\ "tracker" \notin t.posted => RouterFollows(t)

ProxyInv(t) ==
  /\ t.block_udp = (t.proxy = "set") /\ t.block_incoming = (t.proxy = "set")
  /\ t.http_proxy = IF t.http_url THEN "own" ELSE IF t.proxy = "set" THEN "proxy" ELSE NoAddress

ConfigInv(t) ==
  t \in ConfigState /\ PortInv(t) /\ PendingInv(t) /\ ProxyInv(t) /\ ~LoneInet6(t) /\ ~t.thrown

ConfigInvHolds == ConfigInv(nc)

-----------------------------------------------------------------------------
(* Ports.                                                                  *)

\* A set of ports has a lowest one.
LEMMA LeastPort ==
  ASSUME NEW S \in SUBSET Nat, S # {}
  PROVE  \E p \in S : \A q \in S : p <= q
<1> DEFINE R == OpToRel(<, Nat)
<1>1. IsWellFoundedOn(R, Nat)
  BY NatLessThanWellFounded, Zenon
<1>2. \A y, x \in Nat : y < x => <<y, x>> \in R
  BY DEF OpToRel
<1> HIDE DEF R
<1>3. \E x \in S : \A y \in S : ~ (<<y, x>> \in R)
  BY <1>1, WFMin, Zenon
<1>4. \A x, y \in Nat : ~(y < x) => x <= y
  OBVIOUS
<1> QED BY <1>2, <1>3, <1>4, Zenon

\* listen_open_range() finds nothing or a port of the range.
LEMMA OpenRangeType ==
  ASSUME NEW t, NEW family, NEW first \in Nat, NEW last \in Nat, NEW check \in BOOLEAN
  PROVE  OpenRange(t, family, first, last, check) \in (first..last) \cup {-1}
<1> DEFINE free == {p \in first .. last :
                      p = 0 \/ (<<family, p>> \notin t.used /\ (check => <<0, p>> \notin t.used))}
<1>1. OpenRange(t, family, first, last, check) =
        IF free = {} THEN -1 ELSE CHOOSE p \in free : \A q \in free : p <= q
  BY DEF OpenRange
<1>2. free \in SUBSET (first..last) /\ free \in SUBSET Nat
  OBVIOUS
<1> HIDE DEF free
<1>3. free # {} => \E p \in free : \A q \in free : p <= q
  BY <1>2, LeastPort
<1>4. free # {} => (CHOOSE p \in free : \A q \in free : p <= q) \in free
  BY <1>3
<1> QED BY <1>1, <1>2, <1>4, Zenon

\* With one port there is nothing to choose; port 0 always binds.
LEMMA OpenOne ==
  ASSUME NEW t, NEW family, NEW port \in Nat, NEW check \in BOOLEAN
  PROVE  OpenRange(t, family, port, port, check) \in {port, -1}
<1> QED BY OpenRangeType

LEMMA OpenZero ==
  ASSUME NEW t, NEW family, NEW last \in Nat, NEW check \in BOOLEAN
  PROVE  OpenRange(t, family, 0, last, check) = 0
<1> DEFINE free == {p \in 0 .. last :
                      p = 0 \/ (<<family, p>> \notin t.used /\ (check => <<0, p>> \notin t.used))}
<1>1. OpenRange(t, family, 0, last, check) =
        IF free = {} THEN -1 ELSE CHOOSE p \in free : \A q \in free : p <= q
  BY DEF OpenRange
<1>2. free \in SUBSET Nat /\ 0 \in free
  OBVIOUS
<1> HIDE DEF free
<1>3. \A q \in free : 0 <= q
  BY <1>2
<1>4. \A p \in free : (\A q \in free : p <= q) => p = 0
  BY <1>2
<1>5. (CHOOSE p \in free : \A q \in free : p <= q) = 0
  BY <1>2, <1>3, <1>4, Zenon
<1> QED BY <1>1, <1>2, <1>5, Zenon

\* Where the families agree on what is bound they agree on the first free port.
LEMMA OpenAgrees ==
  ASSUME NEW t, NEW first \in Nat, NEW last \in Nat, NEW check \in BOOLEAN,
         \A p \in first..last : <<4, p>> \in t.used <=> <<6, p>> \in t.used
  PROVE  OpenRange(t, 4, first, last, check) = OpenRange(t, 6, first, last, check)
<1> DEFINE free(f) == {p \in first .. last :
                         p = 0 \/ (<<f, p>> \notin t.used /\ (check => <<0, p>> \notin t.used))}
<1>1. \A f : OpenRange(t, f, first, last, check) =
        IF free(f) = {} THEN -1 ELSE CHOOSE p \in free(f) : \A q \in free(f) : p <= q
  BY DEF OpenRange
<1>2. free(4) = free(6)
  OBVIOUS
<1> HIDE DEF free
<1> QED BY <1>1, <1>2, Zenon

-----------------------------------------------------------------------------
(* Listening.                                                              *)

Listens(t, inet, inet6, port) ==
  [t EXCEPT !.listen4 = inet, !.listen6 = inet6, !.listen_port = port]

\* open_both() opens nothing or both sockets on one port.
LEMMA BothOpen ==
  ASSUME NEW t \in ConfigState, NEW first \in Ports, NEW last \in Ports, NEW check \in BOOLEAN,
         RangeAgrees(t.used, first, last)
  PROVE  \/ OpenBoth(t, first, last, check) = t
         \/ \E p \in Ports : OpenBoth(t, first, last, check) = Listens(t, p, p, p)
<1> DEFINE r == OpenBothRound(t, first, last, check)
           next == (r.inet + 1) % (MaxPort + 1)
           again == OpenBothRound(t, next, r.inet, check)
<1>1. OpenBoth(t, first, last, check) =
        IF r.inet = -1 THEN t
        ELSE IF r.inet6 # -1 THEN OpenedBoth(t, r)
        ELSE IF next <= r.inet /\ again.inet6 # -1 THEN OpenedBoth(t, again) ELSE t
  BY DEF OpenBoth
<1>2. MaxPort \in Nat /\ first \in Nat /\ last \in Nat /\ last <= MaxPort
  BY ConfigAssumption DEF Ports
<1>3. r.inet \in (first..last) \cup {-1}
  BY <1>2, OpenRangeType DEF OpenBothRound
<1>4. r.inet # -1 /\ r.inet6 # -1 => r.inet = r.inet6
  <2>1. CASE first = last
    <3>1. OpenRange(t, 4, first, last, check) \in {first, -1} /\ OpenRange(t, 6, first, last, check) \in {first, -1}
      BY <1>2, <2>1, OpenOne
    <3> QED BY <3>1 DEF OpenBothRound
  <2>2. CASE \A p \in first..last : <<4, p>> \in t.used <=> <<6, p>> \in t.used
    <3>1. OpenRange(t, 4, first, last, check) = OpenRange(t, 6, first, last, check)
      BY <1>2, <2>2, OpenAgrees, Zenon
    <3> QED BY <3>1 DEF OpenBothRound
  <2> QED BY <2>1, <2>2 DEF RangeAgrees
<1>5. ASSUME r.inet # -1, next <= r.inet
      PROVE  again.inet = 0 /\ again.inet6 = 0
  <2> DEFINE port == r.inet
  <2>1. port \in Nat /\ port <= MaxPort
    BY <1>2, <1>3, <1>5
  <2>2. (port + 1) % (MaxPort + 1) <= port
    BY <1>5
  <2>3. again = OpenBothRound(t, (port + 1) % (MaxPort + 1), port, check)
    OBVIOUS
  <2> HIDE DEF port
  <2>4. port = MaxPort
    <3>1. port + 1 < MaxPort + 1 => (port + 1) % (MaxPort + 1) = port + 1
      BY <1>2, <2>1
    <3> QED BY <1>2, <2>1, <2>2, <3>1
  <2>5. (port + 1) % (MaxPort + 1) = 0
    BY <1>2, <2>4
  <2>6. OpenRange(t, 4, 0, port, check) = 0 /\ OpenRange(t, 6, 0, port, check) = 0
    BY <2>1, OpenZero
  <2>7. again = [inet |-> 0, inet6 |-> 0]
    BY <2>3, <2>5, <2>6 DEF OpenBothRound
  <2> QED BY <2>7
<1>6. r.inet # -1 => r.inet \in Ports
  BY <1>2, <1>3 DEF Ports
<1>7. 0 \in Ports
  BY <1>2 DEF Ports
<1> HIDE DEF r, next, again
<1>8. CASE r.inet # -1 /\ r.inet6 # -1
  <2>1. OpenedBoth(t, r) = Listens(t, r.inet, r.inet, r.inet)
    BY <1>4, <1>8, Zenon DEF OpenedBoth, Listens
  <2> QED BY <1>1, <1>6, <1>8, <2>1
<1>9. CASE r.inet # -1 /\ r.inet6 = -1 /\ next <= r.inet /\ again.inet6 # -1
  <2>1. OpenedBoth(t, again) = Listens(t, 0, 0, 0)
    BY <1>5, <1>9, Zenon DEF OpenedBoth, Listens
  <2> QED BY <1>1, <1>7, <1>9, <2>1
<1> QED BY <1>1, <1>8, <1>9

\* listen_open_unsafe(), for sockets that are closed: what it opens is allowed, on one
\* port.
LEMMA ListenOpens ==
  ASSUME NEW t \in ConfigState, ~IsListening(t), NEW first \in Ports, NEW last \in Ports,
         RangeAgrees(t.used, first, last)
  PROVE  \E a, b \in Ports \cup {Closed}, port \in Ports :
           /\ ListenOpen(t, first, last) = Listens(t, a, b, port)
           /\ a # Closed => ListenAddresses(t)[1] # NoAddress
           /\ b # Closed => ListenAddresses(t)[2] # NoAddress
           /\ a # Closed /\ b # Closed => a = b
           /\ a # Closed \/ b # Closed => port \in {a, b}
<1> DEFINE to == ListenAddresses(t)
           check == (first # last /\ t.override_dht_port = 0)
           both == OpenBoth(t, first, last, check)
           inet == OpenSingle(t, 4, first, last, check)
           inet6 == OpenSingle(t, 6, first, last, check)
<1>1. check \in BOOLEAN /\ first \in Nat /\ last \in Nat
  BY ConfigAssumption DEF Ports
<1>2. t.listen4 = Closed /\ t.listen6 = Closed /\ t.listen_port \in Ports
  BY DEF IsListening, ConfigState
<1>3. t = Listens(t, Closed, Closed, t.listen_port)
  BY <1>2, Zenon DEF Listens, ConfigState
<1>4. \/ ListenOpen(t, first, last) = t
      \/ to[1] # NoAddress /\ to[2] # NoAddress /\ ListenOpen(t, first, last) = both
      \/ to[1] # NoAddress /\ ListenOpen(t, first, last) = inet
      \/ to[2] # NoAddress /\ ListenOpen(t, first, last) = inet6
  BY DEF ListenOpen
<1>5. both = t \/ \E p \in Ports : both = Listens(t, p, p, p)
  BY <1>1, BothOpen, Zenon
<1>6. \A f : OpenRange(t, f, first, last, check) # -1 => OpenRange(t, f, first, last, check) \in Ports
  <2>1. \A f : OpenRange(t, f, first, last, check) \in (first..last) \cup {-1}
    BY <1>1, OpenRangeType, Zenon
  <2> QED BY <2>1, ConfigAssumption DEF Ports
<1>7. inet = t \/ \E p \in Ports : inet = Listens(t, p, Closed, p)
  <2> DEFINE found == OpenRange(t, 4, first, last, check)
  <2>1. inet = IF found = -1 THEN t ELSE [t EXCEPT !.listen4 = found, !.listen_port = found]
    BY DEF OpenSingle
  <2>2. found # -1 => found \in Ports
    BY <1>6
  <2> HIDE DEF found
  <2>3. [t EXCEPT !.listen4 = found, !.listen_port = found] = Listens(t, found, Closed, found)
    BY <1>2, Zenon DEF Listens, ConfigState
  <2> QED BY <2>1, <2>2, <2>3
<1>8. inet6 = t \/ \E p \in Ports : inet6 = Listens(t, Closed, p, p)
  <2> DEFINE found == OpenRange(t, 6, first, last, check)
  <2>1. inet6 = IF found = -1 THEN t ELSE [t EXCEPT !.listen6 = found, !.listen_port = found]
    BY DEF OpenSingle
  <2>2. found # -1 => found \in Ports
    BY <1>6
  <2> HIDE DEF found
  <2>3. [t EXCEPT !.listen6 = found, !.listen_port = found] = Listens(t, Closed, found, found)
    BY <1>2, Zenon DEF Listens, ConfigState
  <2> QED BY <2>1, <2>2, <2>3
<1> HIDE DEF to, check, both, inet, inet6
<1>9. CASE ListenOpen(t, first, last) = t
  BY <1>2, <1>3, <1>9
<1>10. CASE to[1] # NoAddress /\ to[2] # NoAddress /\ ListenOpen(t, first, last) = both /\ both # t
  BY <1>5, <1>10 DEF to
<1>11. CASE to[1] # NoAddress /\ ListenOpen(t, first, last) = inet /\ inet # t
  BY <1>7, <1>11 DEF to
<1>12. CASE to[2] # NoAddress /\ ListenOpen(t, first, last) = inet6 /\ inet6 # t
  BY <1>8, <1>12 DEF to
<1> QED BY <1>4, <1>9, <1>10, <1>11, <1>12

\* Sockets as listen_open_unsafe() and listen_restart_unsafe() leave them.
Opens(t, a, b, port) ==
  /\ a \in Ports \cup {Closed} /\ b \in Ports \cup {Closed} /\ port \in Ports
  /\ a # Closed => ListenAddresses(t)[1] # NoAddress
  /\ b # Closed => ListenAddresses(t)[2] # NoAddress
  /\ a # Closed /\ b # Closed => a = b
  /\ a # Closed \/ b # Closed => port \in {a, b}
  /\ t.block_incoming => a = Closed /\ b = Closed

LEMMA RestartOpens ==
  ASSUME NEW t \in ConfigState
  PROVE  \E a, b \in Ports \cup {Closed}, port \in Ports :
           ListenRestart(t) = Listens(t, a, b, port) /\ Opens(t, a, b, port)
<1> DEFINE u == ListenClose(t)
<1>1. t.listen_port \in Ports /\ t.block_incoming \in BOOLEAN
  BY DEF ConfigState
<1>2. u = Listens(t, Closed, Closed, t.listen_port)
  BY <1>1, Zenon DEF ListenClose, Listens, ConfigState
<1>3. CASE t.listen_port = 0 \/ t.block_incoming
  BY <1>1, <1>2, <1>3 DEF ListenRestart, Opens
<1>4. CASE ~(t.listen_port = 0 \/ t.block_incoming)
  <2>1. u \in ConfigState /\ ~IsListening(u) /\ u.used = t.used
    BY Zenon DEF ListenClose, ConfigState, IsListening
  <2>2. ListenAddresses(u) = ListenAddresses(t)
    BY DEF ListenClose, ConfigState, ListenAddresses, Bound4, Bound6
  <2>3. RangeAgrees(u.used, t.listen_port, t.listen_port)
    BY DEF RangeAgrees
  <2>4. ListenRestart(t) = ListenOpen(u, t.listen_port, t.listen_port)
    BY <1>4 DEF ListenRestart
  <2>5. \A a, b, port : Listens(u, a, b, port) = Listens(t, a, b, port)
    BY Zenon DEF ListenClose, Listens, ConfigState
  <2> HIDE DEF u
  <2>6. PICK a \in Ports \cup {Closed}, b \in Ports \cup {Closed}, port \in Ports :
           /\ ListenOpen(u, t.listen_port, t.listen_port) = Listens(u, a, b, port)
           /\ a # Closed => ListenAddresses(u)[1] # NoAddress
           /\ b # Closed => ListenAddresses(u)[2] # NoAddress
           /\ a # Closed /\ b # Closed => a = b
           /\ a # Closed \/ b # Closed => port \in {a, b}
    BY <1>1, <2>1, <2>3, ListenOpens, SMTT(60)
  <2>7. Opens(t, a, b, port)
    BY <1>4, <2>2, <2>6 DEF Opens
  <2> QED BY <2>4, <2>5, <2>6, <2>7
<1> QED BY <1>3, <1>4

\* The DHT server is started on a port that the settings allow, or not at all.
LEMMA DhtStarts ==
  ASSUME NEW t \in ConfigState
  PROVE  \E port \in Ports :
           /\ DhtStart(t) = [t EXCEPT !.dht_port = port]
           /\ port # 0 => BindAddressesOrNull(t)[1] # NoAddress /\ ~t.block_udp
<1>1. DhtPort(t) \in Ports /\ 0 \in Ports
  BY ConfigAssumption DEF ConfigState, DhtPort, Ports
<1> QED BY <1>1 DEF DhtStart

LEMMA DhtRestarts ==
  ASSUME NEW t \in ConfigState
  PROVE  \E port \in Ports :
           /\ DhtRestart(t) = [t EXCEPT !.dht_port = port]
           /\ port # 0 => BindAddressesOrNull(t)[1] # NoAddress /\ ~t.block_udp
<1>1. CASE t.dht_port = 0
  <2>1. t = [t EXCEPT !.dht_port = 0] /\ 0 \in Ports
    BY <1>1 DEF ConfigState
  <2> QED BY <1>1, <2>1 DEF DhtRestart
<1>2. CASE t.dht_port # 0
  BY <1>2, DhtStarts DEF DhtRestart
<1> QED BY <1>1, <1>2

\* A router takes the address of its family: no inet6 address stands alone.
LEMMA RouterUpdates ==
  ASSUME NEW t \in ConfigState, ~LoneInet6(t), NEW f \in {4, 6}
  PROVE  /\ UpdateRouter(t, f) = [t EXCEPT !.router[f] = AddressForConnect(t, f, TRUE)]
         /\ AddressForConnect(t, f, TRUE) \in Addresses
<1>1. /\ t.bind4 \in Inet /\ t.bind6 \in Inet6
      /\ t.block_ipv4 \in BOOLEAN /\ t.block_ipv6 \in BOOLEAN /\ t.block_ipv4in6 \in BOOLEAN
      /\ t.block_udp \in BOOLEAN
  BY DEF ConfigState
<1>2. CASE f = 4
  BY <1>1, <1>2 DEF UpdateRouter, AddressForConnect, ConnectInet, LoneInet6, Bound4, Bound6, Inet, Inet6,
     Family, NoAddress, Addresses
<1>3. CASE f = 6
  BY <1>1, <1>3 DEF UpdateRouter, AddressForConnect, ConnectInet6, LoneInet6, Bound4, Bound6, Inet, Inet6,
     Family, NoAddress, Addresses
<1> QED BY <1>2, <1>3, Zenon

-----------------------------------------------------------------------------
(* Each step preserves the invariant.                                      *)

\* The settings that addresses are chosen by.
SameSettings(t, u) ==
  /\ u.block_ipv4 = t.block_ipv4 /\ u.block_ipv6 = t.block_ipv6 /\ u.block_ipv4in6 = t.block_ipv4in6
  /\ u.block_udp = t.block_udp /\ u.block_incoming = t.block_incoming
  /\ u.bind4 = t.bind4 /\ u.bind6 = t.bind6

SameProxy(t, u) == u.proxy = t.proxy /\ u.http_url = t.http_url /\ u.http_proxy = t.http_proxy

SamePorts(t, u) ==
  /\ u.listen4 = t.listen4 /\ u.listen6 = t.listen6 /\ u.listen_port = t.listen_port
  /\ u.ranges = t.ranges /\ u.used = t.used

LEMMA SameChoices ==
  ASSUME NEW t, NEW u, SameSettings(t, u)
  PROVE  /\ ListenAddresses(u) = ListenAddresses(t) /\ BindAddressesOrNull(u) = BindAddressesOrNull(t)
         /\ \A f : AddressForConnect(u, f, TRUE) = AddressForConnect(t, f, TRUE)
         /\ LoneInet6(u) <=> LoneInet6(t)
<1>1. Bound4(u) = Bound4(t) /\ Bound6(u) = Bound6(t)
  BY DEF SameSettings, Bound4, Bound6
<1>2. ListenAddresses(u) = ListenAddresses(t)
  BY <1>1 DEF SameSettings, ListenAddresses
<1>3. BindAddressesOrNull(u) = BindAddressesOrNull(t)
  BY <1>1 DEF SameSettings, BindAddressesOrNull
<1>4. \A f : AddressForConnect(u, f, TRUE) = AddressForConnect(t, f, TRUE)
  BY <1>1 DEF SameSettings, AddressForConnect, ConnectInet, ConnectInet6
<1>5. LoneInet6(u) <=> LoneInet6(t)
  BY <1>1 DEF SameSettings, LoneInet6
<1> QED BY <1>2, <1>3, <1>4, <1>5, Zenon

\* A change of the settings is announced and leaves the sockets alone.
LEMMA AnnouncedKeeps ==
  ASSUME NEW t, ConfigInv(t), NEW u \in ConfigState, u.timer, SamePorts(t, u), ProxyInv(u),
         ~LoneInet6(u), ~u.thrown
  PROVE  ConfigInv(u)
<1>1. PortInv(u)
  BY DEF ConfigInv, PortInv, SamePorts, IsListening
<1>2. PendingInv(u)
  BY DEF PendingInv
<1> QED BY <1>1, <1>2 DEF ConfigInv

\* A step that leaves the settings alone: what it restarts must follow them.
LEMMA RestartKeeps ==
  ASSUME NEW t, ConfigInv(t), NEW u \in ConfigState, SameSettings(t, u), SameProxy(t, u) \/ ProxyInv(u),
         u.timer = t.timer, u.router = t.router, u.thrown = t.thrown,
         "tracker" \in u.posted <=> "tracker" \in t.posted,
         PortInv(u), ~u.timer /\ "main" \notin u.posted => ListenFollows(u)
  PROVE  ConfigInv(u)
<1>1. PendingInv(u)
  <2>1. \A f : AddressForConnect(u, f, TRUE) = AddressForConnect(t, f, TRUE)
    BY SameChoices, Zenon
  <2>2. RouterFollows(t) => RouterFollows(u)
    BY <2>1, Zenon DEF RouterFollows
  <2>3. ~t.timer /\ "tracker" \notin t.posted => RouterFollows(t)
    BY DEF ConfigInv, PendingInv
  <2>4. ~u.timer /\ "tracker" \notin u.posted => RouterFollows(u)
    BY <2>2, <2>3, Zenon
  <2> QED BY <2>4 DEF PendingInv
<1>2. ProxyInv(u)
  BY DEF ConfigInv, ProxyInv, SameSettings, SameProxy
<1>3. ~LoneInet6(u)
  BY SameChoices, Zenon DEF ConfigInv
<1> QED BY <1>1, <1>2, <1>3 DEF ConfigInv

\* Sockets that were just restarted follow the settings.
LEMMA OpensFollow ==
  ASSUME NEW t, NEW u, SameSettings(t, u), Opens(t, u.listen4, u.listen6, u.listen_port),
         \A r \in u.ranges : RangeAgrees(u.used, r[1], r[2])
  PROVE  /\ PortInv(u)
         /\ (u.dht_port # 0 => BindAddressesOrNull(u)[1] # NoAddress /\ ~u.block_udp) => ListenFollows(u)
<1>1. u.block_incoming = t.block_incoming /\ ListenAddresses(u) = ListenAddresses(t)
  BY SameChoices, Zenon DEF SameSettings
<1> QED BY <1>1 DEF Opens, PortInv, ListenFollows, IsListening

LEMMA SettingKeeps ==
  ASSUME ConfigInv(nc), ~Lone6, SetBlock \/ SetBindAddress \/ SetBindFamily
  PROVE  ConfigInv(nc')
<1>1. nc \in ConfigState /\ ProxyInv(nc) /\ ~nc.thrown
  BY DEF ConfigInv
<1>2. PICK v \in ConfigState :
        /\ nc' = NotifyChanges(v) /\ ~LoneInet6(v)
        /\ SamePorts(nc, v) /\ SameProxy(nc, v) /\ v.thrown = nc.thrown
        /\ v.block_udp = nc.block_udp /\ v.block_incoming = nc.block_incoming
  <2>1. CASE SetBlock
    <3> DEFINE blocks(v) ==
          /\ v \in ConfigState /\ SamePorts(nc, v) /\ SameProxy(nc, v) /\ v.thrown = nc.thrown
          /\ v.block_udp = nc.block_udp /\ v.block_incoming = nc.block_incoming
    <3>1. blocks([nc EXCEPT !.block_ipv4 = ~@])
      <4>1. \A b \in BOOLEAN : blocks([nc EXCEPT !.block_ipv4 = b])
        BY <1>1 DEF ConfigState, SamePorts, SameProxy
      <4> HIDE DEF blocks
      <4> QED BY <4>1, Zenon
    <3>2. blocks([nc EXCEPT !.block_ipv6 = ~@])
      <4>1. \A b \in BOOLEAN : blocks([nc EXCEPT !.block_ipv6 = b])
        BY <1>1 DEF ConfigState, SamePorts, SameProxy
      <4> HIDE DEF blocks
      <4> QED BY <4>1, Zenon
    <3>3. blocks([nc EXCEPT !.block_ipv4in6 = ~@])
      <4>1. \A b \in BOOLEAN : blocks([nc EXCEPT !.block_ipv4in6 = b])
        BY <1>1 DEF ConfigState, SamePorts, SameProxy
      <4> HIDE DEF blocks
      <4> QED BY <4>1, Zenon
    <3>4. PICK v : blocks(v) /\ Allowed(v) /\ nc' = NotifyChanges(v)
      <4> HIDE DEF blocks
      <4> QED BY <2>1, <3>1, <3>2, <3>3, Zenon DEF SetBlock
    <3> QED BY <3>4 DEF Allowed
  <2>2. CASE SetBindAddress
    <3>1. PICK a \in Inet : nc' = NotifyChanges([nc EXCEPT !.bind4 = a, !.bind6 = "unspec"])
      BY <2>2, Zenon DEF SetBindAddress, Inet
    <3> DEFINE v == [nc EXCEPT !.bind4 = a, !.bind6 = "unspec"]
    <3>2. /\ v \in ConfigState /\ SamePorts(nc, v) /\ SameProxy(nc, v) /\ v.thrown = nc.thrown
          /\ v.block_udp = nc.block_udp /\ v.block_incoming = nc.block_incoming /\ v.bind6 = "unspec"
      BY <1>1, <3>1, ZenonT(60) DEF ConfigState, SamePorts, SameProxy, Inet6
    <3> HIDE DEF v
    <3>3. ~LoneInet6(v)
      BY <3>2 DEF LoneInet6, Bound6
    <3> QED BY <3>1, <3>2, <3>3, Zenon DEF v
  <2>3. CASE SetBindFamily
    <3>1. PICK v : /\ \/ \E a \in Inet : v = [nc EXCEPT !.bind4 = a]
                      \/ \E a \in Inet6 : v = [nc EXCEPT !.bind6 = a]
                   /\ Allowed(v) /\ nc' = NotifyChanges(v)
      BY <2>3 DEF SetBindFamily, Inet, Inet6
    <3>2. /\ v \in ConfigState /\ SamePorts(nc, v) /\ SameProxy(nc, v) /\ v.thrown = nc.thrown
          /\ v.block_udp = nc.block_udp /\ v.block_incoming = nc.block_incoming
      <4>1. ASSUME NEW a \in Inet, v = [nc EXCEPT !.bind4 = a]
            PROVE  /\ v \in ConfigState /\ SamePorts(nc, v) /\ SameProxy(nc, v) /\ v.thrown = nc.thrown
                   /\ v.block_udp = nc.block_udp /\ v.block_incoming = nc.block_incoming
        BY <1>1, <4>1 DEF ConfigState, SamePorts, SameProxy
      <4>2. ASSUME NEW a \in Inet6, v = [nc EXCEPT !.bind6 = a]
            PROVE  /\ v \in ConfigState /\ SamePorts(nc, v) /\ SameProxy(nc, v) /\ v.thrown = nc.thrown
                   /\ v.block_udp = nc.block_udp /\ v.block_incoming = nc.block_incoming
        BY <1>1, <4>2 DEF ConfigState, SamePorts, SameProxy
      <4> QED BY <3>1, <4>1, <4>2
    <3> QED BY <3>1, <3>2 DEF Allowed
  <2> QED BY <2>1, <2>2, <2>3
<1>3. /\ nc' \in ConfigState /\ nc'.timer /\ SamePorts(nc, nc') /\ SameProxy(nc, nc')
      /\ nc'.thrown = nc.thrown /\ nc'.block_udp = nc.block_udp /\ nc'.block_incoming = nc.block_incoming
  BY <1>2, ZenonT(60) DEF NotifyChanges, ConfigState, SamePorts, SameProxy
<1>4. ProxyInv(nc')
  BY <1>1, <1>3 DEF ProxyInv, SameProxy
<1>5. ~LoneInet6(nc')
  BY <1>2 DEF NotifyChanges, ConfigState, LoneInet6, Bound4, Bound6
<1> QED BY <1>1, <1>3, <1>4, <1>5, AnnouncedKeeps

LEMMA ProxyTyped ==
  ASSUME NEW t \in ConfigState, NEW p \in Proxies, NEW block \in BOOLEAN, NEW http \in HttpProxies,
         NEW on \in BOOLEAN
  PROVE  [t EXCEPT !.proxy = p, !.block_udp = block, !.block_incoming = block,
                   !.http_proxy = http, !.timer = on] \in ConfigState
<1> DEFINE v == [t EXCEPT !.proxy = p, !.http_proxy = http]
           w == [v EXCEPT !.block_udp = block]
           x == [w EXCEPT !.block_incoming = block]
<1>1. v \in ConfigState
  BY ZenonT(60) DEF ConfigState
<1>2. [t EXCEPT !.proxy = p, !.block_udp = block, !.block_incoming = block,
                !.http_proxy = http, !.timer = on] = [x EXCEPT !.timer = on]
  BY Zenon DEF ConfigState
<1> HIDE DEF v
<1>3. w \in ConfigState
  BY <1>1 DEF ConfigState
<1> HIDE DEF w
<1>4. x \in ConfigState
  BY <1>3 DEF ConfigState
<1> HIDE DEF x
<1>5. [x EXCEPT !.timer = on] \in ConfigState
  BY <1>4 DEF ConfigState
<1> QED BY <1>2, <1>5

LEMMA ProxyKeeps ==
  ASSUME ConfigInv(nc), SetProxy
  PROVE  ConfigInv(nc')
<1>1. nc \in ConfigState /\ ProxyInv(nc) /\ ~nc.thrown /\ ~LoneInet6(nc) /\ nc.http_url \in BOOLEAN
  BY DEF ConfigInv, ConfigState
<1>2. CASE nc' = UpdateProxy(nc)
  <2> DEFINE http == IF nc.http_url THEN nc.http_proxy ELSE "proxy"
             on == TRUE
             u == [nc EXCEPT !.proxy = "set", !.block_udp = on, !.block_incoming = on,
                             !.http_proxy = http, !.timer = on]
  <2>1. on \in BOOLEAN /\ http \in HttpProxies
    BY <1>1 DEF ConfigState, HttpProxies
  <2>2. nc' = u
    BY <1>1, <1>2 DEF UpdateProxy, NotifyChanges, ConfigState
  <2>3. http = IF nc.http_url THEN "own" ELSE "proxy"
    BY <1>1 DEF ProxyInv
  <2> HIDE DEF http, on
  <2>4. /\ u.timer = on /\ u.thrown = nc.thrown
        /\ u.block_ipv4 = nc.block_ipv4 /\ u.block_ipv6 = nc.block_ipv6 /\ u.block_ipv4in6 = nc.block_ipv4in6
        /\ u.bind4 = nc.bind4 /\ u.bind6 = nc.bind6
        /\ u.proxy = "set" /\ u.block_udp = on /\ u.block_incoming = on
        /\ u.http_proxy = http /\ u.http_url = nc.http_url
    BY <1>1 DEF ConfigState
  <2>8. u \in ConfigState
    <3>1. "set" \in Proxies /\ "cleared" \in Proxies
      BY DEF Proxies
    <3> QED BY <1>1, <2>1, <3>1, ProxyTyped, Zenon
  <2>9. SamePorts(nc, u)
    BY <1>1 DEF ConfigState, SamePorts
  <2> HIDE DEF u
  <2>5. ProxyInv(u)
    BY <2>3, <2>4, Zenon DEF ProxyInv, on
  <2>6. ~LoneInet6(u)
    BY <1>1, <2>4 DEF LoneInet6, Bound4, Bound6
  <2>7. u.timer
    BY <2>4 DEF on
  <2> QED BY <1>1, <2>2, <2>4, <2>5, <2>6, <2>7, <2>8, <2>9, AnnouncedKeeps
<1>3. CASE nc' = ClearProxy(nc) /\ nc.proxy # "cleared"
  <2> DEFINE http == IF nc.http_url THEN nc.http_proxy ELSE NoAddress
             on == TRUE
             off == FALSE
             u == [nc EXCEPT !.proxy = "cleared", !.block_udp = off, !.block_incoming = off,
                             !.http_proxy = http, !.timer = on]
  <2>1. on \in BOOLEAN /\ off \in BOOLEAN /\ http \in HttpProxies
    BY <1>1 DEF ConfigState, HttpProxies
  <2>2. nc' = u
    BY <1>1, <1>3, Zenon DEF ClearProxy, NotifyChanges, ConfigState
  <2>3. http = IF nc.http_url THEN "own" ELSE NoAddress
    BY <1>1 DEF ProxyInv
  <2> HIDE DEF http, on, off
  <2>4. /\ u.timer = on /\ u.thrown = nc.thrown
        /\ u.block_ipv4 = nc.block_ipv4 /\ u.block_ipv6 = nc.block_ipv6 /\ u.block_ipv4in6 = nc.block_ipv4in6
        /\ u.bind4 = nc.bind4 /\ u.bind6 = nc.bind6
        /\ u.proxy = "cleared" /\ u.block_udp = off /\ u.block_incoming = off
        /\ u.http_proxy = http /\ u.http_url = nc.http_url
    BY <1>1 DEF ConfigState
  <2>8. u \in ConfigState
    <3>1. "set" \in Proxies /\ "cleared" \in Proxies
      BY DEF Proxies
    <3> QED BY <1>1, <2>1, <3>1, ProxyTyped, Zenon
  <2>9. SamePorts(nc, u)
    BY <1>1 DEF ConfigState, SamePorts
  <2> HIDE DEF u
  <2>5. ProxyInv(u)
    BY <2>3, <2>4, Zenon DEF ProxyInv, off
  <2>6. ~LoneInet6(u)
    BY <1>1, <2>4 DEF LoneInet6, Bound4, Bound6
  <2>7. u.timer
    BY <2>4 DEF on
  <2> QED BY <1>1, <2>2, <2>4, <2>5, <2>6, <2>7, <2>8, <2>9, AnnouncedKeeps
<1>4. CASE nc' = ClearProxy(nc) /\ nc.proxy = "cleared"
  <2>1. (IF nc.http_url THEN nc.http_proxy ELSE NoAddress) = nc.http_proxy
    BY <1>1, <1>4 DEF ProxyInv
  <2> DEFINE p == nc.proxy
             h == nc.http_proxy
  <2>2. nc' = [nc EXCEPT !.proxy = p, !.http_proxy = h]
    BY <1>4, <2>1, Zenon DEF ClearProxy
  <2> HIDE DEF p, h
  <2>3. [nc EXCEPT !.proxy = p, !.http_proxy = h] \in ConfigState
    BY <1>1, ZenonT(60) DEF ConfigState, p, h
  <2>4. nc' = nc
    BY <1>1, <2>2, <2>3, Zenon DEF ConfigState, p, h
  <2> QED BY <2>4
<1> QED BY <1>2, <1>3, <1>4 DEF SetProxy

LEMMA HttpUrlKeeps ==
  ASSUME ConfigInv(nc), SetHttpProxyUrl
  PROVE  ConfigInv(nc')
<1>1. nc \in ConfigState /\ ProxyInv(nc) /\ PortInv(nc) /\ PendingInv(nc)
  BY DEF ConfigInv
<1> DEFINE u == [nc EXCEPT !.http_url = TRUE, !.http_proxy = "own"]
<1>2. /\ u \in ConfigState /\ SameSettings(nc, u) /\ SamePorts(nc, u)
      /\ u.timer = nc.timer /\ u.router = nc.router /\ u.thrown = nc.thrown /\ u.posted = nc.posted
      /\ u.dht_port = nc.dht_port /\ u.proxy = nc.proxy /\ u.http_url = TRUE /\ u.http_proxy = "own"
  BY <1>1, ZenonT(60) DEF HttpProxies, ConfigState, SameSettings, SamePorts
<1>3. nc' = u
  BY DEF SetHttpProxyUrl
<1> HIDE DEF u
<1>4. ProxyInv(u)
  BY <1>1, <1>2 DEF ProxyInv, SameSettings
<1>5. PortInv(u)
  BY <1>1, <1>2 DEF PortInv, IsListening, SamePorts
<1>6. ListenFollows(nc) => ListenFollows(u)
  BY <1>2, SameChoices, Zenon DEF ListenFollows, IsListening, SamePorts, SameSettings
<1>7. ~u.timer /\ "main" \notin u.posted => ListenFollows(u)
  BY <1>1, <1>2, <1>6 DEF PendingInv
<1> QED BY <1>2, <1>3, <1>4, <1>5, <1>7, RestartKeeps

\* The sockets and the DHT server after a call or a callback that restarts them.
Restarted(t, a, b, port, override, dht) ==
  [t EXCEPT !.listen4 = a, !.listen6 = b, !.listen_port = port, !.override_dht_port = override, !.dht_port = dht]

LEMMA RestartedFacts ==
  ASSUME NEW t \in ConfigState, NEW a \in Ports \cup {Closed}, NEW b \in Ports \cup {Closed},
         NEW port \in Ports, NEW override \in Ports, NEW dht \in Ports
  PROVE  LET u == Restarted(t, a, b, port, override, dht) IN
         /\ u \in ConfigState /\ SameSettings(t, u) /\ SameProxy(t, u)
         /\ u.timer = t.timer /\ u.router = t.router /\ u.thrown = t.thrown /\ u.posted = t.posted
         /\ u.ranges = t.ranges /\ u.used = t.used
         /\ u.listen4 = a /\ u.listen6 = b /\ u.listen_port = port /\ u.dht_port = dht
  BY ZenonT(60) DEF Restarted, ConfigState, SameSettings, SameProxy

DhtAllowed(t) == BindAddressesOrNull(t)[1] # NoAddress /\ ~t.block_udp

LEMMA RestartedKeeps ==
  ASSUME NEW t, ConfigInv(t), NEW a \in Ports \cup {Closed}, NEW b \in Ports \cup {Closed},
         NEW port \in Ports, NEW override \in Ports, NEW dht \in Ports,
         Opens(t, a, b, port) \/ (a = t.listen4 /\ b = t.listen6 /\ port = t.listen_port),
         dht # 0 => dht = t.dht_port \/ DhtAllowed(t)
  PROVE  ConfigInv(Restarted(t, a, b, port, override, dht))
<1> DEFINE u == Restarted(t, a, b, port, override, dht)
<1>1. t \in ConfigState /\ PortInv(t) /\ PendingInv(t)
  BY DEF ConfigInv
<1>2. /\ u \in ConfigState /\ SameSettings(t, u) /\ SameProxy(t, u)
      /\ u.timer = t.timer /\ u.router = t.router /\ u.thrown = t.thrown /\ u.posted = t.posted
      /\ u.ranges = t.ranges /\ u.used = t.used
      /\ u.listen4 = a /\ u.listen6 = b /\ u.listen_port = port /\ u.dht_port = dht
  BY <1>1, ZenonT(60) DEF Restarted, ConfigState, SameSettings, SameProxy
<1> HIDE DEF u
<1>3. \A r \in u.ranges : RangeAgrees(u.used, r[1], r[2])
  BY <1>1, <1>2 DEF PortInv
<1>4. ListenFollows(t) => (u.dht_port # 0 => BindAddressesOrNull(u)[1] # NoAddress /\ ~u.block_udp)
  <2>1. BindAddressesOrNull(u) = BindAddressesOrNull(t) /\ u.block_udp = t.block_udp
    BY <1>2, SameChoices, Zenon DEF SameSettings
  <2> QED BY <1>2, <2>1 DEF ListenFollows, DhtAllowed
<1>5. CASE Opens(t, a, b, port)
  <2>1. Opens(t, u.listen4, u.listen6, u.listen_port)
    BY <1>2, <1>5
  <2>2. PortInv(u) /\ (ListenFollows(t) => ListenFollows(u))
    BY <1>2, <1>3, <1>4, <2>1, OpensFollow
  <2>3. ~u.timer /\ "main" \notin u.posted => ListenFollows(u)
    BY <1>1, <1>2, <2>2 DEF PendingInv
  <2> QED BY <1>2, <2>2, <2>3, RestartKeeps DEF u
<1>6. CASE a = t.listen4 /\ b = t.listen6 /\ port = t.listen_port
  <2>1. PortInv(u)
    BY <1>1, <1>2, <1>3, <1>6, SMTT(60) DEF PortInv, IsListening
  <2>2. ListenFollows(t) => ListenFollows(u)
    <3>1. ListenAddresses(u) = ListenAddresses(t) /\ u.block_incoming = t.block_incoming
      BY <1>2, SameChoices, Zenon DEF SameSettings
    <3> QED BY <1>2, <1>4, <1>6, <3>1 DEF ListenFollows, IsListening
  <2>3. ~u.timer /\ "main" \notin u.posted => ListenFollows(u)
    BY <1>1, <1>2, <2>2 DEF PendingInv
  <2> QED BY <1>2, <2>1, <2>3, RestartKeeps, SMTT(60) DEF u
<1> QED BY <1>5, <1>6

LEMMA ClientListensKeeps ==
  ASSUME ConfigInv(nc), ClientListens
  PROVE  ConfigInv(nc')
<1>1. nc \in ConfigState /\ PortInv(nc) /\ nc.override_dht_port \in Ports /\ nc.dht_port \in Ports
  BY DEF ConfigInv, ConfigState
<1>2. PICK r \in nc.ranges : ~IsListening(nc) /\ ~nc.block_incoming /\ nc' = ListenOpen(nc, r[1], r[2])
  BY DEF ClientListens
<1>3. r[1] \in Ports /\ r[2] \in Ports /\ RangeAgrees(nc.used, r[1], r[2])
  BY <1>1 DEF ConfigState, PortInv
<1>4. PICK a \in Ports \cup {Closed}, b \in Ports \cup {Closed}, port \in Ports :
           /\ ListenOpen(nc, r[1], r[2]) = Listens(nc, a, b, port)
           /\ a # Closed => ListenAddresses(nc)[1] # NoAddress
           /\ b # Closed => ListenAddresses(nc)[2] # NoAddress
           /\ a # Closed /\ b # Closed => a = b
           /\ a # Closed \/ b # Closed => port \in {a, b}
  BY <1>1, <1>2, <1>3, ListenOpens, ZenonT(60)
<1>5. Opens(nc, a, b, port)
  BY <1>2, <1>4 DEF Opens
<1>6. Listens(nc, a, b, port) = Restarted(nc, a, b, port, nc.override_dht_port, nc.dht_port)
  BY <1>1, Zenon DEF Listens, Restarted, ConfigState
<1>7. ConfigInv(Restarted(nc, a, b, port, nc.override_dht_port, nc.dht_port))
  BY <1>1, <1>5, RestartedKeeps, Zenon
<1> QED BY <1>2, <1>4, <1>6, <1>7

LEMMA SetListenPortKeeps ==
  ASSUME ConfigInv(nc), SetListenPort
  PROVE  ConfigInv(nc')
<1>1. nc \in ConfigState /\ nc.override_dht_port \in Ports /\ nc.dht_port \in Ports
  BY DEF ConfigInv, ConfigState
<1>2. PICK r \in nc.ranges :
        LET t == ListenRestart([nc EXCEPT !.listen_port = r[1]])
        IN  nc' = IF t.override_dht_port = 0 THEN DhtRestart(t) ELSE t
  BY SMTT(60) DEF SetListenPort
<1> DEFINE first == r[1]
           v == [nc EXCEPT !.listen_port = first]
           t == ListenRestart(v)
<1>3. first \in Ports
  BY <1>1 DEF ConfigState
<1>4. nc' = IF t.override_dht_port = 0 THEN DhtRestart(t) ELSE t
  BY <1>2
<1> HIDE DEF first
<1>5. v \in ConfigState /\ SameSettings(nc, v)
  BY <1>1, <1>3 DEF ConfigState, SameSettings
<1>6. \A a, b, port : Listens(v, a, b, port) = Restarted(nc, a, b, port, nc.override_dht_port, nc.dht_port)
  BY <1>1, ZenonT(60) DEF Listens, Restarted, ConfigState
<1> HIDE DEF v
<1>7. PICK a \in Ports \cup {Closed}, b \in Ports \cup {Closed}, port \in Ports :
        t = Listens(v, a, b, port) /\ Opens(v, a, b, port)
  BY <1>5, RestartOpens
<1>8. Opens(nc, a, b, port)
  <2>1. ListenAddresses(v) = ListenAddresses(nc) /\ v.block_incoming = nc.block_incoming
    BY <1>5, SameChoices, Zenon DEF SameSettings
  <2> QED BY <1>7, <2>1 DEF Opens
<1>9. t = Restarted(nc, a, b, port, nc.override_dht_port, nc.dht_port)
  BY <1>6, <1>7
<1> HIDE DEF t
<1>10. CASE nc' = t
  <2>1. ConfigInv(Restarted(nc, a, b, port, nc.override_dht_port, nc.dht_port))
    BY <1>1, <1>8, RestartedKeeps, Zenon
  <2> QED BY <1>9, <1>10, <2>1
<1>11. CASE nc' = DhtRestart(t)
  <2>1. t \in ConfigState /\ SameSettings(nc, t)
    BY <1>1, <1>9, RestartedFacts, Zenon
  <2>2. PICK dht \in Ports : /\ DhtRestart(t) = [t EXCEPT !.dht_port = dht]
                             /\ dht # 0 => BindAddressesOrNull(t)[1] # NoAddress /\ ~t.block_udp
    BY <2>1, DhtRestarts
  <2>3. BindAddressesOrNull(t) = BindAddressesOrNull(nc) /\ t.block_udp = nc.block_udp
    BY <2>1, SameChoices, Zenon DEF SameSettings
  <2>4. [t EXCEPT !.dht_port = dht] = Restarted(nc, a, b, port, nc.override_dht_port, dht)
    BY <1>1, <1>9, Zenon DEF Restarted, ConfigState
  <2>5. ConfigInv(Restarted(nc, a, b, port, nc.override_dht_port, dht))
    BY <1>1, <1>8, <2>2, <2>3, RestartedKeeps, Zenon DEF DhtAllowed
  <2> QED BY <1>11, <2>2, <2>4, <2>5
<1> QED BY <1>4, <1>10, <1>11

LEMMA SetDhtPortKeeps ==
  ASSUME ConfigInv(nc), SetDhtPort
  PROVE  ConfigInv(nc')
<1>1. /\ nc \in ConfigState /\ nc.override_dht_port \in Ports /\ nc.dht_port \in Ports
      /\ nc.listen4 \in Ports \cup {Closed} /\ nc.listen6 \in Ports \cup {Closed} /\ nc.listen_port \in Ports
  BY DEF ConfigInv, ConfigState
<1>2. PICK port \in {0} \cup {r[1] : r \in nc.ranges} :
        LET t == [nc EXCEPT !.override_dht_port = port] IN nc' = IF port # 0 THEN DhtRestart(t) ELSE t
  BY DEF SetDhtPort
<1> DEFINE t == [nc EXCEPT !.override_dht_port = port]
<1>3. port \in Ports
  BY <1>1, ConfigAssumption DEF ConfigState, Ports
<1>4. \A dht : [t EXCEPT !.dht_port = dht]
                 = Restarted(nc, nc.listen4, nc.listen6, nc.listen_port, port, dht)
  BY <1>1, Zenon DEF Restarted, ConfigState
<1>5. t = Restarted(nc, nc.listen4, nc.listen6, nc.listen_port, port, nc.dht_port)
  BY <1>1, Zenon DEF Restarted, ConfigState
<1>6. t \in ConfigState /\ SameSettings(nc, t)
  BY <1>1, <1>3 DEF ConfigState, SameSettings
<1>7. nc' = t \/ nc' = DhtRestart(t)
  BY <1>2
<1> HIDE DEF t
<1>8. CASE nc' = t
  <2>1. ConfigInv(Restarted(nc, nc.listen4, nc.listen6, nc.listen_port, port, nc.dht_port))
    BY <1>1, <1>3, RestartedKeeps, SMTT(60)
  <2> QED BY <1>5, <1>8, <2>1
<1>9. CASE nc' = DhtRestart(t)
  <2>1. PICK dht \in Ports : /\ DhtRestart(t) = [t EXCEPT !.dht_port = dht]
                             /\ dht # 0 => BindAddressesOrNull(t)[1] # NoAddress /\ ~t.block_udp
    BY <1>6, DhtRestarts
  <2>2. BindAddressesOrNull(t) = BindAddressesOrNull(nc) /\ t.block_udp = nc.block_udp
    BY <1>6, SameChoices, Zenon DEF SameSettings
  <2>3. ConfigInv(Restarted(nc, nc.listen4, nc.listen6, nc.listen_port, port, dht))
    BY <1>1, <1>3, <2>1, <2>2, RestartedKeeps, SMTT(60) DEF DhtAllowed
  <2> QED BY <1>4, <1>9, <2>1, <2>3
<1> QED BY <1>7, <1>8, <1>9

LEMMA ClientStartsDhtKeeps ==
  ASSUME ConfigInv(nc), ClientStartsDht
  PROVE  ConfigInv(nc')
<1>1. /\ nc \in ConfigState /\ nc.override_dht_port \in Ports /\ nc.dht_port \in Ports
      /\ nc.listen4 \in Ports \cup {Closed} /\ nc.listen6 \in Ports \cup {Closed} /\ nc.listen_port \in Ports
  BY DEF ConfigInv, ConfigState
<1>2. nc' = DhtStart(nc)
  BY DEF ClientStartsDht
<1>3. PICK dht \in Ports : /\ DhtStart(nc) = [nc EXCEPT !.dht_port = dht]
                           /\ dht # 0 => BindAddressesOrNull(nc)[1] # NoAddress /\ ~nc.block_udp
  BY <1>1, DhtStarts
<1>4. [nc EXCEPT !.dht_port = dht]
        = Restarted(nc, nc.listen4, nc.listen6, nc.listen_port, nc.override_dht_port, dht)
  BY <1>1, Zenon DEF Restarted, ConfigState
<1>5. ConfigInv(Restarted(nc, nc.listen4, nc.listen6, nc.listen_port, nc.override_dht_port, dht))
  BY <1>1, <1>3, RestartedKeeps, Zenon DEF DhtAllowed
<1> QED BY <1>2, <1>3, <1>4, <1>5

-----------------------------------------------------------------------------
(* The timer and the callbacks it posts.                                   *)

LEMMA NotifyKeeps ==
  ASSUME ConfigInv(nc), NotifySubscribers
  PROVE  ConfigInv(nc')
<1> DEFINE threads == {"main", "tracker"}
           no == FALSE
           v == [nc EXCEPT !.timer = no]
           u == [v EXCEPT !.posted = threads]
<1>1. nc \in ConfigState /\ nc' = u /\ no \in BOOLEAN
  BY DEF ConfigInv, NotifySubscribers, ConfigState
<1>2. v \in ConfigState
  <2> HIDE DEF no
  <2> QED BY <1>1 DEF ConfigState
<1>3. u \in ConfigState /\ u.posted = threads
  <2> HIDE DEF v
  <2> QED BY <1>2 DEF ConfigState
<1>4. /\ SameSettings(nc, u) /\ SameProxy(nc, u) /\ u.thrown = nc.thrown /\ u.ranges = nc.ranges
      /\ u.used = nc.used /\ u.listen4 = nc.listen4 /\ u.listen6 = nc.listen6
      /\ u.listen_port = nc.listen_port
  BY <1>1 DEF ConfigState, SameSettings, SameProxy
<1> HIDE DEF v, u
<1>5. PortInv(u)
  BY <1>4 DEF ConfigInv, PortInv, IsListening
<1>6. PendingInv(u)
  BY <1>3 DEF PendingInv
<1>7. ProxyInv(u)
  BY <1>4 DEF ConfigInv, ProxyInv, SameProxy, SameSettings
<1>8. ~LoneInet6(u)
  BY <1>4 DEF ConfigInv, LoneInet6, Bound4, Bound6, SameSettings
<1> QED BY <1>1, <1>3, <1>4, <1>5, <1>6, <1>7, <1>8 DEF ConfigInv

LEMMA MainRestartsKeeps ==
  ASSUME ConfigInv(nc), MainRestarts
  PROVE  ConfigInv(nc')
<1>1. nc \in ConfigState /\ nc.override_dht_port \in Ports /\ nc.dht_port \in Ports /\ PortInv(nc)
  BY DEF ConfigInv, ConfigState
<1> DEFINE t == ListenRestart(nc)
<1>2. PICK a \in Ports \cup {Closed}, b \in Ports \cup {Closed}, port \in Ports :
        t = Listens(nc, a, b, port) /\ Opens(nc, a, b, port)
  BY <1>1, RestartOpens
<1>3. t = Restarted(nc, a, b, port, nc.override_dht_port, nc.dht_port)
  BY <1>1, <1>2, Zenon DEF Listens, Restarted, ConfigState
<1> HIDE DEF t
<1>4. t \in ConfigState /\ SameSettings(nc, t)
  BY <1>1, <1>3, RestartedFacts, Zenon
<1>5. PICK dht \in Ports : /\ DhtRestart(t) = [t EXCEPT !.dht_port = dht]
                           /\ dht # 0 => BindAddressesOrNull(t)[1] # NoAddress /\ ~t.block_udp
  BY <1>4, DhtRestarts
<1> DEFINE v == Restarted(nc, a, b, port, nc.override_dht_port, dht)
           rest == nc.posted \ {"main"}
           u == [v EXCEPT !.posted = rest]
<1>6. DhtRestart(t) = v
  BY <1>1, <1>3, <1>5, Zenon DEF Restarted, ConfigState
<1>7. /\ v \in ConfigState /\ SameSettings(nc, v) /\ SameProxy(nc, v)
      /\ v.timer = nc.timer /\ v.router = nc.router /\ v.thrown = nc.thrown /\ v.posted = nc.posted
      /\ v.ranges = nc.ranges /\ v.used = nc.used
      /\ v.listen4 = a /\ v.listen6 = b /\ v.listen_port = port /\ v.dht_port = dht
  BY <1>1, ZenonT(60) DEF Restarted, ConfigState, SameSettings, SameProxy
<1>8. nc' = u /\ rest \in SUBSET {"main", "tracker"}
  BY <1>1, <1>6, <1>7 DEF MainRestarts, t, ConfigState
<1> HIDE DEF v
<1>9. "tracker" \in rest <=> "tracker" \in nc.posted
  OBVIOUS
<1>10. /\ u \in ConfigState /\ SameSettings(nc, u) /\ SameProxy(nc, u)
       /\ u.timer = nc.timer /\ u.router = nc.router /\ u.thrown = nc.thrown /\ u.posted = rest
       /\ u.ranges = nc.ranges /\ u.used = nc.used
       /\ u.listen4 = a /\ u.listen6 = b /\ u.listen_port = port /\ u.dht_port = dht
  <2> HIDE DEF rest
  <2> QED BY <1>7, <1>8 DEF ConfigState, SameSettings, SameProxy
<1> HIDE DEF u, rest
<1>11. BindAddressesOrNull(t) = BindAddressesOrNull(nc) /\ t.block_udp = nc.block_udp
  BY <1>4, SameChoices, Zenon DEF SameSettings
<1>12. BindAddressesOrNull(u) = BindAddressesOrNull(nc) /\ u.block_udp = nc.block_udp
  BY <1>10, SameChoices, Zenon DEF SameSettings
<1>13. PortInv(u) /\ ListenFollows(u)
  <2>1. Opens(nc, u.listen4, u.listen6, u.listen_port)
    BY <1>2, <1>10
  <2>2. \A r \in u.ranges : RangeAgrees(u.used, r[1], r[2])
    BY <1>1, <1>10 DEF PortInv
  <2>3. u.dht_port # 0 => BindAddressesOrNull(u)[1] # NoAddress /\ ~u.block_udp
    BY <1>5, <1>10, <1>11, <1>12
  <2> QED BY <1>10, <2>1, <2>2, <2>3, OpensFollow
<1>14. ConfigInv(u)
  BY <1>9, <1>10, <1>13, RestartKeeps
<1> QED BY <1>8, <1>14

LEMMA TrackerRebindsKeeps ==
  ASSUME ConfigInv(nc), TrackerRebinds
  PROVE  ConfigInv(nc')
<1>1. /\ nc \in ConfigState /\ PortInv(nc) /\ PendingInv(nc) /\ ProxyInv(nc) /\ ~LoneInet6(nc) /\ ~nc.thrown
      /\ nc.router \in [{4, 6} -> Addresses]
  BY DEF ConfigInv, ConfigState
<1> DEFINE a4 == AddressForConnect(nc, 4, TRUE)
           a6 == AddressForConnect(nc, 6, TRUE)
           v == [nc EXCEPT !.router[4] = a4]
           w == [v EXCEPT !.router[6] = a6]
           rest == nc.posted \ {"tracker"}
           u == [w EXCEPT !.posted = rest]
<1>2. UpdateRouter(nc, 4) = v /\ a4 \in Addresses /\ a6 \in Addresses
  BY <1>1, RouterUpdates, Zenon
<1> HIDE DEF a4, a6
<1>3. v \in ConfigState /\ SameSettings(nc, v) /\ v.router = [nc.router EXCEPT ![4] = a4]
  <2> DEFINE r == [nc.router EXCEPT ![4] = a4]
  <2>1. r \in [{4, 6} -> Addresses] /\ v = [nc EXCEPT !.router = r]
    BY <1>1, <1>2
  <2> HIDE DEF r, v
  <2>2. [nc EXCEPT !.router = r] \in ConfigState /\ SameSettings(nc, [nc EXCEPT !.router = r])
        /\ [nc EXCEPT !.router = r].router = r
    BY <1>1, <2>1 DEF ConfigState, SameSettings
  <2> QED BY <2>1, <2>2 DEF r
<1>4. UpdateRouter(v, 6) = w
  <2> HIDE DEF v
  <2>1. AddressForConnect(v, 6, TRUE) = AddressForConnect(nc, 6, TRUE) /\ (LoneInet6(v) <=> LoneInet6(nc))
    BY <1>3, SameChoices, Zenon
  <2>2. UpdateRouter(v, 6) = [v EXCEPT !.router[6] = AddressForConnect(v, 6, TRUE)]
    BY <1>1, <1>3, <2>1, RouterUpdates, Zenon
  <2> QED BY <2>1, <2>2, Zenon DEF a6
<1> DEFINE routers == [f \in {4, 6} |-> IF f = 4 THEN a4 ELSE a6]
           x == [[nc EXCEPT !.router = routers] EXCEPT !.posted = rest]
<1>5. w = [nc EXCEPT !.router = routers]
  <2>1. [[nc.router EXCEPT ![4] = a4] EXCEPT ![6] = a6] = routers
    BY <1>1
  <2>2. w = [nc EXCEPT !.router = [[nc.router EXCEPT ![4] = a4] EXCEPT ![6] = a6]]
    BY <1>1, Zenon DEF ConfigState
  <2> QED BY <2>1, <2>2
<1>6. /\ routers \in [{4, 6} -> Addresses] /\ rest \in SUBSET {"main", "tracker"}
      /\ "main" \in rest <=> "main" \in nc.posted
  BY <1>1, <1>2 DEF ConfigState
<1>7. nc' = x
  <2>1. nc' = [w EXCEPT !.posted = @ \ {"tracker"}] /\ w.posted = nc.posted
    BY <1>1, <1>2, <1>4, <1>5, Zenon DEF TrackerRebinds, ConfigState
  <2> QED BY <1>5, <2>1, Zenon
<1>8. routers[4] = a4 /\ routers[6] = a6
  OBVIOUS
<1> HIDE DEF routers, rest
<1>9. /\ x \in ConfigState /\ SameSettings(nc, x) /\ SameProxy(nc, x) /\ SamePorts(nc, x)
      /\ x.timer = nc.timer /\ x.router = routers /\ x.thrown = nc.thrown /\ x.posted = rest
      /\ x.dht_port = nc.dht_port
  BY <1>1, <1>6, ZenonT(60) DEF ConfigState, SameSettings, SameProxy, SamePorts
<1> HIDE DEF x
<1>10. PortInv(x)
  BY <1>1, <1>9 DEF PortInv, IsListening, SamePorts
<1>11. ListenFollows(nc) => ListenFollows(x)
  <2>1. /\ ListenAddresses(x) = ListenAddresses(nc) /\ BindAddressesOrNull(x) = BindAddressesOrNull(nc)
        /\ x.block_udp = nc.block_udp /\ x.block_incoming = nc.block_incoming
    BY <1>9, SameChoices, Zenon DEF SameSettings
  <2> QED BY <1>9, <2>1 DEF ListenFollows, IsListening, SamePorts
<1>12. RouterFollows(x)
  <2>1. AddressForConnect(x, 4, TRUE) = a4 /\ AddressForConnect(x, 6, TRUE) = a6
    BY <1>9, SameChoices, Zenon DEF a4, a6
  <2> QED BY <1>8, <1>9, <2>1, Zenon DEF RouterFollows
<1>13. PendingInv(x)
  BY <1>1, <1>6, <1>9, <1>11, <1>12 DEF PendingInv
<1>14. ProxyInv(x) /\ ~LoneInet6(x)
  BY <1>1, <1>9, SameChoices, Zenon DEF ProxyInv, SameProxy, SameSettings
<1> QED BY <1>1, <1>7, <1>9, <1>10, <1>13, <1>14 DEF ConfigInv

-----------------------------------------------------------------------------
(* The first state, and what the invariant says of the addresses.          *)

LEMMA ConfigStarts ==
  ASSUME ConfigInit, PortsAgree
  PROVE  ConfigInv(nc)
<1>1. PICK scene \in PortScenes :
  nc = [block_ipv4 |-> FALSE, block_ipv6 |-> FALSE, block_ipv4in6 |-> FALSE, prefer_ipv6 |-> FALSE,
        block_udp |-> FALSE, block_incoming |-> FALSE, bind4 |-> "unspec", bind6 |-> "unspec",
        proxy |-> "initial", http_url |-> FALSE, http_proxy |-> NoAddress,
        timer |-> FALSE, posted |-> {}, listen4 |-> Closed, listen6 |-> Closed, listen_port |-> 0,
        override_dht_port |-> 0, dht_port |-> 0, router |-> [f \in {4, 6} |-> IF f = 4 THEN "any4" ELSE "any6"],
        ranges |-> scene[1], used |-> scene[2], thrown |-> FALSE]
  BY Zenon DEF ConfigInit
<1> DEFINE routers == [f \in {4, 6} |-> IF f = 4 THEN "any4" ELSE "any6"]
           no == FALSE
           nobody == {}
<1>2. routers \in [{4, 6} -> Addresses] /\ routers[4] = "any4" /\ routers[6] = "any6"
  BY DEF Addresses
<1>3. /\ scene[1] \in SUBSET (Ports \X Ports) /\ scene[2] \in SUBSET (Nat \X Nat)
      /\ \A r \in scene[1] : RangeAgrees(scene[2], r[1], r[2])
  BY ConfigAssumption DEF Ports, PortsAgree
<1>4. /\ 0 \in Ports /\ "unspec" \in Inet /\ "unspec" \in Inet6 /\ "initial" \in Proxies
      /\ NoAddress \in HttpProxies /\ nobody \in SUBSET {"main", "tracker"} /\ no \in BOOLEAN
  BY ConfigAssumption DEF Ports, Inet, Inet6, Proxies, HttpProxies
<1>5. nc = [block_ipv4 |-> no, block_ipv6 |-> no, block_ipv4in6 |-> no, prefer_ipv6 |-> no,
        block_udp |-> no, block_incoming |-> no, bind4 |-> "unspec", bind6 |-> "unspec",
        proxy |-> "initial", http_url |-> no, http_proxy |-> NoAddress,
        timer |-> no, posted |-> nobody, listen4 |-> Closed, listen6 |-> Closed, listen_port |-> 0,
        override_dht_port |-> 0, dht_port |-> 0, router |-> routers,
        ranges |-> scene[1], used |-> scene[2], thrown |-> no]
  BY <1>1
<1>6. /\ ~nc.block_ipv4 /\ ~nc.block_ipv6 /\ ~nc.block_ipv4in6 /\ ~nc.block_udp /\ ~nc.block_incoming
      /\ nc.bind4 = "unspec" /\ nc.bind6 = "unspec" /\ nc.proxy = "initial" /\ ~nc.http_url
      /\ nc.http_proxy = NoAddress /\ nc.listen4 = Closed /\ nc.listen6 = Closed /\ nc.dht_port = 0
      /\ nc.router = routers /\ nc.ranges = scene[1] /\ nc.used = scene[2] /\ ~nc.thrown
  BY <1>5
<1>7. nc \in ConfigState
  <2> HIDE DEF no, nobody, routers
  <2> QED BY <1>2, <1>3, <1>4, <1>5 DEF ConfigState
<1> HIDE DEF routers
<1>8. PortInv(nc)
  BY <1>3, <1>6, SMTT(60) DEF PortInv, IsListening
<1>9. ListenFollows(nc)
  BY <1>6 DEF ListenFollows, IsListening
<1>10. RouterFollows(nc)
  <2>1. AddressForConnect(nc, 4, TRUE) = "any4" /\ AddressForConnect(nc, 6, TRUE) = "any6"
    BY <1>6 DEF AddressForConnect, ConnectInet, ConnectInet6, Bound4, Bound6
  <2> QED BY <1>2, <1>6, <2>1, Zenon DEF RouterFollows
<1>11. ProxyInv(nc)
  <2>1. nc.block_udp = FALSE /\ nc.block_incoming = FALSE
    BY <1>1
  <2> QED BY <1>6, <2>1, Zenon DEF ProxyInv
<1>12. ~LoneInet6(nc)
  BY <1>6 DEF LoneInet6, Bound6
<1> QED BY <1>6, <1>7, <1>8, <1>9, <1>10, <1>11, <1>12 DEF ConfigInv, PendingInv

\* What the choosing functions may return, for any settings.
LEMMA ChoicesAllowed ==
  ASSUME ConfigInv(nc)
  PROVE  AddressesAllowed
<1>1. nc \in ConfigState
  BY DEF ConfigInv
<1> SUFFICES ASSUME NEW prefer \in BOOLEAN
             PROVE  Allows([nc EXCEPT !.prefer_ipv6 = prefer])
  BY DEF AddressesAllowed
<1> DEFINE t == [nc EXCEPT !.prefer_ipv6 = prefer]
<1>2. /\ t.bind4 = nc.bind4 /\ t.bind6 = nc.bind6 /\ t.block_ipv4 = nc.block_ipv4
      /\ t.block_ipv6 = nc.block_ipv6 /\ t.block_ipv4in6 = nc.block_ipv4in6
  BY <1>1 DEF ConfigState
<1>3. t.bind4 \in {"unspec", "addr4"} /\ t.bind6 \in {"unspec", "addr6"}
  BY <1>1, <1>2 DEF ConfigState, Inet, Inet6
<1> HIDE DEF t
<1>4. /\ Blocked(4) <=> t.block_ipv4
      /\ Blocked(6) <=> t.block_ipv6
  BY <1>2 DEF Blocked
<1>5. /\ Family("addr4") = 4 /\ Family("any4") = 4 /\ Family("addr6") = 6 /\ Family("any6") = 6
      /\ Family("unspec") = 0 /\ Family(NoAddress) = 0
  BY DEF Family, NoAddress
<1>6. \A f \in {4, 6} : LET a == AddressForConnect(t, f, FALSE) IN
        a # NoAddress => ~Blocked(f) /\ (Family(a) = f \/ (f = 4 /\ ~t.block_ipv4in6))
  <2>1. ConnectInet(t) # NoAddress =>
          ~t.block_ipv4 /\ (ConnectInet(t) \in {"addr4", "any4"} \/ ~t.block_ipv4in6)
    BY <1>3 DEF ConnectInet, Bound4, Bound6
  <2>2. ConnectInet6(t) # NoAddress => ~t.block_ipv6 /\ ConnectInet6(t) \in {"addr6", "any6"}
    BY <1>3 DEF ConnectInet6, Bound4, Bound6
  <2>3. AddressForConnect(t, 4, FALSE) = ConnectInet(t) /\ AddressForConnect(t, 6, FALSE) = ConnectInet6(t)
    BY DEF AddressForConnect
  <2>4. \A a : a \in {"addr4", "any4"} => Family(a) = 4
    BY <1>5
  <2>5. \A a : a \in {"addr6", "any6"} => Family(a) = 6
    BY <1>5
  <2> QED BY <1>4, <2>1, <2>2, <2>3, <2>4, <2>5, Zenon
<1>7. AddressOrAnyAndNull(t) # NoAddress => ~Blocked(Family(AddressOrAnyAndNull(t)))
  <2>1. AddressOrAnyAndNull(t) # NoAddress =>
          \/ AddressOrAnyAndNull(t) \in {"addr4", "any4"} /\ ~t.block_ipv4
          \/ AddressOrAnyAndNull(t) \in {"addr6", "any6"} /\ ~t.block_ipv6
    <3> DEFINE o == AddressOrUnspecAndNull(t)
    <3>1. \/ o = NoAddress
          \/ o = "unspec" /\ ~(t.block_ipv4 /\ t.block_ipv6)
          \/ o = "addr4" /\ ~t.block_ipv4
          \/ o = "addr6" /\ ~t.block_ipv6
      BY <1>3 DEF AddressOrUnspecAndNull, Bound4, Bound6
    <3> QED BY <3>1 DEF AddressOrAnyAndNull, NoAddress
  <2> DEFINE a == AddressOrAnyAndNull(t)
  <2>2. a \in {"addr4", "any4"} => Family(a) = 4
    BY <1>5
  <2>3. a \in {"addr6", "any6"} => Family(a) = 6
    BY <1>5
  <2> QED BY <1>4, <2>1, <2>2, <2>3
<1>8. \A i \in {1, 2} :
        /\ BindAddressesOrNull(t)[i] # NoAddress => ~Blocked(2 * i + 2)
        /\ ListenAddresses(t)[i] # NoAddress => ~Blocked(2 * i + 2)
  <2>1. /\ BindAddressesOrNull(t)[1] # NoAddress => ~t.block_ipv4
        /\ BindAddressesOrNull(t)[2] # NoAddress => ~t.block_ipv6
    BY DEF BindAddressesOrNull
  <2>2. /\ ListenAddresses(t)[1] # NoAddress => ~t.block_ipv4
        /\ ListenAddresses(t)[2] # NoAddress => ~t.block_ipv6
    BY DEF ListenAddresses
  <2>3. 2 * 1 + 2 = 4 /\ 2 * 2 + 2 = 6
    OBVIOUS
  <2> QED BY <1>4, <2>1, <2>2, <2>3
<1>9. AddressBestMatch(t) # "unspec" /\ Blocked(Family(AddressBestMatch(t))) =>
        (Blocked(4) /\ Blocked(6)) \/ ~Bound4(t) \/ ~Bound6(t)
  <2> SUFFICES ASSUME Bound4(t), Bound6(t), Blocked(Family(AddressBestMatch(t)))
               PROVE  Blocked(4) /\ Blocked(6)
    OBVIOUS
  <2>1. t.bind4 = "addr4" /\ t.bind6 = "addr6"
    BY <1>3 DEF Bound4, Bound6
  <2>2. \/ AddressBestMatch(t) = "addr4" /\ (t.block_ipv4 => t.block_ipv6)
        \/ AddressBestMatch(t) = "addr6" /\ (t.block_ipv6 => t.block_ipv4)
    BY <2>1 DEF AddressBestMatch, Bound4, Bound6
  <2> QED BY <1>4, <1>5, <2>2
<1> QED BY <1>6, <1>7, <1>8, <1>9, Zenon DEF Allows, t

-----------------------------------------------------------------------------
\* Whatever ports there are and whoever has bound them, once the timer and the callbacks
\* it posted are through the sockets follow the settings, no function chooses an address
\* of a blocked family, and no internal_error is thrown: if both families find the same
\* ports free and an inet6 address is not the only one while ipv4 needs one.
THEOREM SettingsFollowed ==
  ASSUME ~Lone6, PortsAgree
  PROVE  ConfigSpec => []SocketsFollowSettings
<1>1. ConfigInit => ConfigInvHolds
  BY ConfigStarts DEF ConfigInvHolds
<1>2. ConfigInvHolds /\ [ConfigNext]_nc => ConfigInvHolds'
  <2> SUFFICES ASSUME ConfigInv(nc), [ConfigNext]_nc
               PROVE  ConfigInv(nc')
    BY DEF ConfigInvHolds
  <2>1. CASE SetBlock \/ SetBindAddress \/ SetBindFamily
    BY <2>1, SettingKeeps
  <2>2. CASE SetProxy
    BY <2>2, ProxyKeeps
  <2>3. CASE SetHttpProxyUrl
    BY <2>3, HttpUrlKeeps, SMTT(60)
  <2>4. CASE ClientListens
    BY <2>4, ClientListensKeeps
  <2>5. CASE SetListenPort
    BY <2>5, SetListenPortKeeps
  <2>6. CASE SetDhtPort
    BY <2>6, SetDhtPortKeeps
  <2>7. CASE ClientStartsDht
    BY <2>7, ClientStartsDhtKeeps
  <2>8. CASE NotifySubscribers
    BY <2>8, NotifyKeeps
  <2>9. CASE MainRestarts
    BY <2>9, MainRestartsKeeps
  <2>10. CASE TrackerRebinds
    BY <2>10, TrackerRebindsKeeps
  <2>11. CASE UNCHANGED nc
    BY <2>11
  <2> QED BY <2>1, <2>2, <2>3, <2>4, <2>5, <2>6, <2>7, <2>8, <2>9, <2>10, <2>11, SMTT(60) DEF ConfigNext
<1>3. ConfigInvHolds => SocketsFollowSettings
  <2> SUFFICES ASSUME ConfigInv(nc)
               PROVE  SocketsFollowSettings
    BY SMTT(60) DEF ConfigInvHolds
  <2>1. SettledFollowsConfig
    BY Zenon DEF ConfigInv, PortInv, PendingInv, ListenFollows, RouterFollows, SettledFollowsConfig
  <2>2. ProxyBlocks /\ NoConfigError
    BY DEF ConfigInv, ProxyInv, ProxyBlocks, NoConfigError
  <2> QED BY <2>1, <2>2, ChoicesAllowed DEF SocketsFollowSettings
<1> QED BY <1>1, <1>2, <1>3, PTL DEF ConfigSpec
=============================================================================
