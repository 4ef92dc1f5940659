---------------------------- MODULE SocketManager ----------------------------
(***************************************************************************)
(* runtime::SocketManager (torrent/runtime/socket_manager.cc): which event *)
(* owns which file descriptor, how many are open per category, and how the *)
(* limit on open files is shared between the categories.                   *)
(*                                                                         *)
(* Every call runs under m_mutex with the caller's function inside it.     *)
(* What happens outside the mutex is a step of its own: accept() in        *)
(* Listen::event_read(), the sockets UdpRouter and Listen open before they *)
(* register, the fd_close() after a transfer that failed.  The kernel      *)
(* always returns the lowest free descriptor, so a number is used again as *)
(* soon as it was closed.                                                  *)
(***************************************************************************)
EXTENDS Integers, FiniteSets, FiniteSetsExt, FiniteSetTheorems, WellFoundedInduction, TLAPS

CONSTANTS Fds,          \* descriptor numbers, 1 .. n
          MaxOpens,     \* values tried for max_open
          Allocs,       \* values tried for the minimum and maximum allocation
          Unmanaged,    \* numbers of sockets the client may have open
          Scenes        \* "limits": only settings change; "sockets": from a
                        \* start with the limits of max_open = 512

ASSUME SocketsAssumption ==
  /\ IsFiniteSet(Fds) /\ Fds \subseteq Nat \ {0}
  /\ MaxOpens \subseteq Nat /\ Allocs \subseteq Nat /\ Unmanaged \subseteq Nat

VARIABLE sm

Categories == {"generic", "http", "internal", "rpc", "files"}
Limited == Categories \ {"generic"}

\* The events of the model: a listen or router socket, a handshake and the
\* connection it becomes, a second handshake, a socket of libcurl.
Events == {"router", "handshake", "handshake2", "peer", "curl"}
CategoryOf == [router |-> "internal", handshake |-> "generic", handshake2 |-> "generic",
               peer |-> "generic", curl |-> "http"]
Handshakes == {"handshake", "handshake2"}

-----------------------------------------------------------------------------
(* The allocation tables.                                                  *)

AllocationHeadroom == 8

\* calculate_*(): the entry of the first threshold that open_max reaches.
MinGeneric(n) == CASE n >= 16384 -> 12288 [] n >= 8096 -> 6144 [] n >= 1024 -> 512 [] OTHER -> 256
Reserved(n) == CASE n >= 16384 -> 512 [] n >= 8096 -> 256 [] n >= 1024 -> 128 [] OTHER -> 64
DefaultAlloc(c, n) ==
  CASE c = "internal" -> (CASE n >= 16384 -> 64 [] n >= 1024 -> 32 [] OTHER -> 16)
    [] c = "http"     -> (CASE n >= 16384 -> 128 [] n >= 8096 -> 64 [] n >= 1024 -> 32 [] OTHER -> 16)
    [] c = "rpc"      -> (CASE n >= 16384 -> 64 [] n >= 8096 -> 48 [] n >= 1024 -> 32 [] OTHER -> 16)
    [] c = "files"    -> (CASE n >= 32768 -> 4096 [] n >= 16384 -> 2048 [] n >= 8096 -> 1024
                            [] n >= 1024 -> 128 [] OTHER -> 64)

CategoryMaxAlloc == 1000000
AllocLimit(c) == CASE c = "http" -> 4096 [] c = "files" -> 65536 [] OTHER -> CategoryMaxAlloc
AllocMinimum(c) == IF c = "files" THEN 4 ELSE 0

\* calculate_category(): the default, raised to the minimum, then cut to the maximum.
Allocation(t, c, n) ==
  Min({Max({DefaultAlloc(c, n), t.min_alloc[c]}), t.max_alloc[c]})

Total(t, n) == Allocation(t, "internal", n) + Allocation(t, "http", n)
                 + Allocation(t, "rpc", n) + Allocation(t, "files", n) + Reserved(n)

CanAllocate(t, n) ==
  /\ \A c \in Limited : Allocation(t, c, n) \in AllocMinimum(c) .. AllocLimit(c)
  /\ Total(t, n) + MinGeneric(n) + AllocationHeadroom <= n

\* adjust_allocation_unsafe(); an input_error leaves the limits as they were.
\* notify_changes_unsafe() posts a callback to the main and to the net thread.
AdjustAllocationStaged(t, n) ==
  LET u == [t EXCEPT !.max = n]
  IN IF ~CanAllocate(t, n) THEN u
     ELSE [u EXCEPT !.posted = {"main", "net"},
                    !.cmax = [c \in Categories |-> IF c = "generic" THEN n - Total(t, n)
                                                   ELSE Allocation(t, c, n)]]
AdjustAllocation(t, n) ==
  IF ~CanAllocate(t, n) THEN t
  ELSE [t EXCEPT !.max = n, !.posted = {"main", "net"},
                 !.cmax = [c \in Categories |-> IF c = "generic" THEN n - Total(t, n)
                                                ELSE Allocation(t, c, n)]]

SetMaxSizeAndAdjust == \E n \in MaxOpens :
  /\ sm.scene = "limits"
  /\ sm' = IF n < 512 THEN sm ELSE AdjustAllocation(sm, n)

SetCategoryMinAllocation == \E c \in {"http", "files"}, n \in Allocs :
  /\ sm.scene = "limits"
  /\ sm' = [sm EXCEPT !.min_alloc[c] = n]

SetCategoryMaxAllocation == \E c \in {"http", "files"}, n \in Allocs :
  /\ sm.scene = "limits"
  /\ sm' = [sm EXCEPT !.max_alloc[c] = n]

AdjustAllocationAgain == sm.scene = "limits" /\ sm' = AdjustAllocation(sm, sm.max)

\* ThreadMain::set_max_connections() and ThreadNet::set_max_connections(), run
\* by the threads that subscribed.
MainSetsLimit ==
  /\ "main" \in sm.posted
  /\ sm' = [sm EXCEPT !.posted = @ \ {"main"}, !.file_limit = sm.cmax["files"]]

NetSetsLimit ==
  /\ "net" \in sm.posted
  /\ sm' = [sm EXCEPT !.posted = @ \ {"net"}, !.http_limit = sm.cmax["http"]]

-----------------------------------------------------------------------------
(* The socket map.                                                         *)

Throw(t) == [t EXCEPT !.thrown = TRUE]
None == "none"
Free(t) == Fds \ t.open
Lowest(t) == Min(Free(t))
KernelClose(t, fd) == [t EXCEPT !.open = @ \ {fd}]

AccountNew(t, fd, e) ==
  [t EXCEPT !.map[fd] = e, !.category[fd] = CategoryOf[e],
            !.managed = @ + 1, !.cmanaged[CategoryOf[e]] = @ + 1]

AccountRemoveKeepsTotal(t, fd) ==
  [t EXCEPT !.map[fd] = None, !.cmanaged[t.category[fd]] = @ - 1]
AccountRemove(t, fd) ==
  IF t.managed = 0 \/ t.cmanaged[t.category[fd]] = 0 THEN Throw(t)
  ELSE [t EXCEPT !.map[fd] = None, !.managed = @ - 1, !.cmanaged[t.category[fd]] = @ - 1]

Size(t) == t.managed + t.unmanaged

\* can_open_socket_unsafe(): a category limit of zero is no limit.
CanOpenSocketIgnoresUnmanaged(t, c) ==
  /\ t.managed < t.max
  /\ t.cmax[c] # 0 => t.cmanaged[c] < t.cmax[c]
CanOpenSocket(t, c) ==
  /\ Size(t) < t.max
  /\ t.cmax[c] # 0 => t.cmanaged[c] < t.cmax[c]

\* The descriptor of e is fd and e takes it into the map; a number that is in
\* the map already is an internal_error.
Insert(t, e, fd) ==
  IF t.map[fd] # None THEN Throw(t) ELSE AccountNew([t EXCEPT !.fd[e] = fd], fd, e)

\* close_event_or_throw() and unregister_event_or_throw(): the caller's function
\* closes the descriptor before the entry is erased, under the same lock.
CloseEvent(t, e) ==
  IF t.fd[e] = 0 \/ t.map[t.fd[e]] # e THEN Throw(t)
  ELSE AccountRemove([KernelClose(t, t.fd[e]) EXCEPT !.fd[e] = 0], t.fd[e])

-----------------------------------------------------------------------------
(* The callers.                                                            *)

\* HandshakeManager::create_outgoing(): open_event_or_cleanup() with a function
\* that opens the socket, which may fail.
CreateOutgoing == \E e \in Handshakes, opened \in BOOLEAN :
  /\ sm.scene = "sockets" /\ sm.fd[e] = 0 /\ sm.pending[e] = 0 /\ Free(sm) # {}
  /\ CanOpenSocket(sm, "generic")
  /\ sm' = IF opened THEN Insert([sm EXCEPT !.open = @ \cup {Lowest(sm)}], e, Lowest(sm)) ELSE sm

\* Listen::event_read(): accept() ...
Accept == \E e \in Handshakes :
  /\ sm.scene = "sockets" /\ sm.fd[e] = 0 /\ sm.pending[e] = 0 /\ Free(sm) # {}
  /\ sm' = [sm EXCEPT !.open = @ \cup {Lowest(sm)}, !.pending[e] = Lowest(sm)]

\* ... then open_event_or_cleanup(): refused (closed), rejected by
\* add_incoming() (closed), in the map already (handle_reused_socket() says no,
\* destroy_connection(false) closes it), or accepted.
AcceptOpensLeaks(t, e, fd, wanted) ==
  CASE ~CanOpenSocket(t, "generic") -> t
    [] ~wanted \/ t.map[fd] # None -> KernelClose(t, fd)
    [] OTHER -> Insert(t, e, fd)
AcceptOpens(t, e, fd, wanted) ==
  IF ~CanOpenSocket(t, "generic") \/ ~wanted \/ t.map[fd] # None
  THEN KernelClose(t, fd)
  ELSE Insert(t, e, fd)

OpenAccepted == \E e \in Handshakes, wanted \in BOOLEAN :
  /\ sm.pending[e] # 0
  /\ sm' = AcceptOpens([sm EXCEPT !.pending[e] = 0], e, sm.pending[e], wanted)

\* HandshakeManager::receive_succeeded(): transfer_event() to the connection, or
\* to nothing when ConnectionList::insert() refuses; that descriptor is closed
\* after the lock was released.
Transfer(t, e, accepted) ==
  LET fd == t.fd[e]
      released == [t EXCEPT !.fd[e] = 0]
  IN CASE fd = 0 \/ t.map[fd] # e -> Throw(t)
       [] accepted -> [released EXCEPT !.fd["peer"] = fd, !.map[fd] = "peer"]
       [] OTHER -> [AccountRemove(released, fd) EXCEPT !.pending["peer"] = fd]

ReceiveSucceeded == \E e \in Handshakes :
  /\ sm.fd[e] # 0 /\ sm.fd["peer"] = 0 /\ sm.pending["peer"] = 0
  /\ \E accepted \in BOOLEAN : sm' = Transfer(sm, e, accepted)

CloseRefused ==
  /\ sm.pending["peer"] # 0
  /\ sm' = [KernelClose(sm, sm.pending["peer"]) EXCEPT !.pending["peer"] = 0]

\* UdpRouter::open(), Listen::open_single(): the socket, then
\* register_event_or_throw().
RouterSocket ==
  /\ sm.scene = "sockets" /\ sm.fd["router"] = 0 /\ sm.pending["router"] = 0 /\ Free(sm) # {}
  /\ sm' = [sm EXCEPT !.open = @ \cup {Lowest(sm)}, !.pending["router"] = Lowest(sm)]

RouterRegisters ==
  /\ sm.pending["router"] # 0
  /\ sm' = Insert([sm EXCEPT !.pending["router"] = 0], "router", sm.pending["router"])

\* CurlSocket::open_socket(): open_event_or_throw(), without a check of the
\* limit; libcurl opens no more than CURLMOPT_MAX_TOTAL_CONNECTIONS.
CurlOpens ==
  /\ sm.scene = "sockets" /\ sm.fd["curl"] = 0 /\ Free(sm) # {} /\ sm.cmanaged["http"] < sm.http_limit
  /\ sm' = Insert([sm EXCEPT !.open = @ \cup {Lowest(sm)}], "curl", Lowest(sm))

Close == \E e \in Events :
  /\ sm.fd[e] # 0
  /\ sm' = CloseEvent(sm, e)

\* add_unmanaged_socket(), remove_unmanaged_socket()
AddUnmanaged ==
  /\ sm.scene = "sockets" /\ sm.unmanaged + 1 \in Unmanaged
  /\ sm' = [sm EXCEPT !.unmanaged = @ + 1]

RemoveUnmanaged ==
  /\ sm.scene = "sockets" /\ sm.unmanaged - 1 \in Unmanaged
  /\ sm' = [sm EXCEPT !.unmanaged = @ - 1]

Start == [open |-> {}, fd |-> [e \in Events |-> 0], pending |-> [e \in Events |-> 0],
          map |-> [fd \in Fds |-> None], category |-> [fd \in Fds |-> "generic"],
          managed |-> 0, cmanaged |-> [c \in Categories |-> 0], unmanaged |-> 0,
          max |-> 0, cmax |-> [c \in Categories |-> 0],
          min_alloc |-> [c \in Limited |-> 0], max_alloc |-> [c \in Limited |-> CategoryMaxAlloc],
          posted |-> {}, file_limit |-> 0, http_limit |-> 0, thrown |-> FALSE, scene |-> "limits"]

\* torrent::initialize() adjusts for Poll::open_max().
SocketInit ==
  \/ "limits" \in Scenes /\ sm = Start
  \/ "sockets" \in Scenes /\ \E n \in Unmanaged, http \in Allocs :
       sm = AdjustAllocation([Start EXCEPT !.scene = "sockets", !.unmanaged = n,
                                          !.max_alloc["http"] = http], 512)

SocketNext == \/ SetMaxSizeAndAdjust \/ SetCategoryMinAllocation \/ SetCategoryMaxAllocation
        \/ AdjustAllocationAgain \/ MainSetsLimit \/ NetSetsLimit
        \/ CreateOutgoing \/ Accept \/ OpenAccepted \/ ReceiveSucceeded \/ CloseRefused
        \/ RouterSocket \/ RouterRegisters \/ CurlOpens \/ Close
        \/ AddUnmanaged \/ RemoveUnmanaged

SocketSpec == SocketInit /\ [][SocketNext]_sm

-----------------------------------------------------------------------------
(* Properties.                                                             *)

\* No internal_error: no number the kernel returned is still in the map, no
\* event closes or transfers an entry that is not its own.
NeverThrows == ~sm.thrown

Known(fd) == sm.map[fd] # None

\* An entry of the socket map is an open descriptor and its event has it; every
\* open descriptor is in the map or in the hands of the one step that opened it;
\* and the counts are those of the map.
MapMatches ==
  /\ \A fd \in Fds : Known(fd) => fd \in sm.open /\ sm.fd[sm.map[fd]] = fd
  /\ \A e \in Events : sm.fd[e] # 0 => sm.map[sm.fd[e]] = e
  /\ \A fd \in sm.open : Known(fd) # (\E e \in Events : sm.pending[e] = fd)
  /\ sm.managed = Cardinality({fd \in Fds : Known(fd)})
  /\ \A c \in Categories : sm.cmanaged[c] = Cardinality({fd \in Fds : Known(fd) /\ sm.category[fd] = c})

\* The limits are those of one successful adjustment: they share out exactly the
\* size in force with the reserve, and an adjustment that failed changed nothing.
\* The threads that were told have the limit of now or a callback to come.
LimitsFit ==
  /\ sm.max # 0 =>
       /\ sm.cmax["generic"] + sm.cmax["internal"] + sm.cmax["http"] + sm.cmax["rpc"]
            + sm.cmax["files"] + Reserved(sm.max) = sm.max
       /\ sm.cmax["generic"] >= MinGeneric(sm.max) + AllocationHeadroom
       /\ sm.cmax["files"] >= 4
  /\ "main" \notin sm.posted => sm.file_limit = sm.cmax["files"]
  /\ "net" \notin sm.posted => sm.http_limit = sm.cmax["http"]

\* Only sockets that are opened without a check (libcurl's, the routers') may go
\* past the limit on open sockets: a checked one is opened below it.
KeepsLimits ==
  \A e \in Handshakes : sm.fd[e] = 0 /\ sm'.fd[e] # 0 =>
    /\ sm'.managed + sm'.unmanaged <= sm.max
    /\ sm.cmax["generic"] # 0 => sm'.cmanaged["generic"] <= sm.cmax["generic"]

\* No call of the socket manager throws an internal_error, its map is the open
\* descriptors and its counts are those of the map, its limits share out the
\* size in force, and a handshake's socket never goes past them.
SocketsAccounted ==
  /\ [](NeverThrows /\ MapMatches /\ LimitsFit)
  /\ [][KeepsLimits]_sm

-----------------------------------------------------------------------------
(* The inductive invariant, of a state t of the manager so that it can be  *)
(* stated of the states between two steps of a call.                       *)

SocketState ==
  [open : SUBSET Fds, fd : [Events -> Fds \cup {0}], pending : [Events -> Fds \cup {0}],
   map : [Fds -> Events \cup {None}], category : [Fds -> Categories],
   managed : Nat, cmanaged : [Categories -> Nat], unmanaged : Nat,
   max : Nat, cmax : [Categories -> Int],
   min_alloc : [Limited -> Nat], max_alloc : [Limited -> Nat],
   posted : SUBSET {"main", "net"}, file_limit : Int, http_limit : Int,
   thrown : BOOLEAN, scene : {"limits", "sockets"}]

MapEntries(map) == {fd \in Fds : map[fd] # None}
MapEntriesOf(map, category, c) == {fd \in Fds : map[fd] # None /\ category[fd] = c}

\* Who has which descriptor: the map and the events agree, and a descriptor that
\* was opened but not yet registered, or no longer, is in one pair of hands.
OwnInv(t) ==
  /\ \A f \in Fds : t.map[f] # None => f \in t.open /\ t.fd[t.map[f]] = f
  /\ \A e \in Events : t.fd[e] # 0 => t.map[t.fd[e]] = e
  /\ \A e \in Events : t.pending[e] # 0 =>
       t.pending[e] \in t.open /\ t.map[t.pending[e]] = None /\ t.fd[e] = 0
  /\ \A e1, e2 \in Events : t.pending[e1] = t.pending[e2] /\ t.pending[e1] # 0 => e1 = e2

\* Every open descriptor but those of `loose' is in the map or in some hands.
HeldInv(t, loose) ==
  \A f \in t.open \ loose : t.map[f] # None \/ \E e \in Events : t.pending[e] = f

CountInv(t) ==
  /\ t.managed = Cardinality(MapEntries(t.map))
  /\ \A c \in Categories : t.cmanaged[c] = Cardinality(MapEntriesOf(t.map, t.category, c))

LimitInv(t) ==
  /\ t.max # 0 =>
       /\ t.cmax["generic"] + t.cmax["internal"] + t.cmax["http"] + t.cmax["rpc"]
            + t.cmax["files"] + Reserved(t.max) = t.max
       /\ t.cmax["generic"] >= MinGeneric(t.max) + AllocationHeadroom
       /\ t.cmax["files"] >= 4
  /\ "main" \notin t.posted => t.file_limit = t.cmax["files"]
  /\ "net" \notin t.posted => t.http_limit = t.cmax["http"]

\* open_event_or_throw() opens libcurl's sockets inside of the lock.
SocketInv(t) ==
  /\ t \in SocketState /\ ~t.thrown /\ t.pending["curl"] = 0
  /\ OwnInv(t) /\ HeldInv(t, {}) /\ CountInv(t) /\ LimitInv(t)

SocketInvHolds == SocketInv(sm)

\* A call is between the system call that made or took over f and what it does
\* with it: nobody has f.
Loose(t, f) ==
  /\ t \in SocketState /\ ~t.thrown /\ t.pending["curl"] = 0
  /\ OwnInv(t) /\ HeldInv(t, {f}) /\ CountInv(t) /\ LimitInv(t)
  /\ f \in t.open /\ t.map[f] = None /\ \A e \in Events : t.pending[e] # f

\* Nothing but the limits and settings differs.
SameSockets(t, u) ==
  /\ u.open = t.open /\ u.fd = t.fd /\ u.pending = t.pending /\ u.map = t.map
  /\ u.category = t.category /\ u.managed = t.managed /\ u.cmanaged = t.cmanaged
  /\ u.thrown = t.thrown

SameLimits(t, u) ==
  /\ u.max = t.max /\ u.cmax = t.cmax /\ u.posted = t.posted
  /\ u.file_limit = t.file_limit /\ u.http_limit = t.http_limit

-----------------------------------------------------------------------------
(* Proofs.                                                                 *)

\* The descriptor that the kernel returns was free.
LEMMA LowestIsFree ==
  ASSUME NEW t, t.open \in SUBSET Fds, Free(t) # {}
  PROVE  Lowest(t) \in Fds /\ Lowest(t) \notin t.open /\ Lowest(t) # 0
<1> DEFINE less == OpToRel(<, Nat)
<1>1. Free(t) \subseteq Nat
  BY SocketsAssumption, Zenon DEF Free
<1>2. \E x \in Free(t) : \A y \in Free(t) : ~(<<y, x>> \in less)
  <2>1. IsWellFoundedOn(less, Nat)
    BY NatLessThanWellFounded, Zenon
  <2> HIDE DEF less
  <2> QED
    BY <1>1, <2>1, WFMin
<1>3. \A x, y \in Nat : y < x => <<y, x>> \in less
  BY DEF OpToRel
<1>4. \E x \in Free(t) : \A y \in Free(t) : x <= y
  <2> HIDE DEF less
  <2>1. PICK x \in Free(t) : \A y \in Free(t) : ~(<<y, x>> \in less)
    BY <1>2
  <2>2. \A y \in Free(t) : x <= y
    <3> SUFFICES ASSUME NEW y \in Free(t) PROVE x <= y
      OBVIOUS
    <3>1. x \in Nat /\ y \in Nat
      BY <1>1
    <3>2. ~(y < x)
      BY <3>1, <1>3, <2>1, Zenon
    <3> QED
      BY <3>1, <3>2
  <2> QED
    BY <2>2
<1>5. Lowest(t) \in Free(t)
  BY <1>4, Zenon DEF Lowest, Min
<1> QED
  BY <1>5, SocketsAssumption DEF Free

\* account_new_socket_unsafe() adds one entry, of one category.
LEMMA AddEntry ==
  ASSUME NEW map \in [Fds -> Events \cup {None}], NEW category \in [Fds -> Categories],
         NEW f \in Fds, map[f] = None, NEW e \in Events, NEW k \in Categories
  PROVE  LET map2 == [map EXCEPT ![f] = e]
             category2 == [category EXCEPT ![f] = k]
         IN  /\ Cardinality(MapEntries(map2)) = Cardinality(MapEntries(map)) + 1
             /\ \A c \in Categories :
                  Cardinality(MapEntriesOf(map2, category2, c)) =
                    IF c = k THEN Cardinality(MapEntriesOf(map, category, c)) + 1
                    ELSE Cardinality(MapEntriesOf(map, category, c))
<1> DEFINE map2 == [map EXCEPT ![f] = e]
           category2 == [category EXCEPT ![f] = k]
<1>0. e # None
  BY DEF Events, None
<1>1. MapEntries(map2) = MapEntries(map) \cup {f} /\ f \notin MapEntries(map)
  BY <1>0 DEF MapEntries
<1>2. IsFiniteSet(MapEntries(map))
  BY FS_Subset, SocketsAssumption DEF MapEntries
<1>3. Cardinality(MapEntries(map2)) = Cardinality(MapEntries(map)) + 1
  BY <1>1, <1>2, FS_AddElement, Zenon
<1>4. ASSUME NEW c \in Categories
      PROVE  Cardinality(MapEntriesOf(map2, category2, c)) =
                    IF c = k THEN Cardinality(MapEntriesOf(map, category, c)) + 1
                    ELSE Cardinality(MapEntriesOf(map, category, c))
  <2>1. IsFiniteSet(MapEntriesOf(map, category, c))
    BY FS_Subset, SocketsAssumption DEF MapEntriesOf
  <2>2. CASE c = k
    <3>1. MapEntriesOf(map2, category2, c) = MapEntriesOf(map, category, c) \cup {f}
      BY <1>0, <2>2 DEF MapEntriesOf
    <3>2. f \notin MapEntriesOf(map, category, c)
      BY DEF MapEntriesOf
    <3> QED
      BY <2>1, <2>2, <3>1, <3>2, FS_AddElement, ZenonT(60)
  <2>3. CASE c # k
    <3>1. MapEntriesOf(map2, category2, c) = MapEntriesOf(map, category, c)
      BY <2>3 DEF MapEntriesOf
    <3> QED
      BY <2>3, <3>1
  <2> QED
    BY <2>2, <2>3
<1> QED
  BY <1>3, <1>4, Zenon

\* account_remove_socket_unsafe() takes one entry out, of its category, and
\* neither count was zero.
LEMMA RemoveEntry ==
  ASSUME NEW map \in [Fds -> Events \cup {None}], NEW category \in [Fds -> Categories],
         NEW f \in Fds, map[f] # None
  PROVE  LET map2 == [map EXCEPT ![f] = None]
         IN  /\ Cardinality(MapEntries(map)) \in Nat \ {0}
             /\ Cardinality(MapEntries(map2)) = Cardinality(MapEntries(map)) - 1
             /\ Cardinality(MapEntriesOf(map, category, category[f])) \in Nat \ {0}
             /\ \A c \in Categories :
                  Cardinality(MapEntriesOf(map2, category, c)) =
                    IF c = category[f] THEN Cardinality(MapEntriesOf(map, category, c)) - 1
                    ELSE Cardinality(MapEntriesOf(map, category, c))
<1> DEFINE map2 == [map EXCEPT ![f] = None]
<1>1. MapEntries(map2) = MapEntries(map) \ {f} /\ f \in MapEntries(map)
  BY DEF MapEntries
<1>2. IsFiniteSet(MapEntries(map))
  BY FS_Subset, SocketsAssumption DEF MapEntries
<1>3. /\ Cardinality(MapEntries(map2)) = Cardinality(MapEntries(map)) - 1
      /\ Cardinality(MapEntries(map)) \in Nat \ {0}
  BY <1>1, <1>2, FS_RemoveElement, FS_CardinalityType, FS_EmptySet, ZenonT(60)
<1>4. ASSUME NEW c \in Categories
      PROVE  /\ c = category[f] => Cardinality(MapEntriesOf(map, category, c)) \in Nat \ {0}
             /\ Cardinality(MapEntriesOf(map2, category, c)) =
                    IF c = category[f] THEN Cardinality(MapEntriesOf(map, category, c)) - 1
                    ELSE Cardinality(MapEntriesOf(map, category, c))
  <2>1. IsFiniteSet(MapEntriesOf(map, category, c))
    BY FS_Subset, SocketsAssumption DEF MapEntriesOf
  <2>2. CASE c = category[f]
    <3>1. MapEntriesOf(map2, category, c) = MapEntriesOf(map, category, c) \ {f}
      BY <2>2 DEF MapEntriesOf
    <3>2. f \in MapEntriesOf(map, category, c)
      BY <2>2 DEF MapEntriesOf
    <3>3. Cardinality(MapEntriesOf(map, category, c)) \in Nat \ {0}
      BY <2>1, <3>2, FS_CardinalityType, FS_EmptySet
    <3>4. Cardinality(MapEntriesOf(map2, category, c)) = Cardinality(MapEntriesOf(map, category, c)) - 1
      BY <2>1, <3>1, <3>2, FS_RemoveElement, ZenonT(60)
    <3> QED
      BY <2>2, <3>3, <3>4
  <2>3. CASE c # category[f]
    <3>1. MapEntriesOf(map2, category, c) = MapEntriesOf(map, category, c)
      BY <2>3 DEF MapEntriesOf
    <3> QED
      BY <2>3, <3>1, Zenon
  <2> QED
    BY <2>2, <2>3
<1>5. category[f] \in Categories
  OBVIOUS
<1> QED
  BY <1>3, <1>4, <1>5, Zenon

\* A descriptor nobody has is entered into the map for an event without one.
LEMMA InsertInv ==
  ASSUME NEW t, NEW e \in Events, NEW f \in Fds, Loose(t, f), t.fd[e] = 0, t.pending[e] = 0
  PROVE  LET u == Insert(t, e, f)
         IN  /\ SocketInv(u) /\ SameLimits(t, u) /\ u.unmanaged = t.unmanaged
             /\ u.fd = [t.fd EXCEPT ![e] = f]
             /\ u.managed = t.managed + 1
             /\ u.cmanaged[CategoryOf[e]] = t.cmanaged[CategoryOf[e]] + 1
<1> DEFINE k == CategoryOf[e]
           t1 == [t EXCEPT !.fd[e] = f]
           u == AccountNew(t1, f, e)
<1>0. t \in SocketState /\ k \in Categories
  BY DEF Loose, CategoryOf, Categories, Events
<1>1. Insert(t, e, f) = u
  BY DEF Insert, Loose
<1>2. /\ u = [t1 EXCEPT !.map[f] = e, !.category[f] = k,
                        !.managed = @ + 1, !.cmanaged[k] = @ + 1]
  BY DEF AccountNew
<1> HIDE DEF k, u
<1>3. /\ t1 \in SocketState
      /\ t1.open = t.open /\ t1.pending = t.pending /\ t1.map = t.map /\ t1.category = t.category
      /\ t1.managed = t.managed /\ t1.cmanaged = t.cmanaged /\ t1.unmanaged = t.unmanaged
      /\ SameLimits(t, t1) /\ t1.thrown = t.thrown
      /\ t1.fd = [t.fd EXCEPT ![e] = f]
  BY <1>0, SMTT(60) DEF SocketState, SameLimits
<1> HIDE DEF t1
<1>4. /\ u.open = t1.open /\ u.fd = t1.fd /\ u.pending = t1.pending
      /\ u.map = [t1.map EXCEPT ![f] = e] /\ u.category = [t1.category EXCEPT ![f] = k]
      /\ u.managed = t1.managed + 1 /\ u.cmanaged = [t1.cmanaged EXCEPT ![k] = @ + 1]
      /\ u.unmanaged = t1.unmanaged /\ SameLimits(t1, u) /\ u.thrown = t1.thrown
  BY <1>2, <1>3 DEF SocketState, SameLimits
<1>5. u \in SocketState
  <2>1. PICK map \in [Fds -> Events \cup {None}], category \in [Fds -> Categories],
             managed \in Nat, cmanaged \in [Categories -> Nat] :
          u = [t1 EXCEPT !.map = map, !.category = category, !.managed = managed, !.cmanaged = cmanaged]
    <3>1. /\ [t1.map EXCEPT ![f] = e] \in [Fds -> Events \cup {None}]
          /\ [t1.category EXCEPT ![f] = k] \in [Fds -> Categories]
          /\ t1.managed + 1 \in Nat
          /\ [t1.cmanaged EXCEPT ![k] = @ + 1] \in [Categories -> Nat]
      BY <1>0, <1>3 DEF SocketState
    <3>2. u = [t1 EXCEPT !.map = [t1.map EXCEPT ![f] = e], !.category = [t1.category EXCEPT ![f] = k],
                         !.managed = t1.managed + 1, !.cmanaged = [t1.cmanaged EXCEPT ![k] = @ + 1]]
      BY <1>2
    <3> QED
      BY <3>1, <3>2, Zenon
  <2> QED
    BY <2>1, <1>3, Zenon DEF SocketState
<1>6. /\ t.open \subseteq Fds /\ t.fd \in [Events -> Fds \cup {0}] /\ t.pending \in [Events -> Fds \cup {0}]
      /\ t.map \in [Fds -> Events \cup {None}] /\ t.category \in [Fds -> Categories]
      /\ t.managed \in Nat /\ t.cmanaged \in [Categories -> Nat]
      /\ None \notin Events /\ f # 0
  BY <1>0, SocketsAssumption DEF SocketState, Events, None
<1>7. /\ u.open = t.open /\ u.fd = [t.fd EXCEPT ![e] = f] /\ u.pending = t.pending
      /\ u.map = [t.map EXCEPT ![f] = e] /\ u.category = [t.category EXCEPT ![f] = k]
      /\ u.managed = t.managed + 1 /\ u.cmanaged = [t.cmanaged EXCEPT ![k] = @ + 1]
  BY <1>3, <1>4
<1>8. OwnInv(u)
  <2>0. OwnInv(t) /\ f \in t.open /\ t.map[f] = None /\ \A x \in Events : t.pending[x] # f
    BY DEF Loose
  <2>1. ASSUME NEW g \in Fds, u.map[g] # None PROVE g \in u.open /\ u.fd[u.map[g]] = g
    <3>1. CASE g = f
      BY <3>1, <1>6, <1>7, <2>0
    <3>2. CASE g # f
      <4>1. u.map[g] = t.map[g] /\ t.map[g] \in Events
        BY <3>2, <1>6, <1>7, <2>1
      <4>2. g \in t.open /\ t.fd[t.map[g]] = g /\ g # 0
        BY <4>1, <2>0, <2>1, SocketsAssumption DEF OwnInv
      <4>3. t.map[g] # e
        BY <4>2
      <4> QED
        BY <4>1, <4>2, <4>3, <1>6, <1>7
    <3> QED
      BY <3>1, <3>2
  <2>2. ASSUME NEW x \in Events, u.fd[x] # 0 PROVE u.map[u.fd[x]] = x
    BY <1>6, <1>7, <2>0, <2>2 DEF OwnInv
  <2>3. ASSUME NEW x \in Events, u.pending[x] # 0
        PROVE  u.pending[x] \in u.open /\ u.map[u.pending[x]] = None /\ u.fd[x] = 0
    BY <1>6, <1>7, <2>0, <2>3 DEF OwnInv
  <2>4. \A e1, e2 \in Events : u.pending[e1] = u.pending[e2] /\ u.pending[e1] # 0 => e1 = e2
    BY <1>7, <2>0 DEF OwnInv
  <2> QED
    BY <2>1, <2>2, <2>3, <2>4 DEF OwnInv
<1>9. HeldInv(u, {})
  BY <1>6, <1>7 DEF HeldInv, Loose
<1>10. CountInv(u)
  <2>1. /\ Cardinality(MapEntries(u.map)) = Cardinality(MapEntries(t.map)) + 1
        /\ \A c \in Categories :
             Cardinality(MapEntriesOf(u.map, u.category, c)) =
               IF c = k THEN Cardinality(MapEntriesOf(t.map, t.category, c)) + 1
               ELSE Cardinality(MapEntriesOf(t.map, t.category, c))
    <3>1. t.map[f] = None
      BY DEF Loose
    <3>2. LET map2 == [t.map EXCEPT ![f] = e]
              category2 == [t.category EXCEPT ![f] = k]
          IN  /\ Cardinality(MapEntries(map2)) = Cardinality(MapEntries(t.map)) + 1
              /\ \A c \in Categories :
                   Cardinality(MapEntriesOf(map2, category2, c)) =
                     IF c = k THEN Cardinality(MapEntriesOf(t.map, t.category, c)) + 1
                     ELSE Cardinality(MapEntriesOf(t.map, t.category, c))
      <4>1. t.map \in [Fds -> Events \cup {None}]
        BY <1>6
      <4>2. t.category \in [Fds -> Categories]
        BY <1>6
      <4>3. k \in Categories
        BY <1>0
      <4> QED
        BY <3>1, <4>1, <4>2, <4>3, AddEntry, SMTT(30)
    <3> QED
      BY <3>2, <1>7, Zenon
  <2> QED
    BY <2>1, <1>0, <1>6, <1>7 DEF CountInv, Loose
<1>11. LimitInv(u) /\ SameLimits(t, u)
  BY <1>3, <1>4 DEF LimitInv, SameLimits, Loose
<1> QED
  BY <1>0, <1>1, <1>3, <1>4, <1>5, <1>6, <1>7, <1>8, <1>9, <1>10, <1>11, SMTT(60) DEF SocketInv, Loose, k

\* A descriptor nobody has is closed.
LEMMA KernelCloseInv ==
  ASSUME NEW t, NEW f \in Fds, Loose(t, f)
  PROVE  LET u == KernelClose(t, f)
         IN  SocketInv(u) /\ SameLimits(t, u) /\ u.fd = t.fd
<1> DEFINE u == KernelClose(t, f)
<1>0. t \in SocketState
  BY DEF Loose
<1>1. u = [t EXCEPT !.open = @ \ {f}]
  BY DEF KernelClose
<1> HIDE DEF u
<1>2. u \in SocketState
  BY <1>0, <1>1, SMTT(60) DEF SocketState
<1>3. /\ u.open = t.open \ {f} /\ u.fd = t.fd /\ u.pending = t.pending /\ u.map = t.map
      /\ u.category = t.category /\ u.managed = t.managed /\ u.cmanaged = t.cmanaged
      /\ u.thrown = t.thrown /\ SameLimits(t, u)
  BY <1>0, <1>1 DEF SocketState, SameLimits
<1>4. OwnInv(u)
  BY <1>3 DEF OwnInv, Loose
<1>5. HeldInv(u, {})
  BY <1>3 DEF HeldInv, Loose
<1>6. CountInv(u) /\ LimitInv(u)
  BY <1>3 DEF CountInv, LimitInv, SameLimits, Loose
<1> QED
  BY <1>2, <1>3, <1>4, <1>5, <1>6 DEF SocketInv, Loose, u

\* account_remove_socket_unsafe() of an entry finds both counts above zero.
LEMMA AccountRemoveCounts ==
  ASSUME NEW t, NEW f \in Fds, t \in SocketState, CountInv(t), t.map[f] # None
  PROVE  LET u == AccountRemove(t, f)
         IN  /\ u \in SocketState /\ CountInv(u)
             /\ u.map = [t.map EXCEPT ![f] = None]
             /\ u.open = t.open /\ u.fd = t.fd /\ u.pending = t.pending /\ u.thrown = t.thrown
             /\ u.unmanaged = t.unmanaged /\ SameLimits(t, u)
<1> DEFINE k == t.category[f]
           u == AccountRemove(t, f)
<1>1. /\ t.map \in [Fds -> Events \cup {None}] /\ t.category \in [Fds -> Categories]
      /\ t.managed \in Nat /\ t.cmanaged \in [Categories -> Nat] /\ k \in Categories
  BY DEF SocketState
<1>2. LET map2 == [t.map EXCEPT ![f] = None]
      IN  /\ Cardinality(MapEntries(t.map)) \in Nat \ {0}
          /\ Cardinality(MapEntries(map2)) = Cardinality(MapEntries(t.map)) - 1
          /\ Cardinality(MapEntriesOf(t.map, t.category, k)) \in Nat \ {0}
          /\ \A c \in Categories :
               Cardinality(MapEntriesOf(map2, t.category, c)) =
                 IF c = k THEN Cardinality(MapEntriesOf(t.map, t.category, c)) - 1
                 ELSE Cardinality(MapEntriesOf(t.map, t.category, c))
  BY <1>1, RemoveEntry
<1>3. t.managed # 0 /\ t.cmanaged[k] # 0
  BY <1>1, <1>2 DEF CountInv
<1>4. u = [t EXCEPT !.map[f] = None, !.managed = @ - 1, !.cmanaged[k] = @ - 1]
  BY <1>3 DEF AccountRemove
<1> HIDE DEF k, u
<1>5. /\ u.map = [t.map EXCEPT ![f] = None] /\ u.managed = t.managed - 1
      /\ u.cmanaged = [t.cmanaged EXCEPT ![k] = @ - 1] /\ u.category = t.category
      /\ u.open = t.open /\ u.fd = t.fd /\ u.pending = t.pending /\ u.thrown = t.thrown
      /\ u.unmanaged = t.unmanaged /\ SameLimits(t, u)
  BY <1>4 DEF SocketState, SameLimits
<1>6. u \in SocketState
  <2>1. PICK map \in [Fds -> Events \cup {None}], managed \in Nat, cmanaged \in [Categories -> Nat] :
          u = [t EXCEPT !.map = map, !.managed = managed, !.cmanaged = cmanaged]
    <3>1. /\ [t.map EXCEPT ![f] = None] \in [Fds -> Events \cup {None}]
          /\ t.managed - 1 \in Nat
          /\ [t.cmanaged EXCEPT ![k] = @ - 1] \in [Categories -> Nat]
      BY <1>1, <1>3
    <3>2. u = [t EXCEPT !.map = [t.map EXCEPT ![f] = None], !.managed = t.managed - 1,
                        !.cmanaged = [t.cmanaged EXCEPT ![k] = @ - 1]]
      BY <1>4
    <3> QED
      BY <3>1, <3>2, Zenon
  <2> QED
    BY <2>1, Zenon DEF SocketState
<1>7. CountInv(u)
  BY <1>1, <1>2, <1>5 DEF CountInv
<1> QED
  BY <1>5, <1>6, <1>7 DEF u

\* socket() or accept() has returned the lowest free descriptor.
LEMMA OpenedIsLoose ==
  ASSUME NEW t, SocketInv(t), Free(t) # {}
  PROVE  LET u == [t EXCEPT !.open = @ \cup {Lowest(t)}]
         IN  /\ Loose(u, Lowest(t)) /\ Lowest(t) \in Fds /\ SameLimits(t, u)
             /\ u.fd = t.fd /\ u.pending = t.pending
             /\ u.managed = t.managed /\ u.cmanaged = t.cmanaged /\ u.unmanaged = t.unmanaged
<1> DEFINE f == Lowest(t)
           u == [t EXCEPT !.open = @ \cup {f}]
<1>0. t \in SocketState
  BY DEF SocketInv
<1>1. f \in Fds /\ f \notin t.open /\ f # 0
  BY <1>0, LowestIsFree DEF SocketState
<1> HIDE DEF f
<1>2. u \in SocketState
  <2>1. t.open \cup {f} \in SUBSET Fds
    BY <1>0, <1>1 DEF SocketState
  <2> QED
    BY <2>1, <1>0, SMTT(60) DEF SocketState
<1>3. /\ u.open = t.open \cup {f} /\ u.fd = t.fd /\ u.pending = t.pending /\ u.map = t.map
      /\ u.category = t.category /\ u.managed = t.managed /\ u.cmanaged = t.cmanaged
      /\ u.unmanaged = t.unmanaged /\ u.thrown = t.thrown /\ SameLimits(t, u)
  BY <1>0 DEF SocketState, SameLimits
<1> HIDE DEF u
<1>4. OwnInv(u)
  BY <1>3 DEF OwnInv, SocketInv
<1>5. HeldInv(u, {f})
  BY <1>3 DEF HeldInv, SocketInv
<1>6. CountInv(u) /\ LimitInv(u)
  BY <1>3 DEF CountInv, LimitInv, SameLimits, SocketInv
<1>7. f \in u.open /\ u.map[f] = None /\ \A e \in Events : u.pending[e] # f
  BY <1>1, <1>3 DEF OwnInv, SocketInv
<1>8. Loose(u, f)
  BY <1>2, <1>3, <1>4, <1>5, <1>6, <1>7 DEF Loose, SocketInv
<1> QED
  BY <1>1, <1>3, <1>8 DEF f, u

\* The call that opened a descriptor goes on with it.
LEMMA TakenIsLoose ==
  ASSUME NEW t, SocketInv(t), NEW e \in Events, t.pending[e] # 0
  PROVE  LET u == [t EXCEPT !.pending[e] = 0]
         IN  /\ Loose(u, t.pending[e]) /\ t.pending[e] \in Fds /\ SameLimits(t, u)
             /\ u.fd = t.fd /\ u.pending[e] = 0 /\ u.fd[e] = 0
             /\ u.managed = t.managed /\ u.cmanaged = t.cmanaged /\ u.unmanaged = t.unmanaged
<1> DEFINE f == t.pending[e]
           u == [t EXCEPT !.pending[e] = 0]
<1>0. t \in SocketState
  BY DEF SocketInv
<1>1. /\ t.pending \in [Events -> Fds \cup {0}] /\ f \in Fds
      /\ f \in t.open /\ t.map[f] = None /\ t.fd[e] = 0 /\ f # 0
  BY <1>0 DEF SocketState, SocketInv, OwnInv
<1>2. u \in SocketState
  BY <1>0, <1>1, SMTT(60) DEF SocketState
<1>3. /\ u.open = t.open /\ u.fd = t.fd /\ u.pending = [t.pending EXCEPT ![e] = 0] /\ u.map = t.map
      /\ u.category = t.category /\ u.managed = t.managed /\ u.cmanaged = t.cmanaged
      /\ u.unmanaged = t.unmanaged /\ u.thrown = t.thrown /\ SameLimits(t, u)
  BY <1>0 DEF SocketState, SameLimits
<1> HIDE DEF f, u
<1>4. OwnInv(u)
  BY <1>1, <1>3 DEF OwnInv, SocketInv
<1>5. HeldInv(u, {f})
  BY <1>1, <1>3 DEF HeldInv, SocketInv, f
<1>6. CountInv(u) /\ LimitInv(u)
  BY <1>3 DEF CountInv, LimitInv, SameLimits, SocketInv
<1>7. \A x \in Events : u.pending[x] # f
  BY <1>1, <1>3 DEF OwnInv, SocketInv, f
<1>8. Loose(u, f)
  BY <1>1, <1>2, <1>3, <1>4, <1>5, <1>6, <1>7 DEF Loose, SocketInv
<1> QED
  BY <1>1, <1>3, <1>8 DEF f, u

\* A step that gives no handshake a descriptor keeps the limits.
LEMMA KeepsUnlessOpened ==
  ASSUME \A e \in Handshakes : sm'.fd[e] # 0 => sm.fd[e] # 0
  PROVE  KeepsLimits
  BY DEF KeepsLimits

\* can_open_socket_unsafe() leaves room for the one that is opened next.
LEMMA OneMoreFits ==
  ASSUME SocketInv(sm), CanOpenSocket(sm, "generic"), NEW e \in Handshakes,
         sm'.fd = [sm.fd EXCEPT ![e] = sm'.fd[e]],
         sm'.managed = sm.managed + 1, sm'.unmanaged = sm.unmanaged,
         sm'.cmanaged["generic"] = sm.cmanaged["generic"] + 1
  PROVE  KeepsLimits
<1>1. /\ sm.managed \in Nat /\ sm.unmanaged \in Nat /\ sm.max \in Nat
      /\ sm.cmanaged["generic"] \in Nat /\ sm.cmax["generic"] \in Int
  BY DEF SocketInv, SocketState, Categories
<1>2. /\ sm.managed + sm.unmanaged < sm.max
      /\ sm.cmax["generic"] # 0 => sm.cmanaged["generic"] < sm.cmax["generic"]
  BY DEF CanOpenSocket, Size
<1>3. /\ sm'.managed + sm'.unmanaged <= sm.max
      /\ sm.cmax["generic"] # 0 => sm'.cmanaged["generic"] <= sm.cmax["generic"]
  BY <1>1, <1>2
<1> QED
  BY <1>3 DEF KeepsLimits

\* accept() and socket() outside of the lock: the caller has the descriptor.
LEMMA HandsInv ==
  ASSUME NEW t, SocketInv(t), Free(t) # {}, NEW e \in Events \ {"curl"}, t.fd[e] = 0, t.pending[e] = 0
  PROVE  LET u == [t EXCEPT !.open = @ \cup {Lowest(t)}, !.pending[e] = Lowest(t)]
         IN  SocketInv(u) /\ u.fd = t.fd
<1> DEFINE f == Lowest(t)
           u == [t EXCEPT !.open = @ \cup {f}, !.pending[e] = f]
<1>0. t \in SocketState
  BY DEF SocketInv
<1>1. f \in Fds /\ f \notin t.open /\ f # 0
  BY <1>0, LowestIsFree DEF SocketState
<1> HIDE DEF f
<1>2. t.pending \in [Events -> Fds \cup {0}] /\ t.open \in SUBSET Fds
  BY <1>0 DEF SocketState
<1>3. u \in SocketState
  <2>1. t.open \cup {f} \in SUBSET Fds /\ [t.pending EXCEPT ![e] = f] \in [Events -> Fds \cup {0}]
    BY <1>1, <1>2
  <2> QED
    BY <2>1, <1>0, Zenon DEF SocketState
<1>4. /\ u.open = t.open \cup {f} /\ u.fd = t.fd /\ u.pending = [t.pending EXCEPT ![e] = f]
      /\ u.map = t.map /\ u.category = t.category /\ u.managed = t.managed
      /\ u.cmanaged = t.cmanaged /\ u.thrown = t.thrown /\ SameLimits(t, u)
  BY <1>0 DEF SocketState, SameLimits
<1> HIDE DEF u
<1>5. \A x \in Events : t.pending[x] # f
  BY <1>1 DEF OwnInv, SocketInv
<1>6. t.map[f] = None
  BY <1>1 DEF OwnInv, SocketInv
<1>7. OwnInv(u)
  <2>1. \A g \in Fds : u.map[g] # None => g \in u.open /\ u.fd[u.map[g]] = g
    BY <1>4 DEF OwnInv, SocketInv
  <2>2. \A x \in Events : u.fd[x] # 0 => u.map[u.fd[x]] = x
    BY <1>4 DEF OwnInv, SocketInv
  <2>3. \A x \in Events : u.pending[x] # 0 =>
          u.pending[x] \in u.open /\ u.map[u.pending[x]] = None /\ u.fd[x] = 0
    BY <1>2, <1>4, <1>6, SMTT(60) DEF OwnInv, SocketInv
  <2>4. \A x, y \in Events : u.pending[x] = u.pending[y] /\ u.pending[x] # 0 => x = y
    BY <1>2, <1>4, <1>5 DEF OwnInv, SocketInv
  <2> QED
    BY <2>1, <2>2, <2>3, <2>4 DEF OwnInv
<1>8. HeldInv(u, {})
  <2> SUFFICES ASSUME NEW g \in u.open
               PROVE  u.map[g] # None \/ \E x \in Events : u.pending[x] = g
    BY DEF HeldInv
  <2>1. CASE g = f
    BY <2>1, <1>2, <1>4
  <2>2. CASE g # f
    <3>1. g \in t.open /\ g # 0
      BY <2>2, <1>2, <1>4, SocketsAssumption
    <3>2. t.map[g] # None \/ \E x \in Events : t.pending[x] = g
      BY <3>1 DEF HeldInv, SocketInv
    <3> QED
      BY <3>1, <3>2, <1>2, <1>4
  <2> QED
    BY <2>1, <2>2
<1>9. CountInv(u) /\ LimitInv(u)
  BY <1>4 DEF CountInv, LimitInv, SameLimits, SocketInv
<1> QED
  BY <1>3, <1>4, <1>7, <1>8, <1>9 DEF SocketInv, f, u

\* An entry is erased by the event that has it, which no longer has it then: the
\* descriptor is loose.
LEMMA ErasedIsLoose ==
  ASSUME NEW t, SocketInv(t), NEW e \in Events, t.fd[e] # 0
  PROVE  LET u == AccountRemove([t EXCEPT !.fd[e] = 0], t.fd[e])
         IN  /\ t.map[t.fd[e]] = e /\ t.fd[e] \in Fds /\ t.fd[e] # 0
             /\ Loose(u, t.fd[e]) /\ SameLimits(t, u)
             /\ u.fd = [t.fd EXCEPT ![e] = 0] /\ u.pending = t.pending
<1> DEFINE f == t.fd[e]
           r == [t EXCEPT !.fd[e] = 0]
           u == AccountRemove(r, f)
<1>0. t \in SocketState
  BY DEF SocketInv
<1>1. t.fd \in [Events -> Fds \cup {0}] /\ f \in Fds /\ t.map[f] = e /\ e # None /\ f \in t.open
      /\ t.map \in [Fds -> Events \cup {None}]
  BY <1>0 DEF SocketState, SocketInv, OwnInv, Events, None
<1>2. r \in SocketState
  <2>1. [t.fd EXCEPT ![e] = 0] \in [Events -> Fds \cup {0}]
    BY <1>1
  <2> QED
    BY <2>1, <1>0, SMTT(60) DEF SocketState
<1>3. /\ r.open = t.open /\ r.fd = [t.fd EXCEPT ![e] = 0] /\ r.pending = t.pending
      /\ r.map = t.map /\ r.category = t.category /\ r.managed = t.managed
      /\ r.cmanaged = t.cmanaged /\ r.thrown = t.thrown /\ SameLimits(t, r)
  BY <1>0 DEF SocketState, SameLimits
<1> HIDE DEF f, r
<1>4. CountInv(r)
  BY <1>3 DEF CountInv, SocketInv
<1>5. /\ u \in SocketState /\ CountInv(u)
      /\ u.map = [r.map EXCEPT ![f] = None]
      /\ u.open = r.open /\ u.fd = r.fd /\ u.pending = r.pending /\ u.thrown = r.thrown
      /\ SameLimits(r, u)
  BY <1>1, <1>2, <1>3, <1>4, AccountRemoveCounts
<1> HIDE DEF u
<1>6. /\ u.map = [t.map EXCEPT ![f] = None] /\ u.open = t.open /\ u.fd = [t.fd EXCEPT ![e] = 0]
      /\ u.pending = t.pending /\ u.thrown = t.thrown /\ SameLimits(t, u)
  BY <1>3, <1>5 DEF SameLimits
<1>7. \A x \in Events : x # e => t.fd[x] # f
  BY <1>1 DEF SocketInv, OwnInv
<1>8. \A x \in Events : t.pending[x] # f
  BY <1>1 DEF SocketInv, OwnInv
<1>9. OwnInv(u)
  <2>1. \A g \in Fds : u.map[g] # None => g \in u.open /\ u.fd[u.map[g]] = g
    <3> SUFFICES ASSUME NEW g \in Fds, u.map[g] # None PROVE g \in u.open /\ u.fd[u.map[g]] = g
      OBVIOUS
    <3>1. g # f /\ u.map[g] = t.map[g] /\ t.map[g] \in Events
      BY <1>1, <1>6
    <3>2. g \in t.open /\ t.fd[t.map[g]] = g
      BY <3>1, <1>6 DEF SocketInv, OwnInv
    <3>3. t.map[g] # e
      BY <3>1, <3>2 DEF f
    <3> QED
      BY <3>1, <3>2, <3>3, <1>1, <1>6
  <2>2. \A x \in Events : u.fd[x] # 0 => u.map[u.fd[x]] = x
    BY <1>1, <1>6, <1>7, SMTT(60) DEF OwnInv, SocketInv
  <2>3. \A x \in Events : u.pending[x] # 0 =>
          u.pending[x] \in u.open /\ u.map[u.pending[x]] = None /\ u.fd[x] = 0
    BY <1>0, <1>1, <1>6, <1>8, SMTT(60) DEF OwnInv, SocketInv, SocketState
  <2>4. \A x, y \in Events : u.pending[x] = u.pending[y] /\ u.pending[x] # 0 => x = y
    BY <1>6 DEF OwnInv, SocketInv
  <2> QED
    BY <2>1, <2>2, <2>3, <2>4 DEF OwnInv
<1>10. HeldInv(u, {f})
  BY <1>0, <1>1, <1>6, SMTT(60) DEF HeldInv, SocketInv, SocketState
<1>11. LimitInv(u)
  BY <1>6 DEF LimitInv, SameLimits, SocketInv
<1>12. Loose(u, f)
  BY <1>1, <1>5, <1>6, <1>8, <1>9, <1>10, <1>11 DEF Loose, SocketInv
<1>13. f # 0
  BY DEF f
<1> QED
  BY <1>1, <1>6, <1>12, <1>13 DEF f, r, u

LEMMA CreateOutgoingInv ==
  ASSUME SocketInv(sm), CreateOutgoing
  PROVE  SocketInv(sm') /\ KeepsLimits
<1>1. PICK e \in Handshakes, opened \in BOOLEAN :
        /\ sm.fd[e] = 0 /\ sm.pending[e] = 0 /\ Free(sm) # {} /\ CanOpenSocket(sm, "generic")
        /\ sm' = IF opened THEN Insert([sm EXCEPT !.open = @ \cup {Lowest(sm)}], e, Lowest(sm)) ELSE sm
  BY DEF CreateOutgoing
<1>2. e \in Events /\ CategoryOf[e] = "generic"
  BY DEF Handshakes, Events, CategoryOf
<1>3. CASE ~opened
  BY <1>1, <1>3, KeepsUnlessOpened
<1>4. CASE opened
  <2> DEFINE f == Lowest(sm)
             u == [sm EXCEPT !.open = @ \cup {f}]
  <2>1. /\ Loose(u, f) /\ f \in Fds /\ u.fd = sm.fd /\ u.pending = sm.pending
        /\ u.managed = sm.managed /\ u.cmanaged = sm.cmanaged /\ u.unmanaged = sm.unmanaged
    BY <1>1, OpenedIsLoose
  <2>2. sm' = Insert(u, e, f)
    BY <1>1, <1>4
  <2> HIDE DEF f, u
  <2>3. /\ SocketInv(sm') /\ sm'.unmanaged = u.unmanaged /\ sm'.fd = [u.fd EXCEPT ![e] = f]
        /\ sm'.managed = u.managed + 1 /\ sm'.cmanaged["generic"] = u.cmanaged["generic"] + 1
    BY <1>1, <1>2, <2>1, <2>2, InsertInv
  <2>4. sm.fd \in [Events -> Fds \cup {0}]
    BY DEF SocketInv, SocketState
  <2>5. sm'.fd = [sm.fd EXCEPT ![e] = sm'.fd[e]]
    BY <1>2, <2>1, <2>3, <2>4
  <2>6. KeepsLimits
    BY <1>1, <2>1, <2>3, <2>5, OneMoreFits, SMTT(60)
  <2> QED
    BY <2>3, <2>6
<1> QED
  BY <1>3, <1>4

LEMMA AcceptInv ==
  ASSUME SocketInv(sm), Accept
  PROVE  SocketInv(sm') /\ KeepsLimits
<1>1. PICK e \in Handshakes :
        /\ sm.fd[e] = 0 /\ sm.pending[e] = 0 /\ Free(sm) # {}
        /\ sm' = [sm EXCEPT !.open = @ \cup {Lowest(sm)}, !.pending[e] = Lowest(sm)]
  BY Zenon DEF Accept
<1>2. e \in Events \ {"curl"}
  BY SMTT(60) DEF Handshakes, Events
<1>3. SocketInv(sm') /\ sm'.fd = sm.fd
  BY <1>1, <1>2, HandsInv, Zenon
<1> QED
  BY <1>3, KeepsUnlessOpened

LEMMA RouterSocketInv ==
  ASSUME SocketInv(sm), RouterSocket
  PROVE  SocketInv(sm') /\ KeepsLimits
<1>1. /\ sm.fd["router"] = 0 /\ sm.pending["router"] = 0 /\ Free(sm) # {}
      /\ sm' = [sm EXCEPT !.open = @ \cup {Lowest(sm)}, !.pending["router"] = Lowest(sm)]
  BY DEF RouterSocket
<1>2. "router" \in Events \ {"curl"}
  BY SMTT(60) DEF Events
<1>3. SocketInv(sm') /\ sm'.fd = sm.fd
  BY <1>1, <1>2, HandsInv, Zenon
<1> QED
  BY <1>3, KeepsUnlessOpened

\* CanOpenSocket() reads counts and limits only.
LEMMA SameAnswer ==
  ASSUME NEW t, NEW u, SameLimits(t, u), u.managed = t.managed, u.unmanaged = t.unmanaged,
         u.cmanaged = t.cmanaged
  PROVE  CanOpenSocket(u, "generic") = CanOpenSocket(t, "generic")
  BY DEF CanOpenSocket, Size, SameLimits

LEMMA OpenAcceptedInv ==
  ASSUME SocketInv(sm), OpenAccepted
  PROVE  SocketInv(sm') /\ KeepsLimits
<1>1. PICK e \in Handshakes, wanted \in BOOLEAN :
        /\ sm.pending[e] # 0
        /\ sm' = AcceptOpens([sm EXCEPT !.pending[e] = 0], e, sm.pending[e], wanted)
  BY Zenon DEF OpenAccepted
<1>2. e \in Events /\ CategoryOf[e] = "generic"
  BY DEF Handshakes, Events, CategoryOf
<1> DEFINE f == sm.pending[e]
           u == [sm EXCEPT !.pending[e] = 0]
<1>3. /\ Loose(u, f) /\ f \in Fds /\ SameLimits(sm, u)
      /\ u.fd = sm.fd /\ u.pending[e] = 0 /\ u.fd[e] = 0
      /\ u.managed = sm.managed /\ u.cmanaged = sm.cmanaged /\ u.unmanaged = sm.unmanaged
  BY <1>1, <1>2, TakenIsLoose
<1>4. sm' = IF ~CanOpenSocket(u, "generic") \/ ~wanted \/ u.map[f] # None
            THEN KernelClose(u, f) ELSE Insert(u, e, f)
  BY <1>1 DEF AcceptOpens
<1> HIDE DEF f, u
<1>5. CASE ~CanOpenSocket(u, "generic") \/ ~wanted \/ u.map[f] # None
  <2>1. SocketInv(sm') /\ sm'.fd = sm.fd
    BY <1>3, <1>4, <1>5, KernelCloseInv
  <2> QED
    BY <2>1, KeepsUnlessOpened
<1>6. CASE ~(~CanOpenSocket(u, "generic") \/ ~wanted \/ u.map[f] # None)
  <2>1. CanOpenSocket(sm, "generic")
    BY <1>3, <1>6, SameAnswer
  <2>2. sm' = Insert(u, e, f)
    BY <1>4, <1>6
  <2>3. /\ SocketInv(sm') /\ sm'.unmanaged = u.unmanaged /\ sm'.fd = [u.fd EXCEPT ![e] = f]
        /\ sm'.managed = u.managed + 1 /\ sm'.cmanaged["generic"] = u.cmanaged["generic"] + 1
    BY <1>2, <1>3, <2>2, InsertInv
  <2>4. sm.fd \in [Events -> Fds \cup {0}]
    BY DEF SocketInv, SocketState
  <2>5. sm'.fd = [sm.fd EXCEPT ![e] = sm'.fd[e]]
    BY <1>2, <1>3, <2>3, <2>4
  <2>6. KeepsLimits
    BY <1>3, <2>1, <2>3, <2>5, OneMoreFits
  <2> QED
    BY <2>3, <2>6
<1> QED
  BY <1>5, <1>6

LEMMA RouterRegistersInv ==
  ASSUME SocketInv(sm), RouterRegisters
  PROVE  SocketInv(sm') /\ KeepsLimits
<1> DEFINE f == sm.pending["router"]
           u == [sm EXCEPT !.pending["router"] = 0]
<1>1. f # 0 /\ sm' = Insert(u, "router", f)
  BY DEF RouterRegisters
<1>2. "router" \in Events /\ "router" \notin Handshakes
  BY DEF Events, Handshakes
<1>3. Loose(u, f) /\ f \in Fds /\ u.fd = sm.fd /\ u.pending["router"] = 0 /\ u.fd["router"] = 0
  BY <1>1, <1>2, TakenIsLoose
<1> HIDE DEF f, u
<1>4. SocketInv(sm') /\ sm'.fd = [sm.fd EXCEPT !["router"] = f]
  BY <1>1, <1>2, <1>3, InsertInv
<1>5. \A e \in Handshakes : sm'.fd[e] = sm.fd[e]
  BY <1>2, <1>4 DEF SocketInv, SocketState, Handshakes, Events
<1> QED
  BY <1>4, <1>5, KeepsUnlessOpened

LEMMA CurlOpensInv ==
  ASSUME SocketInv(sm), CurlOpens
  PROVE  SocketInv(sm') /\ KeepsLimits
<1> DEFINE f == Lowest(sm)
           u == [sm EXCEPT !.open = @ \cup {f}]
<1>1. sm.fd["curl"] = 0 /\ Free(sm) # {} /\ sm' = Insert(u, "curl", f)
  BY DEF CurlOpens
<1>2. "curl" \in Events /\ "curl" \notin Handshakes
  BY DEF Events, Handshakes
<1>3. Loose(u, f) /\ f \in Fds /\ u.fd = sm.fd /\ u.pending = sm.pending
  BY <1>1, OpenedIsLoose
<1> HIDE DEF f, u
<1>4. u.pending["curl"] = 0
  BY <1>3 DEF SocketInv
<1>5. SocketInv(sm') /\ sm'.fd = [sm.fd EXCEPT !["curl"] = f]
  BY <1>1, <1>2, <1>3, <1>4, InsertInv
<1>6. \A e \in Handshakes : sm'.fd[e] = sm.fd[e]
  BY <1>2, <1>5 DEF SocketInv, SocketState, Handshakes, Events
<1> QED
  BY <1>5, <1>6, KeepsUnlessOpened

LEMMA CloseRefusedInv ==
  ASSUME SocketInv(sm), CloseRefused
  PROVE  SocketInv(sm') /\ KeepsLimits
<1> DEFINE f == sm.pending["peer"]
           u == [sm EXCEPT !.pending["peer"] = 0]
<1>1. f # 0 /\ sm' = [KernelClose(sm, f) EXCEPT !.pending["peer"] = 0]
  BY DEF CloseRefused
<1>2. "peer" \in Events
  BY DEF Events
<1>3. Loose(u, f) /\ f \in Fds /\ u.fd = sm.fd
  BY <1>1, <1>2, TakenIsLoose
<1>4. sm' = KernelClose(u, f)
  BY <1>1, Zenon DEF KernelClose, SocketInv, SocketState
<1> HIDE DEF f, u
<1>5. SocketInv(sm') /\ sm'.fd = sm.fd
  BY <1>3, <1>4, KernelCloseInv
<1> QED
  BY <1>5, KeepsUnlessOpened

\* It makes no difference whether the descriptor is closed before or after its
\* entry was erased.
LEMMA CloseErasedCommute ==
  ASSUME NEW r \in SocketState, NEW f \in Fds
  PROVE  AccountRemove(KernelClose(r, f), f) = KernelClose(AccountRemove(r, f), f)
<1> DEFINE c == KernelClose(r, f)
           k == r.category[f]
<1>1. c = [r EXCEPT !.open = @ \ {f}]
  BY DEF KernelClose
<1>2. c.managed = r.managed /\ c.cmanaged = r.cmanaged /\ c.category = r.category
  BY <1>1 DEF SocketState
<1>3. CASE r.managed = 0 \/ r.cmanaged[k] = 0
  <2>1. AccountRemove(c, f) = [c EXCEPT !.thrown = TRUE]
    BY <1>2, <1>3 DEF AccountRemove, Throw
  <2>2. AccountRemove(r, f) = [r EXCEPT !.thrown = TRUE]
    BY <1>3 DEF AccountRemove, Throw
  <2> QED
    BY <1>1, <2>1, <2>2, Zenon DEF KernelClose, SocketState
<1>4. CASE ~(r.managed = 0 \/ r.cmanaged[k] = 0)
  <2> DEFINE map == [r.map EXCEPT ![f] = None]
             managed == r.managed - 1
             cmanaged == [r.cmanaged EXCEPT ![k] = @ - 1]
  <2>1. AccountRemove(c, f) = [c EXCEPT !.map = map, !.managed = managed, !.cmanaged = cmanaged]
    <3>1. AccountRemove(c, f) = [c EXCEPT !.map[f] = None, !.managed = @ - 1, !.cmanaged[k] = @ - 1]
      BY <1>2, <1>4 DEF AccountRemove
    <3>2. c.map = r.map
      BY <1>1 DEF SocketState
    <3> QED
      BY <3>1, <3>2, <1>2, Zenon
  <2>2. AccountRemove(r, f) = [r EXCEPT !.map = map, !.managed = managed, !.cmanaged = cmanaged]
    BY <1>4 DEF AccountRemove
  <2> HIDE DEF map, managed, cmanaged
  <2> QED
    BY <1>1, <2>1, <2>2, ZenonT(60) DEF KernelClose, SocketState
<1> QED
  BY <1>3, <1>4

LEMMA CloseInv ==
  ASSUME SocketInv(sm), Close
  PROVE  SocketInv(sm') /\ KeepsLimits
<1>1. PICK e \in Events : sm.fd[e] # 0 /\ sm' = CloseEvent(sm, e)
  BY DEF Close
<1> DEFINE f == sm.fd[e]
           r == [sm EXCEPT !.fd[e] = 0]
           u == AccountRemove(r, f)
<1>2. /\ sm.map[f] = e /\ f \in Fds /\ f # 0 /\ Loose(u, f) /\ u.fd = [sm.fd EXCEPT ![e] = 0]
  BY <1>1, ErasedIsLoose
<1>3. sm' = AccountRemove([KernelClose(sm, f) EXCEPT !.fd[e] = 0], f)
  BY <1>1, <1>2 DEF CloseEvent
<1>4. [KernelClose(sm, f) EXCEPT !.fd[e] = 0] = KernelClose(r, f)
  BY Zenon DEF KernelClose, SocketInv, SocketState
<1>5. AccountRemove(KernelClose(r, f), f) = KernelClose(u, f)
  <2>1. r \in SocketState
    BY SMTT(60) DEF SocketInv, SocketState
  <2> HIDE DEF r
  <2> QED
    BY <2>1, <1>2, CloseErasedCommute
<1>6. sm' = KernelClose(u, f)
  BY <1>3, <1>4, <1>5
<1> HIDE DEF f, u
<1>7. SocketInv(sm') /\ sm'.fd = [sm.fd EXCEPT ![e] = 0]
  BY <1>2, <1>6, KernelCloseInv
<1>8. \A x \in Handshakes : sm'.fd[x] # 0 => sm.fd[x] # 0
  BY <1>7 DEF SocketInv, SocketState, Handshakes, Events
<1> QED
  BY <1>7, <1>8, KeepsUnlessOpened

\* The connection that was refused has to close the descriptor itself.
LEMMA LooseInHands ==
  ASSUME NEW t, NEW f \in Fds, Loose(t, f), NEW e \in Events \ {"curl"}, t.fd[e] = 0, t.pending[e] = 0
  PROVE  LET u == [t EXCEPT !.pending[e] = f]
         IN  SocketInv(u) /\ u.fd = t.fd
<1> DEFINE u == [t EXCEPT !.pending[e] = f]
<1>0. t \in SocketState
  BY DEF Loose
<1>1. t.pending \in [Events -> Fds \cup {0}] /\ t.open \in SUBSET Fds /\ f # 0
  BY <1>0, SocketsAssumption DEF SocketState
<1>2. u \in SocketState
  <2>1. [t.pending EXCEPT ![e] = f] \in [Events -> Fds \cup {0}]
    BY <1>1
  <2> QED
    BY <2>1, <1>0, SMTT(60) DEF SocketState
<1>3. /\ u.open = t.open /\ u.fd = t.fd /\ u.pending = [t.pending EXCEPT ![e] = f]
      /\ u.map = t.map /\ u.category = t.category /\ u.managed = t.managed
      /\ u.cmanaged = t.cmanaged /\ u.thrown = t.thrown /\ SameLimits(t, u)
  BY <1>0 DEF SocketState, SameLimits
<1> HIDE DEF u
<1>4. OwnInv(u)
  <2>1. /\ \A g \in Fds : u.map[g] # None => g \in u.open /\ u.fd[u.map[g]] = g
        /\ \A x \in Events : u.fd[x] # 0 => u.map[u.fd[x]] = x
    BY <1>3, SMTT(60) DEF OwnInv, Loose
  <2>2. \A x \in Events : u.pending[x] # 0 =>
          u.pending[x] \in u.open /\ u.map[u.pending[x]] = None /\ u.fd[x] = 0
    BY <1>1, <1>3, SMTT(60) DEF OwnInv, Loose
  <2>3. \A x, y \in Events : u.pending[x] = u.pending[y] /\ u.pending[x] # 0 => x = y
    BY <1>1, <1>3 DEF OwnInv, Loose
  <2> QED
    BY <2>1, <2>2, <2>3 DEF OwnInv
<1>5. HeldInv(u, {})
  <2> SUFFICES ASSUME NEW g \in u.open
               PROVE  u.map[g] # None \/ \E x \in Events : u.pending[x] = g
    BY DEF HeldInv
  <2>1. CASE g = f
    BY <2>1, <1>1, <1>3
  <2>2. CASE g # f
    <3>1. g \in t.open /\ g # 0
      BY <1>1, <1>3, SocketsAssumption
    <3>2. t.map[g] # None \/ \E x \in Events : t.pending[x] = g
      BY <2>2, <3>1, SMTT(60) DEF HeldInv, Loose
    <3> QED
      BY <3>1, <3>2, <1>1, <1>3
  <2> QED
    BY <2>1, <2>2
<1>6. CountInv(u) /\ LimitInv(u)
  BY <1>3 DEF CountInv, LimitInv, SameLimits, Loose
<1>7. u.pending["curl"] = 0
  BY <1>1, <1>3 DEF Loose, Events
<1> QED
  BY <1>2, <1>3, <1>4, <1>5, <1>6, <1>7 DEF SocketInv, Loose, u

\* transfer_event(): the entry stays and changes its owner.
LEMMA TransferredInv ==
  ASSUME NEW t, SocketInv(t), NEW e \in Events \ {"peer"}, t.fd[e] # 0,
         t.fd["peer"] = 0, t.pending["peer"] = 0
  PROVE  LET f == t.fd[e]
             u == [[t EXCEPT !.fd[e] = 0] EXCEPT !.fd["peer"] = f, !.map[f] = "peer"]
         IN  SocketInv(u) /\ u.fd = [t.fd EXCEPT ![e] = 0, !["peer"] = f]
<1> DEFINE f == t.fd[e]
           fd == [t.fd EXCEPT ![e] = 0, !["peer"] = f]
           map == [t.map EXCEPT ![f] = "peer"]
           u == [[t EXCEPT !.fd[e] = 0] EXCEPT !.fd["peer"] = f, !.map[f] = "peer"]
<1>0. t \in SocketState
  BY SMTT(60) DEF SocketInv
<1>1. /\ t.fd \in [Events -> Fds \cup {0}] /\ t.map \in [Fds -> Events \cup {None}]
      /\ t.pending \in [Events -> Fds \cup {0}]
      /\ f \in Fds /\ f # 0 /\ t.map[f] = e /\ f \in t.open
      /\ "peer" \in Events /\ None \notin Events
  BY <1>0 DEF SocketState, SocketInv, OwnInv, Events, None
<1>2. fd \in [Events -> Fds \cup {0}] /\ map \in [Fds -> Events \cup {None}]
  BY <1>1
<1>3. u = [t EXCEPT !.fd = fd, !.map = map]
  BY <1>0, Zenon DEF SocketState
<1> HIDE DEF u
<1>4. /\ \A x \in Events : fd[x] = IF x = "peer" THEN f ELSE IF x = e THEN 0 ELSE t.fd[x]
      /\ \A g \in Fds : map[g] = IF g = f THEN "peer" ELSE t.map[g]
  BY <1>1
<1> HIDE DEF f, fd, map
<1>5. u \in SocketState
  BY <1>0, <1>2, <1>3, Zenon DEF SocketState
<1>6. /\ u.open = t.open /\ u.fd = fd /\ u.pending = t.pending
      /\ u.map = map /\ u.category = t.category /\ u.managed = t.managed
      /\ u.cmanaged = t.cmanaged /\ u.thrown = t.thrown /\ SameLimits(t, u)
  BY <1>0, <1>3, SMTT(60) DEF SocketState, SameLimits
<1>7. OwnInv(u)
  <2>1. \A g \in Fds : map[g] # None => g \in t.open /\ fd[map[g]] = g
    <3> SUFFICES ASSUME NEW g \in Fds, map[g] # None PROVE g \in t.open /\ fd[map[g]] = g
      OBVIOUS
    <3>1. CASE g = f
      BY <3>1, <1>1, <1>4
    <3>2. CASE g # f
      <4>1. map[g] = t.map[g] /\ t.map[g] \in Events
        BY <3>2, <1>1, <1>4, SMTT(60)
      <4>2. g \in t.open /\ t.fd[t.map[g]] = g /\ g # 0
        BY <4>1, SocketsAssumption DEF OwnInv, SocketInv
      <4>3. t.map[g] # e /\ t.map[g] # "peer"
        BY <3>2, <4>2 DEF f
      <4> QED
        BY <4>1, <4>2, <4>3, <1>4
    <3> QED
      BY <3>1, <3>2
  <2>2. \A x \in Events : fd[x] # 0 => map[fd[x]] = x
    <3> SUFFICES ASSUME NEW x \in Events, fd[x] # 0 PROVE map[fd[x]] = x
      OBVIOUS
    <3>1. CASE x = "peer"
      BY <3>1, <1>1, <1>4
    <3>2. CASE x # "peer"
      <4>1. x # e /\ fd[x] = t.fd[x] /\ t.fd[x] # 0
        BY <3>2, <1>4, SMTT(60)
      <4>2. t.map[t.fd[x]] = x /\ t.fd[x] \in Fds
        BY <4>1, <1>1 DEF OwnInv, SocketInv
      <4> QED
        BY <4>1, <4>2, <1>1, <1>4, SMTT(60)
    <3> QED
      BY <3>1, <3>2
  <2>3. \A x \in Events : t.pending[x] # 0 =>
          t.pending[x] \in t.open /\ map[t.pending[x]] = None /\ fd[x] = 0
    <3> SUFFICES ASSUME NEW x \in Events, t.pending[x] # 0
                 PROVE  t.pending[x] \in t.open /\ map[t.pending[x]] = None /\ fd[x] = 0
      BY Zenon
    <3>1. t.pending[x] \in t.open /\ t.map[t.pending[x]] = None /\ t.fd[x] = 0 /\ t.pending[x] \in Fds
      BY <1>1 DEF OwnInv, SocketInv
    <3>2. t.pending[x] # f /\ x # "peer"
      BY <3>1, <1>1
    <3> QED
      BY <3>1, <3>2, <1>4
  <2>4. \A x, y \in Events : t.pending[x] = t.pending[y] /\ t.pending[x] # 0 => x = y
    BY DEF OwnInv, SocketInv
  <2> QED
    BY <2>1, <2>2, <2>3, <2>4, <1>6 DEF OwnInv
<1>8. HeldInv(u, {})
  <2>1. \A g \in t.open : t.map[g] # None => map[g] # None
    BY <1>0, <1>1, <1>4, SMTT(60) DEF SocketState
  <2> QED
    BY <2>1, <1>6 DEF HeldInv, SocketInv
<1>9. CountInv(u)
  <2>1. \A g \in Fds : (map[g] # None) <=> (t.map[g] # None)
    BY <1>1, <1>4
  <2>2. MapEntries(map) = MapEntries(t.map)
    BY <2>1 DEF MapEntries
  <2>3. \A c \in Categories : MapEntriesOf(map, t.category, c) = MapEntriesOf(t.map, t.category, c)
    BY <2>1 DEF MapEntriesOf
  <2> QED
    BY <2>2, <2>3, <1>6 DEF CountInv, SocketInv
<1>10. LimitInv(u)
  BY <1>6 DEF LimitInv, SameLimits, SocketInv
<1> QED
  BY <1>5, <1>6, <1>7, <1>8, <1>9, <1>10 DEF SocketInv, f, fd, u

LEMMA ReceiveSucceededInv ==
  ASSUME SocketInv(sm), ReceiveSucceeded
  PROVE  SocketInv(sm') /\ KeepsLimits
<1>1. PICK e \in Handshakes, accepted \in BOOLEAN :
        sm.fd[e] # 0 /\ sm.fd["peer"] = 0 /\ sm.pending["peer"] = 0 /\ sm' = Transfer(sm, e, accepted)
  BY DEF ReceiveSucceeded
<1>2. /\ e \in Events \ {"peer"} /\ "peer" \in Events \ {"curl"}
      /\ "peer" \notin Handshakes /\ Handshakes \subseteq Events
  BY DEF Handshakes, Events
<1>3. sm.fd \in [Events -> Fds \cup {0}]
  BY DEF SocketInv, SocketState
<1> DEFINE f == sm.fd[e]
           u == AccountRemove([sm EXCEPT !.fd[e] = 0], f)
<1>4. /\ sm.map[f] = e /\ f \in Fds /\ f # 0 /\ Loose(u, f)
      /\ u.fd = [sm.fd EXCEPT ![e] = 0] /\ u.pending = sm.pending
  BY <1>1, <1>2, ErasedIsLoose
<1>5. CASE accepted
  <2> DEFINE v == [[sm EXCEPT !.fd[e] = 0] EXCEPT !.fd["peer"] = f, !.map[f] = "peer"]
  <2>1. sm' = v
    BY <1>1, <1>4, <1>5 DEF Transfer
  <2>2. SocketInv(sm') /\ sm'.fd = [sm.fd EXCEPT ![e] = 0, !["peer"] = f]
    <3>1. SocketInv(v) /\ v.fd = [sm.fd EXCEPT ![e] = 0, !["peer"] = f]
      BY <1>1, <1>2, TransferredInv, Zenon
    <3> HIDE DEF v, f
    <3> QED
      BY <2>1, <3>1
  <2>3. \A x \in Handshakes : sm'.fd[x] # 0 => sm.fd[x] # 0
    BY <2>2, <1>2, <1>3
  <2> QED
    BY <2>2, <2>3, KeepsUnlessOpened
<1>6. CASE ~accepted
  <2>1. sm' = [u EXCEPT !.pending["peer"] = f]
    BY <1>1, <1>4, <1>6 DEF Transfer
  <2> HIDE DEF f, u
  <2>2. u.fd["peer"] = 0 /\ u.pending["peer"] = 0
    BY <1>1, <1>2, <1>3, <1>4
  <2>3. SocketInv(sm') /\ sm'.fd = [sm.fd EXCEPT ![e] = 0]
    BY <2>1, <2>2, <1>2, <1>4, LooseInHands, ZenonT(60)
  <2>4. \A x \in Handshakes : sm'.fd[x] # 0 => sm.fd[x] # 0
    BY <2>3, <1>2, <1>3
  <2> QED
    BY <2>3, <2>4, KeepsUnlessOpened
<1> QED
  BY <1>5, <1>6

-----------------------------------------------------------------------------
(* The limits.                                                             *)

LEMMA PairBounds ==
  ASSUME NEW a \in Nat, NEW b \in Nat
  PROVE  Min({a, b}) \in Nat /\ Max({a, b}) \in Nat
<1>1. \E x \in {a, b} : \A y \in {a, b} : x <= y
  <2>1. a <= b \/ b <= a
    OBVIOUS
  <2> QED
    BY <2>1
<1>2. \E x \in {a, b} : \A y \in {a, b} : x >= y
  <2>1. a >= b \/ b >= a
    OBVIOUS
  <2> QED
    BY <2>1
<1>3. Min({a, b}) \in {a, b}
  BY <1>1, Zenon DEF Min
<1>4. Max({a, b}) \in {a, b}
  BY <1>2, Zenon DEF Max
<1> QED
  BY <1>3, <1>4

LEMMA AllocationIsNat ==
  ASSUME NEW t \in SocketState, NEW c \in Limited, NEW n \in Nat
  PROVE  Allocation(t, c, n) \in Nat
<1>1. DefaultAlloc(c, n) \in Nat
  BY DEF DefaultAlloc, Limited, Categories
<1>2. t.min_alloc[c] \in Nat /\ t.max_alloc[c] \in Nat
  BY DEF SocketState
<1>3. Max({DefaultAlloc(c, n), t.min_alloc[c]}) \in Nat
  BY <1>1, <1>2, PairBounds, Zenon
<1> HIDE DEF DefaultAlloc
<1> QED
  BY <1>2, <1>3, PairBounds, Zenon DEF Allocation

\* A change of limits, settings or unmanaged sockets leaves the sockets alone.
LEMMA SettingsInv ==
  ASSUME NEW t, NEW u, SocketInv(t), u \in SocketState, SameSockets(t, u), LimitInv(u)
  PROVE  SocketInv(u)
<1>1. OwnInv(u) /\ HeldInv(u, {}) /\ CountInv(u)
  BY DEF SocketInv, SameSockets, OwnInv, HeldInv, CountInv
<1> QED
  BY <1>1, SMTT(60) DEF SocketInv, SameSockets

\* adjust_allocation_unsafe() changes every limit or none.
LEMMA AdjustInv ==
  ASSUME NEW t, SocketInv(t), NEW n \in Nat
  PROVE  SocketInv(AdjustAllocation(t, n)) /\ AdjustAllocation(t, n).fd = t.fd
<1> DEFINE u == AdjustAllocation(t, n)
           cmax == [c \in Categories |-> IF c = "generic" THEN n - Total(t, n) ELSE Allocation(t, c, n)]
<1>0. t \in SocketState
  BY DEF SocketInv
<1>1. CASE ~CanAllocate(t, n)
  BY <1>1 DEF AdjustAllocation
<1>2. CASE CanAllocate(t, n)
  <2>1. u = [t EXCEPT !.max = n, !.posted = {"main", "net"}, !.cmax = cmax]
    BY <1>2 DEF AdjustAllocation
  <2>2. \A c \in Limited : Allocation(t, c, n) \in Nat
    BY <1>0, AllocationIsNat
  <2>3. Reserved(n) \in Nat /\ MinGeneric(n) \in Nat
    BY DEF Reserved, MinGeneric
  <2>4. "internal" \in Limited /\ "http" \in Limited /\ "rpc" \in Limited /\ "files" \in Limited
        /\ Limited = Categories \ {"generic"} /\ "generic" \in Categories
    BY DEF Limited, Categories
  <2>5. Total(t, n) = Allocation(t, "internal", n) + Allocation(t, "http", n)
                        + Allocation(t, "rpc", n) + Allocation(t, "files", n) + Reserved(n)
        /\ Total(t, n) \in Int
    BY <2>2, <2>3, <2>4 DEF Total
  <2>6. /\ Total(t, n) + MinGeneric(n) + AllocationHeadroom <= n
        /\ Allocation(t, "files", n) >= 4
    BY <1>2, <2>2, <2>4 DEF CanAllocate, AllocMinimum, AllocLimit
  <2>7. cmax \in [Categories -> Int]
    BY <2>2, <2>4, <2>5
  <2>8. /\ cmax["generic"] = n - Total(t, n)
        /\ cmax["internal"] = Allocation(t, "internal", n) /\ cmax["http"] = Allocation(t, "http", n)
        /\ cmax["rpc"] = Allocation(t, "rpc", n) /\ cmax["files"] = Allocation(t, "files", n)
    BY DEF Categories
  <2> HIDE DEF u, cmax
  <2>9. u \in SocketState
    BY <1>0, <2>1, <2>7, Zenon DEF SocketState
  <2>10. SameSockets(t, u) /\ u.max = n /\ u.cmax = cmax /\ u.posted = {"main", "net"}
    BY <1>0, <2>1 DEF SameSockets, SocketState
  <2>11. /\ cmax["generic"] + cmax["internal"] + cmax["http"] + cmax["rpc"] + cmax["files"] + Reserved(n) = n
         /\ cmax["generic"] >= MinGeneric(n) + AllocationHeadroom
    BY <2>2, <2>3, <2>4, <2>5, <2>6, <2>8, SMTT(60) DEF AllocationHeadroom
  <2>12. LimitInv(u)
    BY <2>6, <2>8, <2>10, <2>11 DEF LimitInv
  <2> QED
    BY <2>9, <2>10, <2>12, SettingsInv DEF u, SameSockets
<1> QED
  BY <1>1, <1>2

\* set_max_size_and_adjust(), the setters of the allocations, the callbacks of
\* the two threads and the count of unmanaged sockets.
LEMMA SettingsStepInv ==
  ASSUME SocketInv(sm),
         \/ SetMaxSizeAndAdjust \/ SetCategoryMinAllocation \/ SetCategoryMaxAllocation
         \/ AdjustAllocationAgain \/ MainSetsLimit \/ NetSetsLimit \/ AddUnmanaged \/ RemoveUnmanaged
  PROVE  SocketInv(sm') /\ sm'.fd = sm.fd
<1>0. sm \in SocketState /\ LimitInv(sm)
  BY DEF SocketInv
<1>1. CASE SetMaxSizeAndAdjust
  <2>1. PICK n \in MaxOpens : sm' = IF n < 512 THEN sm ELSE AdjustAllocation(sm, n)
    BY <1>1 DEF SetMaxSizeAndAdjust
  <2>2. n \in Nat
    BY SocketsAssumption
  <2> QED
    BY <2>1, <2>2, AdjustInv
<1>2. CASE SetCategoryMinAllocation
  <2>1. PICK c \in {"http", "files"}, n \in Allocs : sm' = [sm EXCEPT !.min_alloc[c] = n]
    BY <1>2 DEF SetCategoryMinAllocation
  <2>2. sm' \in SocketState
    <3>1. [sm.min_alloc EXCEPT ![c] = n] \in [Limited -> Nat]
      BY <1>0, SocketsAssumption DEF SocketState, Limited, Categories
    <3> QED
      BY <2>1, <3>1, <1>0, SMTT(60) DEF SocketState
  <2>3. SameSockets(sm, sm') /\ SameLimits(sm, sm')
    BY <2>1, <1>0 DEF SocketState, SameSockets, SameLimits
  <2>4. LimitInv(sm')
    BY <2>3, <1>0 DEF LimitInv, SameLimits
  <2> QED
    BY <2>2, <2>3, <2>4, SettingsInv DEF SameSockets
<1>3. CASE SetCategoryMaxAllocation
  <2>1. PICK c \in {"http", "files"}, n \in Allocs : sm' = [sm EXCEPT !.max_alloc[c] = n]
    BY <1>3 DEF SetCategoryMaxAllocation
  <2>2. sm' \in SocketState
    <3>1. [sm.max_alloc EXCEPT ![c] = n] \in [Limited -> Nat]
      BY <1>0, SocketsAssumption DEF SocketState, Limited, Categories
    <3> QED
      BY <2>1, <3>1, <1>0, SMTT(60) DEF SocketState
  <2>3. SameSockets(sm, sm') /\ SameLimits(sm, sm')
    BY <2>1, <1>0 DEF SocketState, SameSockets, SameLimits
  <2>4. LimitInv(sm')
    BY <2>3, <1>0 DEF LimitInv, SameLimits
  <2> QED
    BY <2>2, <2>3, <2>4, SettingsInv DEF SameSockets
<1>4. CASE AdjustAllocationAgain
  <2>1. sm' = AdjustAllocation(sm, sm.max) /\ sm.max \in Nat
    BY <1>0, <1>4 DEF AdjustAllocationAgain, SocketState
  <2> QED
    BY <2>1, AdjustInv
<1>5. CASE MainSetsLimit
  <2>1. sm' = [sm EXCEPT !.posted = @ \ {"main"}, !.file_limit = sm.cmax["files"]]
    BY <1>5 DEF MainSetsLimit
  <2>2. sm' \in SocketState
    <3>1. sm.posted \ {"main"} \in SUBSET {"main", "net"} /\ sm.cmax["files"] \in Int
      BY <1>0 DEF SocketState, Categories
    <3> QED
      BY <2>1, <3>1, <1>0, Zenon DEF SocketState
  <2>3. /\ SameSockets(sm, sm') /\ sm'.max = sm.max /\ sm'.cmax = sm.cmax
        /\ sm'.posted = sm.posted \ {"main"} /\ sm'.file_limit = sm.cmax["files"]
        /\ sm'.http_limit = sm.http_limit
    BY <2>1, <1>0, SMTT(60) DEF SocketState, SameSockets
  <2>4. LimitInv(sm')
    BY <2>3, <1>0 DEF LimitInv
  <2> QED
    BY <2>2, <2>3, <2>4, SettingsInv DEF SameSockets
<1>6. CASE NetSetsLimit
  <2>1. sm' = [sm EXCEPT !.posted = @ \ {"net"}, !.http_limit = sm.cmax["http"]]
    BY <1>6 DEF NetSetsLimit
  <2>2. sm' \in SocketState
    <3>1. sm.posted \ {"net"} \in SUBSET {"main", "net"} /\ sm.cmax["http"] \in Int
      BY <1>0 DEF SocketState, Categories
    <3> QED
      BY <2>1, <3>1, <1>0, Zenon DEF SocketState
  <2>3. /\ SameSockets(sm, sm') /\ sm'.max = sm.max /\ sm'.cmax = sm.cmax
        /\ sm'.posted = sm.posted \ {"net"} /\ sm'.http_limit = sm.cmax["http"]
        /\ sm'.file_limit = sm.file_limit
    BY <2>1, <1>0 DEF SocketState, SameSockets
  <2>4. LimitInv(sm')
    BY <2>3, <1>0 DEF LimitInv
  <2> QED
    BY <2>2, <2>3, <2>4, SettingsInv DEF SameSockets
<1>7. CASE AddUnmanaged \/ RemoveUnmanaged
  <2>1. PICK n \in Nat : sm' = [sm EXCEPT !.unmanaged = n]
    <3>1. \/ sm' = [sm EXCEPT !.unmanaged = sm.unmanaged + 1] /\ sm.unmanaged + 1 \in Unmanaged
          \/ sm' = [sm EXCEPT !.unmanaged = sm.unmanaged - 1] /\ sm.unmanaged - 1 \in Unmanaged
      BY <1>7 DEF AddUnmanaged, RemoveUnmanaged
    <3> QED
      BY <3>1, SocketsAssumption
  <2>2. sm' \in SocketState
    BY <2>1, <1>0, SMTT(60) DEF SocketState
  <2>3. SameSockets(sm, sm') /\ SameLimits(sm, sm')
    BY <2>1, <1>0 DEF SocketState, SameSockets, SameLimits
  <2>4. LimitInv(sm')
    BY <2>3, <1>0 DEF LimitInv, SameLimits
  <2> QED
    BY <2>2, <2>3, <2>4, SettingsInv DEF SameSockets
<1> QED
  BY <1>1, <1>2, <1>3, <1>4, <1>5, <1>6, <1>7, SMTT(60)

\* Before torrent::initialize() no socket is open.
LEMMA StartInv ==
  ASSUME NEW n \in Nat, NEW scene \in {"limits", "sockets"}, NEW http \in Nat
  PROVE  /\ SocketInv(Start)
         /\ SocketInv([Start EXCEPT !.scene = scene, !.unmanaged = n, !.max_alloc["http"] = http])
<1> DEFINE u == [Start EXCEPT !.scene = scene, !.unmanaged = n, !.max_alloc["http"] = http]
<1>1. Start \in SocketState
  BY SMTT(60) DEF Start, SocketState, CategoryMaxAlloc, Categories
<1>2. /\ Start.open = {} /\ Start.fd = [e \in Events |-> 0] /\ Start.pending = [e \in Events |-> 0]
      /\ Start.map = [f \in Fds |-> None] /\ Start.managed = 0
      /\ Start.cmanaged = [c \in Categories |-> 0] /\ Start.max = 0
      /\ Start.cmax = [c \in Categories |-> 0] /\ Start.posted = {}
      /\ Start.file_limit = 0 /\ Start.http_limit = 0
  BY DEF Start
<1>3. ~Start.thrown
  BY SMTT(60) DEF Start
<1>4. OwnInv(Start) /\ HeldInv(Start, {}) /\ Start.pending["curl"] = 0
  BY <1>2 DEF OwnInv, HeldInv, Events
<1>5. CountInv(Start)
  <2>1. MapEntries(Start.map) = {} /\ \A c \in Categories : MapEntriesOf(Start.map, Start.category, c) = {}
    BY <1>2 DEF MapEntries, MapEntriesOf
  <2> QED
    BY <2>1, <1>2, FS_EmptySet DEF CountInv
<1>6. LimitInv(Start)
  BY <1>2 DEF LimitInv, Categories
<1>7. SocketInv(Start)
  BY <1>1, <1>3, <1>4, <1>5, <1>6, SMTT(60) DEF SocketInv
<1>8. u \in SocketState
  <2>1. [Start.max_alloc EXCEPT !["http"] = http] \in [Limited -> Nat]
    BY <1>1, Zenon DEF SocketState
  <2> QED
    BY <2>1, <1>1, Zenon DEF SocketState
<1>9. SameSockets(Start, u) /\ SameLimits(Start, u)
  BY <1>1 DEF SameSockets, SameLimits, SocketState
<1> HIDE DEF u
<1>10. LimitInv(u)
  BY <1>6, <1>9 DEF LimitInv, SameLimits
<1>11. SocketInv(u)
  BY <1>7, <1>8, <1>9, <1>10, SettingsInv, SMTT(60)
<1> QED
  BY <1>7, <1>11, SMTT(60) DEF u

LEMMA InitSocketInv == SocketInit => SocketInvHolds
<1> SUFFICES ASSUME SocketInit PROVE SocketInv(sm)
  BY SMTT(60) DEF SocketInvHolds
<1>1. CASE sm = Start
  BY <1>1, StartInv, Zenon
<1>2. CASE \E n \in Unmanaged, http \in Allocs :
             sm = AdjustAllocation([Start EXCEPT !.scene = "sockets", !.unmanaged = n,
                                                 !.max_alloc["http"] = http], 512)
  <2>1. PICK n \in Unmanaged, http \in Allocs :
          sm = AdjustAllocation([Start EXCEPT !.scene = "sockets", !.unmanaged = n,
                                              !.max_alloc["http"] = http], 512)
    BY <1>2, Zenon
  <2> DEFINE u == [Start EXCEPT !.scene = "sockets", !.unmanaged = n, !.max_alloc["http"] = http]
  <2>2. n \in Nat /\ http \in Nat /\ "sockets" \in {"limits", "sockets"}
    BY SocketsAssumption, SMTT(60)
  <2>3. SocketInv(u)
    BY <2>2, StartInv, Zenon
  <2>4. sm = AdjustAllocation(u, 512)
    BY <2>1
  <2> HIDE DEF u
  <2> QED
    BY <2>3, <2>4, AdjustInv, SMTT(60)
<1> QED
  BY <1>1, <1>2, Zenon DEF SocketInit

LEMMA StepSocketInv ==
  SocketInvHolds /\ [SocketNext]_sm => SocketInvHolds' /\ [KeepsLimits]_sm
<1> SUFFICES ASSUME SocketInv(sm), [SocketNext]_sm PROVE SocketInv(sm') /\ [KeepsLimits]_sm
  BY DEF SocketInvHolds
<1>1. CASE \/ SetMaxSizeAndAdjust \/ SetCategoryMinAllocation \/ SetCategoryMaxAllocation
           \/ AdjustAllocationAgain \/ MainSetsLimit \/ NetSetsLimit \/ AddUnmanaged \/ RemoveUnmanaged
  <2>1. SocketInv(sm') /\ sm'.fd = sm.fd
    BY <1>1, SettingsStepInv
  <2> QED
    BY <2>1, KeepsUnlessOpened
<1>2. CASE CreateOutgoing
  BY <1>2, CreateOutgoingInv
<1>3. CASE Accept
  BY <1>3, AcceptInv, SMTT(60)
<1>4. CASE OpenAccepted
  BY <1>4, OpenAcceptedInv
<1>5. CASE ReceiveSucceeded
  BY <1>5, ReceiveSucceededInv
<1>6. CASE CloseRefused
  BY <1>6, CloseRefusedInv
<1>7. CASE RouterSocket
  BY <1>7, RouterSocketInv
<1>8. CASE RouterRegisters
  BY <1>8, RouterRegistersInv
<1>9. CASE CurlOpens
  BY <1>9, CurlOpensInv
<1>10. CASE Close
  BY <1>10, CloseInv
<1>11. CASE UNCHANGED sm
  BY <1>11
<1> QED
  BY <1>1, <1>2, <1>3, <1>4, <1>5, <1>6, <1>7, <1>8, <1>9, <1>10, <1>11, SMTT(60) DEF SocketNext

LEMMA SocketInvSuffices == SocketInvHolds => NeverThrows /\ MapMatches /\ LimitsFit
<1> SUFFICES ASSUME SocketInv(sm) PROVE NeverThrows /\ MapMatches /\ LimitsFit
  BY DEF SocketInvHolds
<1>1. NeverThrows
  BY SMTT(60) DEF NeverThrows, SocketInv
<1>2. LimitsFit
  BY DEF LimitsFit, LimitInv, SocketInv
<1>3. MapMatches
  <2>1. /\ \A fd \in Fds : Known(fd) => fd \in sm.open /\ sm.fd[sm.map[fd]] = fd
        /\ \A e \in Events : sm.fd[e] # 0 => sm.map[sm.fd[e]] = e
    BY DEF SocketInv, OwnInv, Known
  <2>2. \A fd \in sm.open : Known(fd) # (\E e \in Events : sm.pending[e] = fd)
    <3> SUFFICES ASSUME NEW fd \in sm.open PROVE Known(fd) # (\E e \in Events : sm.pending[e] = fd)
      BY Zenon
    <3>1. fd # 0
      BY SocketsAssumption DEF SocketInv, SocketState
    <3>2. sm.map[fd] # None \/ \E e \in Events : sm.pending[e] = fd
      BY DEF SocketInv, HeldInv
    <3>3. \A e \in Events : sm.pending[e] = fd => sm.map[fd] = None
      BY <3>1 DEF SocketInv, OwnInv
    <3> QED
      BY <3>2, <3>3, Zenon DEF Known
  <2>3. sm.managed = Cardinality({fd \in Fds : Known(fd)})
    BY DEF SocketInv, CountInv, MapEntries, Known
  <2>4. \A c \in Categories :
          sm.cmanaged[c] = Cardinality({fd \in Fds : Known(fd) /\ sm.category[fd] = c})
    BY DEF SocketInv, CountInv, MapEntriesOf, Known
  <2> QED
    BY <2>1, <2>2, <2>3, <2>4, Zenon DEF MapMatches
<1> QED
  BY <1>1, <1>2, <1>3

\* For every number of descriptors and every setting: no call of the socket
\* manager throws internal_error, its map, its counts and the open descriptors
\* agree, the limits are those of one successful adjustment, and a socket that
\* is opened after can_open_socket_unsafe() stays within them.
THEOREM SocketsAreAccounted == SocketSpec => SocketsAccounted
<1>1. SocketSpec => []SocketInvHolds
  BY InitSocketInv, StepSocketInv, PTL DEF SocketSpec
<1>2. SocketSpec => [](NeverThrows /\ MapMatches /\ LimitsFit)
  BY <1>1, SocketInvSuffices, PTL
<1>3. SocketSpec => [][KeepsLimits]_sm
  BY <1>1, StepSocketInv, PTL DEF SocketSpec
<1> QED
  BY <1>2, <1>3, PTL DEF SocketsAccounted

=============================================================================
