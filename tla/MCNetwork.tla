------------------------------ MODULE MCNetwork ------------------------------
(* Timers, sockets and what opens them: the resolver, HTTP and the         *)
(* listening sockets.  A behaviour is about one of the parts, `part'; the  *)
(* others stay idle: the scheduler empty, no socket open.                  *)
EXTENDS Scheduler, SocketManager, NetworkConfig

VARIABLES
  part,
  t       \* the state of the part, unless it has a variable of its own

mcVars == <<part, sc, sm, nc, t>>

\* Two requesters at once.
DR == INSTANCE DnsResolver
        WITH s <- t, Slots <- {1, 2}, NServ <- 1, NTries <- 1, Timeout <- 1, NSearch <- 0,
             Families <- {"unspec", "inet6"}, Names <- {"numeric", "relative"}

\* Two servers that are asked twice, for both families of a name.
DS == INSTANCE DnsResolver
        WITH s <- t, Slots <- {1}, NServ <- 2, NTries <- 2, Timeout <- 1, NSearch <- 0,
             Families <- {"unspec"}, Names <- {"relative"}

\* A search list, and a name that udns refuses.
DM == INSTANCE DnsResolver
        WITH s <- t, Slots <- {1}, NServ <- 1, NTries <- 2, Timeout <- 1, NSearch <- 1,
             Families <- {"inet"}, Names <- {"relative", "absolute", "malformed"}

\* Two requesters of one host and a buffer with one slot.
DC == INSTANCE DnsCache
        WITH s <- t, Requesters <- {"r1", "r2"}, Hosts <- {1}, Families <- {"inet", "unspec"},
             MaxRequests <- 1, MaxAsks <- 2, RetryAge <- 0, NoRecordAge <- 0, StaleAge <- 0, CullAge <- 2

HC == INSTANCE HttpClient
        WITH s <- t, Gets <- {"g1", "g2"}, MaxClears <- 1,
             Resolves <- {<<"v6", "v4">>, <<"whatever", "none">>},
             Usables <- {{}, {"v4"}, {"v4", "v6"}}

\* One port, which another program has bound for inet6.
MCPortScenes == {<<{<<1, 1>>}, {<<6, 1>>}>>}

\* Idle settings: those the client starts with.
IdleConfig == ConfigInit

MCInit ==
  \/ part = "sockets" /\ TimerInit /\ SocketInit /\ IdleConfig /\ t = 0
  \/ part = "config" /\ TimerInit /\ sm = Start /\ ConfigInit /\ t = 0
  \/ /\ TimerInit /\ sm = Start /\ IdleConfig
     /\ \/ part = "scheduler" /\ t = 0
        \/ part = "dns" /\ DR!Init
        \/ part = "servers" /\ DS!Init
        \/ part = "names" /\ DM!Init
        \/ part = "cache" /\ DC!Init
        \/ part = "http" /\ HC!Init

Only(next) == next /\ UNCHANGED <<part, sc, sm, nc>>

MCNext ==
  \/ part = "scheduler" /\ TimerNext /\ UNCHANGED <<part, sm, nc, t>>
  \/ part = "sockets" /\ SocketNext /\ UNCHANGED <<part, sc, nc, t>>
  \/ part = "dns" /\ Only(DR!Next)
  \/ part = "servers" /\ Only(DS!Next)
  \/ part = "names" /\ Only(DM!Next)
  \/ part = "cache" /\ Only(DC!Next)
  \/ part = "http" /\ Only(HC!Next)
  \/ part = "config" /\ ConfigNext /\ UNCHANGED <<part, sc, sm, t>>

\* The clock ends at its bound.
MayEnd == part = "scheduler" /\ UNCHANGED mcVars

MCSpec == MCInit /\ [][MCNext \/ MayEnd]_mcVars

-----------------------------------------------------------------------------
(* A name that was asked for is answered exactly once and a lost reply     *)
(* leaves no query unattended: a query waits for the timer, gives up after *)
(* its tries and is counted by its slot.  In the buffer and the cache a    *)
(* caller that waits is in exactly one place, one that cancelled in none,  *)
(* none waits while a slot is free, and what is said to be updated is.     *)
NamesAreAnswered ==
  /\ part = "dns" =>
       DR!NothingForgotten /\ DR!OutstandingMatches /\ DR!GivesUp /\ DR!NothingThrown
  /\ part = "servers" =>
       DS!NothingForgotten /\ DS!OutstandingMatches /\ DS!GivesUp /\ DS!NothingThrown
  /\ part = "names" =>
       DM!NothingForgotten /\ DM!OutstandingMatches /\ DM!GivesUp /\ DM!NothingThrown
  /\ part = "cache" =>
       /\ DC!CancelIsFinal /\ DC!WaitsOnce /\ DC!PendingOnlyWhenFull /\ DC!UpdatingIsUnderWay
       /\ DC!StalenessMatches /\ DC!AnswerTells /\ DC!NothingThrown

(* An HTTP request that its owner waits for gets a result, one that was    *)
(* closed is quiet and will be released, and its sockets are those that    *)
(* the socket manager counts.                                              *)
RequestsComplete ==
  part = "http" =>
    HC!ClosedIsQuiet /\ HC!NothingLeaks /\ HC!ResultComes /\ HC!SocketsMatch /\ HC!NothingThrown
=============================================================================
