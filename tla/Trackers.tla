------------------------------ MODULE Trackers ------------------------------
(***************************************************************************)
(* The announces of one download.  On the main thread TrackerController    *)
(* decides when to announce, TrackerList which trackers get an event; the  *)
(* workers (TrackerHttp and TrackerUdp) send it on the tracker thread and  *)
(* answer by a callback; tracker::Manager keeps the workers of a deleted   *)
(* download until their last announce has ended.                           *)
(*                                                                         *)
(* A step is one callback, timer or client call.  Time is left out: a      *)
(* timer that is scheduled may fire, whether a tracker is due is an input. *)
(* Worker state is read and written under its lock.                        *)
(***************************************************************************)
EXTENDS Integers, FiniteSets, Sequences, SequencesExt, FiniteSetsExt

CONSTANTS
  Http, Udp,       \* the trackers, by protocol
  NoTracker,       \* the end of the list
  Scenes           \* the downloads to look at: the group of each tracker, those it has at first,
                   \* how many address families a request may find, and two bounds: on client
                   \* calls, and on callbacks a thread has queued when another timer fires

ASSUME TrackersAssumption ==
  /\ Http \cap Udp = {} /\ NoTracker \notin Http \cup Udp
  /\ \A c \in Scenes :
       /\ DOMAIN c.group \subseteq Http \cup Udp /\ Range(c.group) \subseteq Nat
       /\ Range(c.list) \subseteq DOMAIN c.group /\ c.families \subseteq 0..2
       /\ c.commands \in Nat /\ c.queued \in Nat
       /\ \A i, j \in DOMAIN c.list : i < j => /\ c.list[i] # c.list[j]
                                               /\ c.group[c.list[i]] <= c.group[c.list[j]]

Trackers == Http \cup Udp
Events == {"none", "started", "stopped", "completed", "scrape"}

VARIABLES
  s,               \* the state of both threads
  scene,           \* the download looked at: never changes
  commands         \* client calls left

vars == <<s, scene, commands>>

group == scene.group

Worker == [enabled : BOOLEAN, requesting : BOOLEAN, starting : BOOLEAN, event : Events,
           disownable : BOOLEAN, deleted : BOOLEAN, success : BOOLEAN, failed : BOOLEAN,
           busy : BOOLEAN,      \* m_data, or a transaction id, is set
           next : BOOLEAN,      \* the other address family is still to be asked
           lastOk : BOOLEAN,    \* m_last_success
           scrape : BOOLEAN,    \* m_requested_scrape
           delay : BOOLEAN]     \* m_delay_scrape is scheduled

NewWorker == [enabled |-> TRUE, requesting |-> FALSE, starting |-> FALSE, event |-> "none",
              disownable |-> FALSE, deleted |-> FALSE, success |-> FALSE, failed |-> FALSE,
              busy |-> FALSE, next |-> FALSE, lastOk |-> FALSE, scrape |-> FALSE, delay |-> FALSE]

(* Callbacks, posted with the worker's callback id; "delete" without one    *)
(* (process_delete_trackers), and m_slot_new_peers, a flag of its own here. *)
Callbacks == [to : Trackers, what : Events \cup {"success", "failure", "enabled", "disabled",
                                                 "delete"}]
Sends == {"none", "start", "stop", "completed", "update"}

TypeOK ==
  /\ s.w \in [Trackers -> Worker]
  /\ Range(s.list) \subseteq Trackers /\ Cardinality(Range(s.list)) = Len(s.list)
  /\ {s.active, s.requesting, s.promiscuous, s.timer, s.scrapeTimer, s.requestTimer, s.newPeers,
      s.alive, s.thrown, s.scraped} \subseteq BOOLEAN
  /\ s.send \in Sends /\ s.closed \in {"no", "send", "completed", "cancel"}
  /\ Range(s.toTracker) \cup Range(s.toMain) \cup Range(s.sending) \subseteq Callbacks
  /\ s.waiting \subseteq Trackers /\ s.deleting \subseteq Trackers
  /\ scene \in Scenes /\ commands \in 0..scene.commands

(* A download that was not started yet.                                     *)
Init ==
  /\ scene \in Scenes
  /\ commands = scene.commands
  /\ s = [w |-> [t \in Trackers |-> NewWorker], list |-> scene.list,
          active |-> FALSE, requesting |-> FALSE, promiscuous |-> FALSE, send |-> "none",
          timer |-> FALSE, scrapeTimer |-> FALSE, requestTimer |-> FALSE,
          alive |-> TRUE,            \* m_lifetime_keeper
          toTracker |-> <<>>, toMain |-> <<>>, newPeers |-> FALSE,
          sending |-> <<>>,          \* the send_event() the tracker thread is inside of
          waiting |-> {}, deleting |-> {}, thrown |-> FALSE,
          closed |-> "no",           \* history: who called close(), until an announce is planned
          scraped |-> FALSE]         \* history: a scrape was started

-----------------------------------------------------------------------------
(* tracker::Tracker.                                                        *)
IsRequesting(r, t) == r.w[t].requesting \/ r.w[t].starting
IsRequestingNotScrape(r, t) == IsRequesting(r, t) /\ r.w[t].event # "scrape"
IsRequestingNotDisownable(r, t) == IsRequestingNotScrape(r, t) /\ ~r.w[t].disownable
IsInUse(r, t) == r.w[t].enabled /\ r.w[t].success
CanRequestState(r, t) == r.w[t].enabled /\ (r.w[t].requesting => r.w[t].event = "scrape")

HasActive(r) == \E t \in Range(r.list) : IsRequesting(r, t)
HasUsable(r) == \E t \in Range(r.list) : r.w[t].enabled
InGroup(r, g) == SelectSeq(r.list, LAMBDA t : group[t] = g)
ListGroups(r) == {group[t] : t \in Range(r.list)}

PostTracker(r, t, what) == [r EXCEPT !.toTracker = Append(@, [to |-> t, what |-> what])]
PostMain(r, t, what) == [r EXCEPT !.toMain = Append(@, [to |-> t, what |-> what])]

(* TrackerWorker::remove_events(): cancel_callback_and_wait() on both       *)
(* threads.                                                                 *)
RemoveEvents(r, t) ==
  LET others(c) == c.to # t \/ c.what = "delete"
  IN  [r EXCEPT !.toMain = SelectSeq(@, others), !.toTracker = SelectSeq(@, others)]

(* TrackerList::send_event().                                               *)
ListSendEvent(r, t, e) ==
  LET asked == IsRequesting(r, t) /\ (r.w[t].event = e \/ (r.w[t].event # "scrape" /\ e = "none"))
  IN  IF ~r.w[t].enabled \/ asked THEN r
      ELSE [PostTracker(r, t, e) EXCEPT !.closed = "no"]

SendToAll(r, S, e) ==
  FoldLeft(LAMBDA a, t : IF t \in S THEN ListSendEvent(a, t, e) ELSE a, r, r.list)

-----------------------------------------------------------------------------
(* TrackerController.                                                       *)
UpdateTimeout(r) == IF r.active THEN [r EXCEPT !.timer = TRUE, !.closed = "no"]
                    ELSE [r EXCEPT !.thrown = TRUE]

Close(r, by) ==
  [r EXCEPT !.requesting = FALSE, !.promiscuous = FALSE, !.timer = FALSE, !.closed = by]

CurrentSendEvent(r) == CASE r.send = "start" -> "started" [] r.send = "stop" -> "stopped"
                         [] r.send = "completed" -> "completed" [] OTHER -> "none"

FirstOf(q, P(_)) == LET hits == {i \in DOMAIN q : P(q[i])}
                    IN  IF hits = {} THEN NoTracker ELSE q[Min(hits)]

SendStartEvent(r) ==
  LET u      == [r EXCEPT !.send = "start"]
      usable == SelectSeq(r.list, LAMBDA t : r.w[t].enabled)
      v      == ListSendEvent(Close(u, "send"), usable[1], "started")
  IN  IF ~r.active \/ usable = <<>> THEN u
      ELSE IF Len(usable) = 1 THEN v
      ELSE UpdateTimeout([v EXCEPT !.promiscuous = TRUE])

SendStopEvent(r) ==
  LET u == [r EXCEPT !.send = "none"]
  IN  IF ~r.active \/ ~HasUsable(r) THEN u
      ELSE SendToAll(Close([u EXCEPT !.send = "stop"], "send"),
                     {t \in Trackers : IsInUse(r, t)}, "stopped")

SendCompletedEvent(r) ==
  LET u == [r EXCEPT !.send = "completed"]
  IN  IF ~r.active \/ ~HasUsable(r) THEN u
      ELSE SendToAll(Close(u, "completed"), {t \in Trackers : IsInUse(r, t)}, "completed")

SendUpdateEvent(r) ==
  IF ~r.active \/ ~HasUsable(r) \/ (r.send # "none" /\ HasActive(r)) THEN r
  ELSE ListSendEvent([r EXCEPT !.send = IF @ = "none" THEN "update" ELSE @],
                     FirstOf(r.list, LAMBDA t : r.w[t].enabled), "none")

Enable(r, reset) ==
  IF r.active THEN r
  ELSE UpdateTimeout(
         [r EXCEPT !.active = TRUE, !.send = IF @ = "stop" THEN "none" ELSE @,
                   !.w = [t \in Trackers |-> IF reset /\ t \in Range(r.list)
                                             THEN [@[t] EXCEPT !.success = FALSE, !.failed = FALSE]
                                             ELSE @[t]]])

Disable(r) ==
  [r EXCEPT !.active = FALSE, !.requesting = FALSE, !.promiscuous = FALSE, !.timer = FALSE]

StartRequesting(r) ==
  IF r.requesting THEN r
  ELSE IF r.active THEN UpdateTimeout([r EXCEPT !.requesting = TRUE])
  ELSE [r EXCEPT !.requesting = TRUE]

StopRequesting(r) == [r EXCEPT !.requesting = FALSE]

(* TrackerList::find_next_to_request(): a tracker that failed gives way to  *)
(* one that is due earlier, which is the first by `rank' here.              *)
FindNextToRequest(r, rank) ==
  LET can == SelectSeq(r.list, LAMBDA t : CanRequestState(r, t))
  IN  IF can = <<>> THEN NoTracker
      ELSE IF ~r.w[can[1]].failed THEN can[1]
      ELSE CHOOSE t \in Range(can) : \A u \in Range(can) : rank[t] <= rank[u]

(* tracker_next_timeout_promiscuous() is not ~0.                            *)
HasTimeout(r, t) == r.w[t].enabled /\ ~IsRequestingNotScrape(r, t)

(* One group in promiscuous mode: send to the preferred tracker if it is    *)
(* due; `timer' stands for next_timeout != ~0.                              *)
TimeoutGroup(r, g, e, due, rank) ==
  LET q     == InGroup(r, g)
      first == q[1]
      asked == IF ~r.w[first].enabled \/ r.w[first].failed
               THEN {t \in Range(q) : HasTimeout(r, t)} ELSE {first}
      ready == asked \cap due
      u     == IF asked \subseteq due THEN r ELSE [r EXCEPT !.timer = TRUE, !.closed = "no"]
  IN  IF \E t \in Range(q) : IsRequestingNotScrape(r, t) THEN r
      ELSE IF ready = {} THEN u
      ELSE ListSendEvent(u, CHOOSE t \in ready : \A v \in ready : rank[t] <= rank[v], e)

(* do_timeout().  A tracker without any result is always due outside the    *)
(* promiscuous mode.                                                        *)
DoTimeout(q, due, rank) ==
  LET r    == [q EXCEPT !.timer = FALSE]
      e    == CurrentSendEvent(r)
      t    == FindNextToRequest(r, rank)
      new  == t # NoTracker /\ ~r.w[t].success /\ ~r.w[t].failed
  IN  IF ~r.active \/ ~HasUsable(r) THEN r
      ELSE IF r.promiscuous \/ r.requesting
      THEN FoldSet(LAMBDA g, a : TimeoutGroup(a, g, e, due, rank), r, ListGroups(r))
      ELSE IF t = NoTracker THEN r
      ELSE IF new \/ t \in due THEN ListSendEvent(r, t, e)
      ELSE UpdateTimeout(r)

(* Mutant: a failure plans nothing.                                         *)
ReceiveFailureIdle(q, t, due, rank) == [q EXCEPT !.w[t].failed = TRUE]

(* A tracker that has just failed has a next request in the future.         *)
ReceiveFailure(q, t, due, rank) ==
  LET r == [q EXCEPT !.w[t].failed = TRUE]
  IN  IF r.active THEN DoTimeout(r, due \ {t}, rank) ELSE r

Promote(r, t) ==
  LET i == Min({k \in DOMAIN r.list : group[r.list[k]] = group[t]})
      j == CHOOSE k \in DOMAIN r.list : r.list[k] = t
  IN  [r EXCEPT !.list = [@ EXCEPT ![i] = t, ![j] = r.list[i]]]

(* TrackerList::receive_success() and TrackerController::receive_success(); *)
(* m_slot_success has the client ask for more peers a little later.         *)
ReceiveSuccess(q, t) ==
  LET p == [Promote(q, t) EXCEPT !.w[t].success = TRUE, !.w[t].failed = FALSE]
      r == [p EXCEPT !.send = "none", !.promiscuous = FALSE, !.requestTimer = TRUE]
  IN  IF ~p.active THEN p
      ELSE IF r.requesting \/ ~HasActive(r) THEN UpdateTimeout(r) ELSE r

ReceiveTrackerEnabled(r) ==
  IF HasUsable(r) /\ r.active /\ ~r.timer /\ ~HasActive(r) THEN UpdateTimeout(r) ELSE r

ReceiveTrackerDisabled(r) == IF r.active /\ ~r.timer THEN UpdateTimeout(r) ELSE r

(* do_scrape(): one scrapable tracker of each idle group; `due' are those   *)
(* not scraped in the last ten minutes.                                     *)
DoScrape(q, due) ==
  LET r == [q EXCEPT !.scrapeTimer = FALSE]
      ScrapeGroup(a, g) ==
        LET t == FirstOf(InGroup(a, g), LAMBDA u : u \in Http /\ a.w[u].enabled)
        IN  IF (\E u \in Range(InGroup(a, g)) : IsRequesting(a, u)) \/ t \notin due THEN a
            ELSE PostTracker(a, t, "scrape")
  IN  FoldSet(LAMBDA g, a : ScrapeGroup(a, g), r, ListGroups(r))

-----------------------------------------------------------------------------
(* tracker::Manager.                                                        *)
DeleteLater(r, t) ==
  LET u == [r EXCEPT !.deleting = @ \cup {t}]
  IN  IF r.deleting = {} THEN PostTracker(u, t, "delete") ELSE u

UpdateTracker(r, t) ==
  IF IsRequestingNotDisownable(r, t) \/ t \notin r.waiting THEN r
  ELSE DeleteLater([r EXCEPT !.waiting = @ \ {t}], t)

(* Mutant: a scrape is waited for too.                                      *)
DeleteTrackersAwaitsScrape(r, trackers) ==
  FoldLeft(LAMBDA a, t : IF IsRequesting(a, t) THEN [a EXCEPT !.waiting = @ \cup {t}]
                         ELSE DeleteLater(a, t),
           r, trackers)

DeleteTrackers(r, trackers) ==
  FoldLeft(LAMBDA a, t : IF IsRequestingNotScrape(a, t) THEN [a EXCEPT !.waiting = @ \cup {t}]
                         ELSE DeleteLater(a, t),
           r, trackers)

(* Mutant: the callbacks of the worker are not cancelled.                   *)
CleanupKeepsEvents(r, t) ==
  [r EXCEPT !.w[t].busy = FALSE, !.w[t].delay = FALSE, !.w[t].deleted = TRUE,
            !.w[t].requesting = FALSE, !.w[t].starting = FALSE]

Cleanup(r, t) ==
  [RemoveEvents(r, t) EXCEPT !.w[t].busy = FALSE, !.w[t].delay = FALSE, !.w[t].deleted = TRUE,
                             !.w[t].requesting = FALSE, !.w[t].starting = FALSE]

ProcessDeleteTrackers(r) ==
  FoldSet(LAMBDA t, a : Cleanup(a, t), [r EXCEPT !.deleting = {}], r.deleting)

-----------------------------------------------------------------------------
(* TrackerHttp.                                                             *)
(* Mutant: the delayed scrape is not erased.                                *)
HttpSendEventKeepsDelay(r, t, e, families) ==
  LET u == [RemoveEvents(r, t) EXCEPT !.w[t].event = e,
                                      !.w[t].starting = FALSE,
                                      !.w[t].busy = families > 0, !.w[t].requesting = families > 0,
                                      !.w[t].next = families > 1, !.w[t].lastOk = FALSE]
  IN  IF families = 0 THEN PostMain(u, t, "failure") ELSE u

HttpSendEvent(r, t, e, families) ==
  LET u == [RemoveEvents(r, t) EXCEPT !.w[t].delay = FALSE, !.w[t].event = e,
                                      !.w[t].starting = FALSE,
                                      !.w[t].busy = families > 0, !.w[t].requesting = families > 0,
                                      !.w[t].next = families > 1, !.w[t].lastOk = FALSE]
  IN  IF families = 0 THEN PostMain(u, t, "failure") ELSE u

HttpSendScrape(r, t) ==
  IF r.w[t].scrape THEN r
  ELSE [r EXCEPT !.w[t].scrape = TRUE, !.w[t].delay = ~r.w[t].busy]

HttpDelayedSendScrape(r, t, families) ==
  IF r.w[t].busy THEN [r EXCEPT !.thrown = TRUE]
  ELSE [r EXCEPT !.w[t].delay = FALSE, !.w[t].event = "scrape", !.w[t].next = families > 1,
                 !.w[t].lastOk = FALSE, !.w[t].busy = families > 0, !.scraped = TRUE,
                 !.w[t].requesting = @ \/ families > 0]

(* receive_done() and receive_failed() for an announce; `more' if the other *)
(* family is asked next, after the peers of a good reply were passed on.    *)
(* The announce has succeeded when either family did.                       *)
HttpAnnounceDone(r, t, ok, more) ==
  LET u == [RemoveEvents(r, t) EXCEPT !.w[t].next = FALSE]
  IN  IF more THEN [u EXCEPT !.newPeers = @ \/ ok, !.w[t].lastOk = ok]
      ELSE PostMain([u EXCEPT !.w[t].busy = FALSE, !.w[t].requesting = FALSE,
                              !.w[t].delay = r.w[t].scrape],
                    t, IF ok \/ r.w[t].lastOk THEN "success" ELSE "failure")

(* The same for a scrape, whose reply may be "ok", "bad" (no entry for this *)
(* torrent) or have "failed".  When the last family has failed              *)
(* update_requesting_state() is not called.  What the callback to the main  *)
(* thread does is count scrapes, and left out.                              *)
HttpScrapeDone(r, t, reply, more) ==
  LET u == [RemoveEvents(r, t) EXCEPT !.w[t].next = FALSE,
                                      !.w[t].scrape = @ /\ reply = "failed" /\ more]
  IN  IF reply = "ok" THEN [u EXCEPT !.w[t].busy = FALSE, !.w[t].requesting = FALSE]
      ELSE [u EXCEPT !.w[t].busy = more]

-----------------------------------------------------------------------------
(* TrackerUdp.                                                              *)
UdpSendEvent(r, t, e, families) ==
  LET u == [r EXCEPT !.w[t].event = e, !.w[t].starting = FALSE, !.w[t].disownable = FALSE,
                     !.w[t].busy = families > 0, !.w[t].requesting = families > 0,
                     !.w[t].next = families > 1]
  IN  IF families = 0 THEN PostMain(RemoveEvents(u, t), t, "failure") ELSE u

UdpPacketSent(r, t) == [r EXCEPT !.w[t].disownable = @ \/ r.w[t].event = "stopped"]

UdpAnnounceDone(r, t, ok) ==
  IF r.w[t].next THEN [r EXCEPT !.w[t].next = FALSE, !.newPeers = @ \/ ok]
  ELSE PostMain([RemoveEvents(r, t) EXCEPT !.w[t].busy = FALSE, !.w[t].requesting = FALSE],
                t, IF ok THEN "success" ELSE "failure")

-----------------------------------------------------------------------------
(* Steps of the tracker thread.                                             *)
TrackerStep(r) == s' = r /\ UNCHANGED <<scene, commands>>

(* Manager::send_event()'s callback first marks the request as starting,    *)
(* which the main thread may see before send_event() has done the rest.     *)
TakeCallback ==
  /\ s.sending = <<>> /\ s.toTracker # <<>>
  /\ LET c == Head(s.toTracker)
         r == [s EXCEPT !.toTracker = Tail(@)]
     IN  TrackerStep(CASE c.what = "delete" -> ProcessDeleteTrackers(r)
                       [] c.what = "scrape" -> HttpSendScrape(r, c.to)
                       [] OTHER -> [r EXCEPT !.w[c.to].starting = TRUE, !.sending = <<c>>])

SendEvent ==
  /\ s.sending # <<>>
  /\ \E families \in scene.families :
       LET c == s.sending[1]
           r == [s EXCEPT !.sending = <<>>]
       IN  TrackerStep(IF c.to \in Http THEN HttpSendEvent(r, c.to, c.what, families)
                       ELSE UdpSendEvent(r, c.to, c.what, families))

Announcing(t) == s.sending = <<>> /\ s.w[t].busy /\ s.w[t].event # "scrape"
Scraping(t) == s.sending = <<>> /\ s.w[t].busy /\ s.w[t].event = "scrape"

AnnounceDone(t) ==
  /\ Announcing(t)
  /\ \E ok \in BOOLEAN, more \in {FALSE, s.w[t].next} :
       TrackerStep(IF t \in Http THEN HttpAnnounceDone(s, t, ok, more)
                   ELSE UdpAnnounceDone(s, t, ok))

PacketSent(t) == t \in Udp /\ Announcing(t) /\ TrackerStep(UdpPacketSent(s, t))

ScrapeDone(t) ==
  /\ Scraping(t)
  /\ \E reply \in {"ok", "bad", "failed"}, more \in {FALSE, s.w[t].next} :
       TrackerStep(HttpScrapeDone(s, t, reply, more))

(* The scrape is delayed by ten seconds, in which the main thread runs the  *)
(* callbacks of the last announce.                                          *)
DelayedScrape(t) ==
  /\ s.sending = <<>> /\ s.w[t].delay /\ \A c \in Range(s.toMain) : c.to # t
  /\ \E families \in scene.families : TrackerStep(HttpDelayedSendScrape(s, t, families))

-----------------------------------------------------------------------------
(* Steps of the main thread.  Inputs: which trackers are due, and the order *)
(* of their times.                                                          *)
Due == SUBSET Range(s.list)
Ranks == {rank \in [Range(s.list) -> 1..Len(s.list)] : IsInjective(rank)}

(* A callback for a list that was cleared only tells the manager that an    *)
(* announce has ended.                                                      *)
RunCallback ==
  /\ s.toMain # <<>>
  /\ LET c == Head(s.toMain)
         r == [s EXCEPT !.toMain = Tail(@)]
     IN  \/ /\ ~s.alive
            /\ TrackerStep(IF c.what \in {"success", "failure"} THEN UpdateTracker(r, c.to) ELSE r)
         \/ s.alive /\ c.what = "success" /\ TrackerStep(ReceiveSuccess(r, c.to))
         \/ /\ s.alive /\ c.what = "failure"
            /\ \E due \in Due, rank \in Ranks : TrackerStep(ReceiveFailure(r, c.to, due, rank))
         \/ s.alive /\ c.what = "enabled" /\ TrackerStep(ReceiveTrackerEnabled(r))
         \/ s.alive /\ c.what = "disabled" /\ TrackerStep(ReceiveTrackerDisabled(r))

(* receive_new_peers(): the client asks for more peers a little later.      *)
ReceiveNewPeers ==
  /\ s.newPeers
  /\ TrackerStep([s EXCEPT !.newPeers = FALSE, !.requestTimer = @ \/ s.active])

Timeout ==
  /\ s.timer /\ Len(s.toTracker) < scene.queued /\ Len(s.toMain) < scene.queued
  /\ \E due \in Due, rank \in Ranks : TrackerStep(DoTimeout(s, due, rank))

ScrapeTimeout ==
  /\ s.scrapeTimer /\ Len(s.toTracker) < scene.queued
  /\ \E due \in Due : TrackerStep(DoScrape(s, due))

(* DownloadMain::receive_tracker_request().                                 *)
TrackerRequest ==
  /\ s.requestTimer
  /\ LET r == [s EXCEPT !.requestTimer = FALSE]
     IN  TrackerStep(StopRequesting(r)) \/ TrackerStep(StartRequesting(r))

-----------------------------------------------------------------------------
(* Calls of the client.                                                     *)
Command(r) ==
  /\ s.alive /\ commands > 0 /\ s' = r
  /\ commands' = commands - 1 /\ UNCHANGED scene

Start(skip) ==
  /\ ~s.active
  /\ Command(IF skip THEN Enable(s, FALSE) ELSE SendStartEvent(Enable(s, TRUE)))

Stop(skip) ==
  /\ s.active
  /\ LET r == [s EXCEPT !.requestTimer = FALSE]
     IN  Command(Disable(IF skip THEN r ELSE SendStopEvent(r)))

SendCompleted == Command(SendCompletedEvent(s))
ManualRequest == s.timer /\ Command(SendUpdateEvent(s))
ManualCancel == Command(Close(s, "cancel"))
ScrapeRequest == Command([s EXCEPT !.scrapeTimer = TRUE])

EnableTracker(t) ==
  /\ t \in Range(s.list) /\ ~s.w[t].enabled
  /\ Command(PostMain([s EXCEPT !.w[t].enabled = TRUE], t, "enabled"))

DisableTracker(t) ==
  /\ t \in Range(s.list) /\ s.w[t].enabled
  /\ Command(PostMain([s EXCEPT !.w[t].enabled = FALSE], t, "disabled"))

CycleGroup(g) ==
  LET q == InGroup(s, g)
      before == SelectSeq(s.list, LAMBDA t : group[t] < g)
      after  == SelectSeq(s.list, LAMBDA t : group[t] > g)
  IN  Command([s EXCEPT !.list = before \o Tail(q) \o <<Head(q)>> \o after])

Insert(t) ==
  /\ t \in DOMAIN group \ Range(s.list)
  /\ LET before == SelectSeq(s.list, LAMBDA u : group[u] <= group[t])
         after  == SelectSeq(s.list, LAMBDA u : group[u] > group[t])
     IN  Command(ReceiveTrackerEnabled([s EXCEPT !.list = before \o <<t>> \o after]))

(* ~DownloadWrapper(), of a download that may still be active; the          *)
(* controller goes with it.                                                 *)
Destroy ==
  LET r == DeleteTrackers([s EXCEPT !.alive = FALSE, !.list = <<>>], s.list)
  IN  Command([Close(r, "cancel") EXCEPT !.active = FALSE, !.requestTimer = FALSE,
                                         !.scrapeTimer = FALSE])

-----------------------------------------------------------------------------
TrackerThread == TakeCallback \/ SendEvent \/ \E t \in Trackers : DelayedScrape(t)
Network == \E t \in Trackers : AnnounceDone(t) \/ PacketSent(t) \/ ScrapeDone(t)
MainThread == RunCallback \/ ReceiveNewPeers \/ Timeout \/ ScrapeTimeout \/ TrackerRequest
Client ==
  \/ \E skip \in BOOLEAN : Start(skip) \/ Stop(skip)
  \/ SendCompleted \/ ManualRequest \/ ManualCancel \/ ScrapeRequest \/ Destroy
  \/ \E t \in Trackers : EnableTracker(t) \/ DisableTracker(t) \/ Insert(t)
  \/ \E g \in ListGroups(s) : CycleGroup(g)

Next == TrackerThread \/ Network \/ MainThread \/ Client

(* Once the download is deleted, the threads go on to run callbacks and     *)
(* requests to end: the HTTP stack and the UDP router give up in time.  No  *)
(* thread has to be fair to one tracker, or at all before that.             *)
Progress == TakeCallback \/ SendEvent \/ RunCallback \/ \E t \in Trackers : AnnounceDone(t)

Spec == Init /\ [][Next]_vars /\ WF_vars(~s.alive /\ Progress)

-----------------------------------------------------------------------------
(* No internal_error: no timeout is set for an inactive controller, and no  *)
(* delayed scrape starts while its tracker is busy with an announce.        *)
NothingThrown == ~s.thrown

(* Something is under way that ends in an announce: the timer, an event on  *)
(* its way to a worker, a running request, or a callback to the controller. *)
AnnouncePlanned ==
  \/ s.timer
  \/ \E c \in Range(s.toTracker) \cup Range(s.sending) : c.what \notin {"scrape", "delete"}
  \/ \E t \in Range(s.list) : s.w[t].busy /\ s.w[t].event # "scrape"
  \/ s.toMain # <<>>

(* A started download with a usable tracker never stops announcing, however *)
(* results, cancelled callbacks, disabled trackers and restarts interleave; *)
(* until the client cancels, scrapes, or completes the download with no     *)
(* tracker in use (AnnouncesSurviveCompletion).                             *)
AnnouncesGoOn ==
  s.active /\ HasUsable(s) /\ s.closed \notin {"cancel", "completed"} /\ ~s.scraped
    => AnnouncePlanned

(* The same for a download that completes: send_completed_event() too has   *)
(* to leave an announce planned.                                            *)
AnnouncesSurviveCompletion ==
  s.active /\ HasUsable(s) /\ s.closed # "cancel" /\ ~s.scraped => AnnouncePlanned

(* A tracker is requesting only while its worker has a request.             *)
RequestingIsBusy == \A t \in Range(s.list) : s.w[t].requesting => s.w[t].busy

(* A worker that was cleaned up has no request, no timer and no callback    *)
(* left that would run on it.                                               *)
DeletedIsIdle ==
  \A t \in Trackers : s.w[t].deleted =>
    /\ ~s.w[t].busy /\ ~s.w[t].delay /\ ~IsRequesting(s, t)
    /\ \A c \in Range(s.toTracker) \cup Range(s.toMain) \cup Range(s.sending) :
         c.to = t => c.what = "delete"

(* Every worker of a deleted download is cleaned up in the end, the ones    *)
(* that were still announcing included: its destructor throws otherwise.    *)
CleanedUp == ~s.alive ~> s.waiting \cup s.deleting = {}
=============================================================================
