-------------------------- MODULE DownloadLifecycle --------------------------
(***************************************************************************)
(* One download from download_add() to download_remove(): the calls a      *)
(* client makes on Download in any order it is allowed to, DownloadWrapper *)
(* and DownloadMain below them, and the storage errors, delayed signals,   *)
(* hashes and tracker answers that come in between.  The loop of the hash  *)
(* check is module HashTorrent's; here its chunks go to the queue at once. *)
(***************************************************************************)
EXTENDS Integers

CONSTANTS
  Chunks,    \* chunk indices, a set of numbers
  MaxOpens   \* bound on how often the download is opened

\* A download has a first chunk.
ASSUME ChunksAssumption == Chunks \subseteq Nat /\ 0 \in Chunks /\ MaxOpens \in Nat

VARIABLE d

Fresh == [open |-> FALSE, active |-> FALSE,       \* flags of DownloadInfo
          listActive |-> FALSE,                   \* ChunkList::flag_active
          filesOpen |-> FALSE,                    \* FileList::m_is_open
          allocated |-> FALSE, bits |-> {},       \* the completed bitfield
          wanted |-> Chunks,                      \* the chunks some priority wants
          sized |-> FALSE,                        \* chunk list and statistics have their size
          selector |-> FALSE,                     \* ChunkSelector is initialized
          check |-> "idle",                       \* HashTorrent; see Checking, Checked
          ranges |-> {}, outstanding |-> {},      \* chunks to be checked, and in the queue for it
          hashing |-> {},                         \* downloaded chunks in the queue
          delays |-> {},                          \* scheduled entries
          seeding |-> FALSE, type |-> "leech",    \* initial seeding, connection type
          peers |-> 0,                            \* connections
          tracker |-> "disabled",                 \* the tracker controller
          opens |-> 0, gone |-> FALSE, thrown |-> FALSE]

\* download_add() and Manager::initialize_download().
LifeInit == d = Fresh

\* "quick": a quick check found a file; "waiting" and "failed": m_delay_checked is
\* scheduled, the latter after an error, when nothing is being checked.
Checking(t) == t.check \in {"running", "quick", "waiting"}
Checked(t) == t.check = "checked" /\ t.sized

IsDone(t) == t.bits = Chunks
Left(t) == t.wanted \ t.bits

Throw(t) == [t EXCEPT !.thrown = TRUE]

-----------------------------------------------------------------------------
(* DownloadMain and DownloadWrapper.                                       *)

\* Mutant: the tracker request stays scheduled.
MainStopKeepsTask(t) ==
  IF ~t.active THEN t
  ELSE [t EXCEPT !.active = FALSE, !.listActive = FALSE, !.peers = 0,
                 !.seeding = FALSE, !.delays = @ \ {"disconnect"}]

MainStop(t) ==
  IF ~t.active THEN t
  ELSE [t EXCEPT !.active = FALSE, !.listActive = FALSE, !.peers = 0,
                 !.seeding = FALSE, !.delays = @ \ {"disconnect", "request"}]

\* FileList::close() leaves the bitfield of a list that failed to open.
MainClose(t) ==
  IF t.active THEN Throw(t)
  ELSE IF ~t.open THEN t
  ELSE [t EXCEPT !.open = FALSE, !.sized = FALSE, !.selector = FALSE, !.filesOpen = FALSE,
                 !.allocated = @ /\ ~t.filesOpen, !.bits = IF t.filesOpen THEN {} ELSE @]

\* HashQueue::remove() answers each chunk with no hash; receive_hash_done() wants the
\* download open, and while the check runs returns the chunk to it.
QueueRemove(t) ==
  LET back == IF Checking(t) THEN t.outstanding ELSE {} IN
  [t EXCEPT !.outstanding = {}, !.hashing = {}, !.ranges = @ \cup back,
            !.thrown = @ \/ (t.outstanding \cup t.hashing # {} /\ ~t.open)]

\* HashTorrent::clear().
CheckerClear(t) == [t EXCEPT !.check = "idle", !.delays = @ \ {"checked"}]

\* Mutant: the delayed signals stay scheduled.
WrapperCloseKeepsSignals(t) == MainClose(QueueRemove(CheckerClear(t)))

\* Mutant: the queue is emptied when the download is closed already.
WrapperCloseQueueLast(t) ==
  LET u == QueueRemove(MainClose(CheckerClear(t))) IN
  [u EXCEPT !.delays = @ \ {"done", "partial", "restarted"}]

\* DownloadWrapper::close(); the sync before MainClose ignores errors.
WrapperClose(t) ==
  LET u == MainClose(QueueRemove(CheckerClear(t))) IN
  [u EXCEPT !.delays = @ \ {"done", "partial", "restarted"}]

\* receive_storage_error().
StorageErrorOf(t) == [WrapperClose(MainStop(t)) EXCEPT !.tracker = "closed"]

\* receive_update_priorities() with the chunks that files want now.
UpdatePriorities(t, wanted) ==
  LET u == [t EXCEPT !.wanted = wanted]
      told == u.active /\ ~IsDone(u) /\ (Left(t) # {}) # (Left(u) # {})
  IN IF ~told THEN u
     ELSE [u EXCEPT !.delays = (@ \ {"partial", "restarted"})
                                \cup {IF Left(t) # {} THEN "partial" ELSE "restarted"}]

-----------------------------------------------------------------------------
(* The client's calls.                                                     *)

\* Download::open(), which takes all ranges; or FileList::open() throws.
Open ==
  /\ ~d.open /\ ~d.gone /\ d.opens < MaxOpens
  /\ \/ d' = [d EXCEPT !.open = TRUE, !.sized = TRUE, !.filesOpen = TRUE,
                       !.ranges = Chunks, !.opens = @ + 1]
     \/ d' = [d EXCEPT !.filesOpen = FALSE, !.opens = @ + 1]

\* Download::stop().
StopOf(t) == IF ~t.active THEN t ELSE [MainStop(t) EXCEPT !.tracker = "disabled"]

Close == ~d.gone /\ d.opens > 0 /\ d' = WrapperClose(StopOf(d))

Stop == d.active /\ d' = StopOf(d)

\* Download::start(), for which the client waits until the hash is checked.
\* FileList::open() may throw after the initial seeding has been set up.
Start ==
  /\ d.open /\ Checked(d) /\ ~d.active
  /\ LET seeds == d.type = "initial" /\ IsDone(d)
         t == [d EXCEPT !.seeding = @ \/ seeds,
                        !.type = IF d.type = "initial" /\ ~seeds THEN "seed" ELSE @]
     IN \/ d' = [t EXCEPT !.filesOpen = TRUE, !.active = TRUE, !.listActive = TRUE,
                          !.tracker = "enabled", !.thrown = @ \/ ~d.allocated]
        \/ d' = [t EXCEPT !.filesOpen = FALSE]

\* Download::hash_check(): `there' are the chunks whose files exist.  The client does
\* not call it again between an error and the signal that tells of it.
HashCheck(quick, there) ==
  /\ d.open /\ ~d.active /\ ~Checking(d) /\ d.check \in {"idle", "checked"} /\ ~Checked(d)
  /\ LET ranges == IF d.allocated THEN d.ranges ELSE Chunks
         t == [d EXCEPT !.allocated = TRUE, !.ranges = ranges,
                        !.bits = IF quick /\ d.allocated THEN @ ELSE @ \ ranges]
         found == ranges \cap there
     IN \/ found = {} /\ d' = [t EXCEPT !.check = "waiting", !.delays = @ \cup {"checked"}]
        \/ found # {} /\ quick /\ d' = [t EXCEPT !.check = "quick",
                                                  !.ranges = {c \in ranges : \E first \in found : first <= c}]
        \/ found # {} /\ ~quick /\ d' = [t EXCEPT !.check = "running", !.outstanding = found]
        \/ ~quick /\ d' = [t EXCEPT !.check = "failed", !.delays = @ \cup {"checked"}]

\* Download::hash_stop(): what was before the position is not checked again.
HashStop ==
  /\ Checking(d)
  /\ LET t == [d EXCEPT !.ranges = IF d.check = "quick" THEN @ ELSE {}] IN
     d' = CheckerClear(QueueRemove(t))

\* Download::set_bitfield(), of resume data.
SetBitfield(bits) ==
  /\ d.open /\ ~Checked(d) /\ ~Checking(d) /\ d.check # "failed"
  /\ d' = [d EXCEPT !.allocated = TRUE, !.bits = bits, !.ranges = {}]

\* Download::update_priorities() and set_connection_type().
SetPriorities(wanted) == Checked(d) /\ wanted # d.wanted /\ d' = UpdatePriorities(d, wanted)

SetConnectionType(type) ==
  /\ ~d.gone /\ type # d.type /\ (type = "initial" /\ d.active => d.seeding)
  /\ d' = [d EXCEPT !.type = type]

\* Download::sync_chunks() or the manager's tick meet a chunk that cannot be synced.
SyncFails == d.open /\ d.sized /\ d' = StorageErrorOf(d)

\* download_remove(): cleanup_download(), then both destructors.
Remove ==
  /\ ~d.gone
  /\ LET t == WrapperClose(MainStop(d)) IN
     d' = [t EXCEPT !.gone = TRUE, !.tracker = "closed",
                    !.thrown = @ \/ "request" \in t.delays \/ t.peers # 0]

-----------------------------------------------------------------------------
(* What happens meanwhile.                                                 *)

\* A chunk of the check is hashed: receive_chunkdone().
CheckAnswer(c, ok) ==
  /\ c \in d.outstanding
  /\ LET t == [d EXCEPT !.outstanding = @ \ {c}, !.bits = IF ok THEN @ \cup {c} ELSE @,
                        !.thrown = @ \/ ~d.open \/ d.check # "running"]
     IN d' = IF t.outstanding # {} THEN t
             ELSE [t EXCEPT !.check = "waiting", !.delays = @ \cup {"checked"}]

\* receive_initial_hash().
InitialHash ==
  /\ "checked" \in d.delays
  /\ LET t == [d EXCEPT !.delays = @ \ {"checked"}, !.thrown = @ \/ d.active] IN
     d' = IF ~Checking(d) THEN StorageErrorOf(t)
          ELSE UpdatePriorities([t EXCEPT !.check = "checked", !.selector = TRUE,
                                          !.thrown = @ \/ d.outstanding \cup d.hashing # {}], d.wanted)

\* A chunk is complete: receive_chunk_done().
ChunkDone(c) ==
  /\ d.active /\ d.peers > 0 /\ c \in Left(d) \ d.hashing
  /\ d' = [d EXCEPT !.hashing = @ \cup {c}, !.thrown = @ \/ ~d.selector]

\* finished_download(), which closes connections to seeders.
Finished(t) == [t EXCEPT !.delays = @ \cup {"done"}]

\* receive_hash_done() outside of the check, also of a stopped download.
HashDone(c, ok) ==
  /\ c \in d.hashing
  /\ LET t == [d EXCEPT !.hashing = @ \ {c}, !.bits = IF ok THEN @ \cup {c} ELSE @,
                        !.thrown = @ \/ ~d.open \/ Checking(d) \/ ~Checked(d)]
     IN d' = CASE ok /\ IsDone(t) -> Finished(t)
               [] ok /\ ~IsDone(t) /\ Left(d) # {} /\ Left(t) = {} ->
                    [t EXCEPT !.delays = (@ \ {"restarted"}) \cup {"partial"}]
               [] OTHER -> t

Connect == d.active /\ d.peers = 0 /\ d' = [d EXCEPT !.delays = @ \cup {"disconnect"}, !.peers = 1]

\* The tracker's peers come, perhaps after the download has stopped.
TrackerSuccess ==
  /\ d.tracker # "closed" /\ ~d.gone
  /\ d' = [d EXCEPT !.delays = IF d.active THEN @ \cup {"request"} ELSE @]

\* receive_tracker_request() and disconnect_queued(), and the client's signals.
Fires(delay) ==
  /\ delay \in d.delays \ {"checked"}
  /\ d' = [d EXCEPT !.delays = @ \ {delay}, !.peers = IF delay = "disconnect" THEN 0 ELSE @]

LifeNext ==
  \/ Open \/ Close \/ Start \/ Stop \/ HashStop \/ SyncFails \/ Remove
  \/ \E quick \in BOOLEAN, there \in SUBSET Chunks : HashCheck(quick, there)
  \/ \E bits \in {{}, {0}, Chunks} : SetBitfield(bits)
  \/ \E wanted \in {{}, {0}, Chunks} : SetPriorities(wanted)
  \/ \E type \in {"leech", "initial"} : SetConnectionType(type)
  \/ \E c \in Chunks, ok \in BOOLEAN : CheckAnswer(c, ok) \/ HashDone(c, ok)
  \/ \E c \in Chunks : ChunkDone(c)
  \/ InitialHash \/ Connect \/ TrackerSuccess
  \/ \E delay \in {"done", "partial", "restarted", "request", "disconnect"} : Fires(delay)

LifeSpec == LifeInit /\ [][LifeNext]_d

-----------------------------------------------------------------------------
(* Properties.                                                             *)

\* None of the internal errors and assertions of the life cycle is reached: a hash
\* arrives only while the download is open and in the state that expects it, the
\* check ends only with an empty queue, and nothing is scheduled when it is deleted.
NoInternalError == ~d.thrown

\* A closed download keeps nothing of its last life, whatever ended it: nothing is
\* hashed or checked, no signal is to come and no selector is left.
ClosedIsReset ==
  ~d.open => /\ ~d.active /\ ~d.selector /\ d.check = "idle"
             /\ d.hashing = {} /\ d.outstanding = {}
             /\ d.delays = {}

\* A stopped download has no connection and no task that would act on one.
StoppedIsQuiet ==
  ~d.active => d.peers = 0 /\ ~d.listActive /\ d.delays \cap {"request", "disconnect"} = {}

\* A signal that is still to come tells the truth: the download is done.
DoneIsTrue == "done" \in d.delays => d.open /\ IsDone(d)

\* An active download can find chunks and knows which it has.
ActiveIsReady == d.active => d.open /\ d.filesOpen /\ d.allocated /\ d.selector /\ Checked(d)

\* A bitfield is kept only while the download is open (it is not: close() leaves it).
ClosedHasNoBitfield == ~d.open => ~d.allocated

(* A closed download keeps nothing of its last life and a stopped one is   *)
(* quiet, whatever ended it, a storage error or the client; a delayed      *)
(* signal that is still to come is true, an active download is ready, and  *)
(* no internal_error is reached.                                           *)
DownloadIsConsistent ==
  NoInternalError /\ ClosedIsReset /\ StoppedIsQuiet /\ DoneIsTrue /\ ActiveIsReady

=============================================================================
