----------------------------- MODULE HashTorrent -----------------------------
(***************************************************************************)
(* The hash check of one download on the main thread: HashTorrent, the     *)
(* parts of Download and DownloadWrapper that start, stop and finish it,   *)
(* and the slots by which HashQueue answers.  HashQueue is taken as its    *)
(* promise (module HashService): every chunk in it is answered once.       *)
(*                                                                         *)
(* The chunks of m_ranges are a set here; module Ranges shows that the     *)
(* sorted vector of the code behaves as one.                               *)
(***************************************************************************)
EXTENDS Integers, FiniteSets

CONSTANTS
  Size,              \* number of chunks
  OutstandingLimit,  \* more outstanding chunks than this stop queue()
  MaxErrors,         \* bound: failures of ChunkList::get
  RestartInDelay     \* the client may restart a check that failed before it is told

ASSUME SizesAssumption == Size \in Nat \ {0} /\ OutstandingLimit \in Nat /\ MaxErrors \in Nat

VARIABLES
  good, missing,     \* what is on disk: chunks with the right hash, chunks without a file
  open,              \* the download is open
  bitfield,          \* the completed chunks, or Unallocated
  m_ranges, m_position, m_outstanding, m_errno,
  delay_checked, delay_retry,   \* the scheduler entries are scheduled
  queued,            \* the chunks of this download in HashQueue
  queueing, quick,   \* queue() runs, and its argument
  thrown,            \* an internal_error was thrown
  errors

content == <<good, missing>>
delays  == <<delay_checked, delay_retry>>
checkVars == <<content, open, bitfield, m_ranges, m_position, m_outstanding, m_errno, delays,
               queued, queueing, quick, thrown, errors>>

Index       == 0..(Size - 1)
Unallocated == {-1}

IsChecking == m_outstanding >= 0
IsChecked  == open /\ m_position = Size /\ m_outstanding = -1

CheckTypeOK ==
  /\ good \in SUBSET Index /\ missing \in SUBSET Index /\ open \in BOOLEAN
  /\ bitfield = Unallocated \/ bitfield \in SUBSET Index
  /\ m_ranges \in SUBSET Index /\ m_position \in 0..Size
  /\ m_outstanding \in -1..(OutstandingLimit + 1) /\ m_errno \in BOOLEAN
  /\ delay_checked \in BOOLEAN /\ delay_retry \in BOOLEAN
  /\ queued \in SUBSET Index /\ queueing \in BOOLEAN /\ quick \in BOOLEAN
  /\ thrown \in BOOLEAN /\ errors \in 0..MaxErrors

(* The download was opened; whatever is on disk.                            *)
CheckInit ==
  /\ good \in SUBSET Index /\ missing \in SUBSET Index /\ good \cap missing = {}
  /\ open = TRUE /\ bitfield = Unallocated
  /\ m_ranges = Index /\ m_position = 0 /\ m_outstanding = -1 /\ m_errno = FALSE
  /\ delay_checked = FALSE /\ delay_retry = FALSE
  /\ queued = {} /\ queueing = FALSE /\ quick = FALSE
  /\ thrown = FALSE /\ errors = 0

MainIdle == ~queueing /\ ~thrown

-----------------------------------------------------------------------------
(* What the client calls.                                                  *)

(* Download::hash_check(), within the conditions it checks, and             *)
(* HashTorrent::start() up to its call of queue().                          *)
HashCheck(try_quick) ==
  /\ MainIdle /\ open /\ ~IsChecking /\ ~IsChecked
  /\ delay_checked => RestartInDelay
  /\ bitfield' = IF bitfield = Unallocated THEN {}
                 ELSE IF try_quick THEN bitfield ELSE bitfield \ m_ranges
  /\ m_ranges' = IF bitfield = Unallocated THEN Index ELSE m_ranges
  /\ thrown' = (m_position > 0)
  /\ m_outstanding' = 0
  /\ queueing' = TRUE /\ quick' = try_quick
  /\ UNCHANGED <<content, open, m_position, m_errno, delays, queued, errors>>

(* Mutant: m_position is not reset.                                         *)
ClearKeepsPosition ==
  /\ m_outstanding' = -1 /\ m_position' = m_position
  /\ delay_checked' = FALSE /\ delay_retry' = FALSE

(* HashTorrent::clear().                                                    *)
Clear ==
  /\ m_outstanding' = -1 /\ m_position' = 0
  /\ delay_checked' = FALSE /\ delay_retry' = FALSE

(* Mutant: HashTorrent::clear() first, as in close(): the chunks in the     *)
(* queue are not put back into the ranges.                                  *)
HashStopClearsFirst ==
  /\ MainIdle /\ IsChecking
  /\ m_ranges' = {i \in m_ranges : i >= m_position}
  /\ queued' = {}
  /\ Clear /\ m_errno' = FALSE
  /\ UNCHANGED <<content, open, bitfield, queueing, quick, thrown, errors>>

(* Download::hash_stop(): HashQueue::remove() passes every chunk to         *)
(* receive_chunk_cleared(), which puts it back into the ranges.             *)
HashStop ==
  /\ MainIdle /\ IsChecking
  /\ LET rest == {i \in m_ranges : i >= m_position}
     IN  /\ m_ranges' = rest \cup queued
         /\ thrown' = (m_outstanding < Cardinality(queued) \/ queued \cap rest # {})
  /\ queued' = {}
  /\ Clear /\ m_errno' = FALSE
  /\ UNCHANGED <<content, open, bitfield, queueing, quick, errors>>

(* DownloadWrapper::close(): the check is cleared first, so that the empty  *)
(* answers of HashQueue::remove() do not reach it.                          *)
CloseDownload ==
  /\ Clear /\ m_errno' = FALSE
  /\ queued' = {}
  /\ open' = FALSE /\ bitfield' = Unallocated

Close ==
  /\ MainIdle /\ open
  /\ CloseDownload
  /\ UNCHANGED <<content, m_ranges, queueing, quick, thrown, errors>>

(* Download::open().                                                        *)
Open ==
  /\ MainIdle /\ ~open
  /\ open' = TRUE /\ m_ranges' = Index
  /\ UNCHANGED <<content, bitfield, m_position, m_outstanding, m_errno, delays, queued,
                 queueing, quick, thrown, errors>>

-----------------------------------------------------------------------------
(* HashTorrent::queue(): one turn of its loop.                             *)

InRange == {i \in m_ranges : i >= m_position}
Nearest == CHOOSE i \in InRange : \A j \in InRange : i <= j

Return == queueing' = FALSE

(* The loop ended.                                                          *)
QueueFinished(position) ==
  /\ m_position' = position
  /\ delay_checked' = (delay_checked \/ m_outstanding = 0)
  /\ Return
  /\ UNCHANGED <<content, open, bitfield, m_ranges, m_outstanding, m_errno, delay_retry,
                 queued, quick, thrown, errors>>

QueueEnd == queueing /\ (m_position = Size \/ (m_outstanding <= OutstandingLimit /\ InRange = {}))
                     /\ QueueFinished(Size)

QueueFull ==
  /\ queueing /\ m_position < Size /\ m_outstanding > OutstandingLimit
  /\ Return
  /\ UNCHANGED <<content, open, bitfield, m_ranges, m_position, m_outstanding, m_errno, delays,
                 queued, quick, thrown, errors>>

(* ChunkList::get() of the next chunk in the ranges.                        *)
Getting == queueing /\ m_position < Size /\ m_outstanding <= OutstandingLimit /\ InRange # {}

(* No file: the chunk is skipped, quick or not.                             *)
QueueMissing ==
  /\ Getting /\ Nearest \in missing
  /\ m_position' = Nearest + 1
  /\ UNCHANGED <<content, open, bitfield, m_ranges, m_outstanding, m_errno, delays, queued,
                 queueing, quick, thrown, errors>>

(* A quick check ends at the first chunk that is there, or on an error.     *)
QueueQuickEnds ==
  /\ Getting /\ quick /\ Nearest \notin missing
  /\ m_position' = Nearest
  /\ thrown' = (m_outstanding # 0)
  /\ Return
  /\ UNCHANGED <<content, open, bitfield, m_ranges, m_outstanding, m_errno, delays, queued,
                 quick, errors>>

(* The chunk goes to HashQueue (check_chunk_hash).                          *)
QueueChunk ==
  /\ Getting /\ ~quick /\ Nearest \notin missing
  /\ m_position' = Nearest + 1
  /\ m_outstanding' = m_outstanding + 1
  /\ queued' = queued \cup {Nearest}
  /\ UNCHANGED <<content, open, bitfield, m_ranges, m_errno, delays, queueing, quick,
                 thrown, errors>>

(* ENOMEM: retried after a delay, or when the next chunk is done.           *)
QueueNoMemory ==
  /\ Getting /\ ~quick /\ errors < MaxErrors
  /\ errors' = errors + 1
  /\ m_position' = Nearest
  /\ delay_retry' = (delay_retry \/ m_outstanding = 0)
  /\ Return
  /\ UNCHANGED <<content, open, bitfield, m_ranges, m_outstanding, m_errno, delay_checked,
                 queued, quick, thrown>>

(* Any other error: it waits for the outstanding chunks, then ends the      *)
(* check.                                                                   *)
QueueError ==
  /\ Getting /\ ~quick /\ errors < MaxErrors
  /\ errors' = errors + 1
  /\ \/ /\ m_outstanding # 0
        /\ m_position' = Nearest
        /\ UNCHANGED <<m_outstanding, m_errno, delays>>
     \/ /\ m_outstanding = 0
        /\ m_outstanding' = -1 /\ m_position' = 0 /\ m_errno' = TRUE
        /\ delay_checked' = TRUE /\ delay_retry' = FALSE
  /\ Return
  /\ UNCHANGED <<content, open, bitfield, m_ranges, queued, quick, thrown>>

QueueStep ==
  \/ QueueEnd \/ QueueFull \/ QueueMissing \/ QueueQuickEnds \/ QueueChunk
  \/ QueueNoMemory \/ QueueError

-----------------------------------------------------------------------------
(* What the event loop calls.                                              *)

(* Mutant: receive_chunkdone() does not go on with queue().                 *)
HashDoneNoQueue(i) ==
  /\ MainIdle /\ i \in queued
  /\ queued' = queued \ {i}
  /\ bitfield' = IF i \in good THEN bitfield \cup {i} ELSE bitfield
  /\ m_outstanding' = m_outstanding - 1
  /\ UNCHANGED <<content, open, m_ranges, m_position, m_errno, delays, queueing, quick,
                 thrown, errors>>

(* receive_hash_done() with a hash: mark_completed() and                    *)
(* receive_chunkdone(), each with the errors they throw.                    *)
HashDone(i) ==
  /\ MainIdle /\ i \in queued
  /\ queued' = queued \ {i}
  /\ thrown' = \/ i \in good /\ (bitfield = Unallocated \/ i \in bitfield)
               \/ m_outstanding <= 0
  /\ bitfield' = IF i \in good THEN bitfield \cup {i} ELSE bitfield
  /\ m_outstanding' = m_outstanding - 1
  /\ queueing' = TRUE /\ quick' = FALSE
  /\ UNCHANGED <<content, open, m_ranges, m_position, m_errno, delays, errors>>

(* m_delay_retry calls queue(false).                                        *)
DelayRetry ==
  /\ MainIdle /\ delay_retry
  /\ delay_retry' = FALSE
  /\ thrown' = ~IsChecking
  /\ queueing' = TRUE /\ quick' = FALSE
  /\ UNCHANGED <<content, open, bitfield, m_ranges, m_position, m_outstanding, m_errno,
                 delay_checked, queued, errors>>

(* DownloadWrapper::receive_initial_hash(): the check failed, and the       *)
(* download is closed; or confirm_checked().                                *)
DelayChecked ==
  /\ MainIdle /\ delay_checked
  /\ \/ /\ ~IsChecking
        /\ CloseDownload
        /\ UNCHANGED thrown
     \/ /\ IsChecking
        /\ delay_checked' = FALSE
        /\ thrown' = (m_outstanding # 0 \/ queued # {})
        /\ m_outstanding' = -1
        /\ UNCHANGED <<open, bitfield, m_position, m_errno, delay_retry, queued>>
  /\ UNCHANGED <<content, m_ranges, queueing, quick, errors>>

-----------------------------------------------------------------------------
Client == (\E try_quick \in BOOLEAN : HashCheck(try_quick)) \/ HashStop \/ Close \/ Open

CheckNext ==
  \/ Client \/ QueueStep \/ DelayRetry \/ DelayChecked
  \/ \E i \in Index : HashDone(i)

(* queue() runs to its end, scheduler entries that are due are performed,   *)
(* and HashQueue answers.                                                   *)
Fairness ==
  /\ WF_checkVars(QueueStep) /\ WF_checkVars(DelayRetry) /\ WF_checkVars(DelayChecked)
  /\ \A i \in Index : WF_checkVars(HashDone(i))

CheckSpec == CheckInit /\ [][CheckNext]_checkVars /\ Fairness

-----------------------------------------------------------------------------
(* No order of client calls, answers and delays makes queue(),              *)
(* confirm_checked(), receive_chunkdone(), receive_chunk_cleared() or       *)
(* mark_completed() throw an internal_error.                                *)
NothingThrown == ~thrown

(* A download that counts as checked has exactly the good chunks in its     *)
(* bitfield, however often the check was stopped, restarted, retried and    *)
(* answered in whatever order: none was forgotten by the ranges.            *)
CheckedIsRight == IsChecked => bitfield = good

(* A full check ends, unless the client stops it: the limit on outstanding  *)
(* chunks, ENOMEM and I/O errors never leave it waiting for nobody.         *)
CheckEnds == (IsChecking /\ ~quick) ~> (~IsChecking \/ quick)

(* A check that ends has found exactly the chunks that are good, and no     *)
(* internal_error is thrown, whatever restarts, errors and closes come      *)
(* between its steps.                                                       *)
CheckIsRight == CheckTypeOK /\ CheckedIsRight /\ NothingThrown
=============================================================================
