------------------------------ MODULE ResumeData ------------------------------
(***************************************************************************)
(* Resume data across crashes: resume_save_progress(), -_bitfield() and    *)
(* -_uncertain_pieces(), their loads, Download::set_bitfield(),            *)
(* update_range() and hash_check(), over a disk whose cache is lost with   *)
(* the power.                                                              *)
(*                                                                         *)
(* A client saves all of it together and keeps the object safely.  A chunk *)
(* that completed more than 15 minutes ago has reached the disk; newer     *)
(* data and the times of files get there whenever the system likes.  A     *)
(* file's saved `mtime' is a time or one of the marks ~0 to ~3; 0 is none. *)
(***************************************************************************)
EXTENDS Integers, Sequences

CONSTANTS
  Indices,    \* chunk indices
  FileChunks, \* the chunks of each file
  Deletable,  \* the files that may be deleted between sessions
  MaxWrites, MaxCrashes \* bounds on changes of a file's time and on sessions

\* Only the first file may go missing: what load reads of a later one that is gone is
\* what `FileStat' held before.
ASSUME ResumeAssumption ==
  FileChunks \in Seq(SUBSET Indices) /\ Deletable \subseteq {1}

VARIABLE rd

Files == DOMAIN FileChunks
ToCreate == -1   \* ~0: the file is still to be created
NotCreated == -2 \* ~1: it is not to be created
Unreliable == -3 \* ~2: the hash is to be checked
Downloading == -4 \* ~3: the time is not to be trusted, the bitfield is

FilesAt(c) == {f \in Files : c \in FileChunks[f]}

\* good: the chunks that read back right; disk: those that would without power.
ResumeInit ==
  rd = [up |-> FALSE, checked |-> FALSE, active |-> FALSE, bits |-> {}, recheck |-> {},
       good |-> {}, disk |-> {}, recent |-> {}, crashes |-> 0,
       create |-> [f \in Files |-> TRUE], exists |-> [f \in Files |-> FALSE],
       sized |-> [f \in Files |-> FALSE],
       writes |-> [f \in Files |-> 1], \* the time of the latest change, lost or not
       mtime |-> [f \in Files |-> 1], diskTime |-> [f \in Files |-> 1],
       saved |-> FALSE, obj |-> [bits |-> {}, mtime |-> [f \in Files |-> 0], uncertain |-> {}]]

-----------------------------------------------------------------------------
(* Loading.                                                                *)

\* update_range().
ClearRange(t, range, recheck) ==
  [t EXCEPT !.bits = @ \ range, !.recheck = IF recheck THEN @ \cup range ELSE @]

\* What FileStat says of a file.  A failed stat() fills in nothing, and load does not
\* look at its result: what is read may be what the last file left there.
Stat(t, f, stale) ==
  LET of == IF ~t.exists[f] /\ stale /\ f > 1 THEN f - 1 ELSE f IN
  [sized |-> t.exists[of] /\ t.sized[of], mtime |-> IF t.exists[of] THEN t.mtime[of] ELSE 0]

\* What is made of a file: whether it is to be created, and whether its range is
\* cleared and checked again.
Verdict(create, clear, recheck) == [create |-> create, clear |-> clear, recheck |-> recheck]

\* A time that differs is trusted.
LoadFileAnyTime(t, f, stat) ==
  LET mtime == t.obj.mtime[f] IN
  CASE mtime = 0 -> Verdict(TRUE, TRUE, TRUE)
    [] mtime \in {ToCreate, NotCreated} -> Verdict(mtime = ToCreate, TRUE, t.exists[f])
    [] mtime = Unreliable -> Verdict(FALSE, TRUE, TRUE)
    [] OTHER -> Verdict(FALSE, FALSE, FALSE)

LoadFile(t, f, stat) ==
  LET mtime == t.obj.mtime[f] IN
  CASE mtime = 0 -> Verdict(TRUE, TRUE, TRUE)
    [] mtime \in {ToCreate, NotCreated} -> Verdict(mtime = ToCreate, TRUE, t.exists[f])
    [] mtime \notin {0, ToCreate, NotCreated} /\ ~stat.sized -> Verdict(FALSE, TRUE, TRUE)
    [] mtime = Downloading /\ stat.sized -> Verdict(FALSE, FALSE, FALSE)
    [] OTHER -> Verdict(FALSE, mtime # stat.mtime, mtime # stat.mtime)

\* resume_load_bitfield() and set_bitfield(), which clear the ranges to be hashed,
\* the files, none of which looks at what another changed, then the uncertain
\* pieces.  Without an object hash_check() takes all ranges.
LoadUncertain(t) == ClearRange(t, t.obj.uncertain, TRUE)

LoadProgress(t, stale) ==
  LET load == [f \in Files |-> LoadFile(t, f, Stat(t, f, stale))] IN
  IF ~t.saved THEN [t EXCEPT !.bits = {}, !.recheck = Indices]
  ELSE LoadUncertain(
         [t EXCEPT !.bits = {i \in t.obj.bits : \A f \in FilesAt(i) : ~load[f].clear},
                   !.recheck = {i \in Indices : \E f \in FilesAt(i) : load[f].recheck},
                   !.create = [f \in Files |-> load[f].create]])

StartSession(stale) ==
  /\ ~rd.up
  /\ rd' = LoadProgress([rd EXCEPT !.up = TRUE, !.checked = FALSE, !.active = FALSE], stale)

\* hash_check() to its end.
CheckHashes ==
  /\ rd.up /\ ~rd.checked
  /\ rd' = [rd EXCEPT !.checked = TRUE, !.recheck = {}, !.recent = {},
                    !.bits = @ \cup {c \in rd.recheck : c \in rd.good /\ \A f \in FilesAt(c) : rd.exists[f]}]

-----------------------------------------------------------------------------
(* A session.                                                              *)

\* Starting creates the files that are to be created; the others must be there.
Activate ==
  /\ rd.up /\ rd.checked /\ ~rd.active /\ \A f \in Files : rd.exists[f] \/ rd.create[f]
  /\ rd' = [rd EXCEPT !.active = TRUE, !.exists = [f \in Files |-> TRUE],
                    !.create = [f \in Files |-> FALSE]]

Deactivate == rd.active /\ rd' = [rd EXCEPT !.active = FALSE]

\* A chunk is written, which resizes its files, and its hash is right.
Complete(c) ==
  /\ rd.active /\ c \notin rd.bits /\ \A f \in FilesAt(c) : rd.writes[f] < MaxWrites
  /\ rd' = [rd EXCEPT !.bits = @ \cup {c}, !.good = @ \cup {c}, !.recent = @ \cup {c},
                    !.sized = [f \in Files |-> @[f] \/ f \in FilesAt(c)],
                    !.writes = [f \in Files |-> IF f \in FilesAt(c) THEN @[f] + 1 ELSE @[f]],
                    !.mtime = [f \in Files |-> IF f \in FilesAt(c) THEN rd.writes[f] + 1 ELSE @[f]]]

WriteBack(c) == c \in rd.good \ rd.disk /\ rd' = [rd EXCEPT !.disk = @ \cup {c}]

WriteTime(f) == rd.diskTime[f] # rd.mtime[f] /\ rd' = [rd EXCEPT !.diskTime[f] = rd.mtime[f]]

\* 15 minutes pass.
Age(c) == c \in rd.recent \cap rd.disk /\ rd' = [rd EXCEPT !.recent = @ \ {c}]

\* No pieces are uncertain.
SaveUncertainNone(t) == {}

\* resume_save_uncertain_pieces(): TransferList's list of the last minutes.
SaveUncertain(t) == t.recent

SaveFile(t, f) ==
  CASE ~t.exists[f] /\ t.create[f] -> ToCreate
    [] ~t.exists[f] /\ ~t.create[f] -> NotCreated
    [] t.exists[f] /\ (t.bits = Indices \/ ~t.active) -> t.mtime[f]
    [] OTHER -> Downloading

\* resume_save_progress(), nothing unless the hash is checked.
Save ==
  /\ rd.up /\ rd.checked
  /\ rd' = [rd EXCEPT !.saved = TRUE,
                    !.obj = [bits |-> rd.bits, mtime |-> [f \in Files |-> SaveFile(rd, f)],
                             uncertain |-> SaveUncertain(rd)]]

\* The process ends.  What it wrote gets to the disk before the next one starts.
EndSession(t) ==
  [t EXCEPT !.up = FALSE, !.checked = FALSE, !.active = FALSE, !.bits = {}, !.recheck = {},
            !.recent = {}, !.disk = t.good, !.diskTime = t.mtime]

\* sync_chunks() fails, and some of what was to be written is lost: the storage error
\* closes the download, and what was saved before is not to be trusted.
SaveFails(lost) ==
  /\ rd.up /\ rd.checked /\ lost # {}
  /\ rd' = EndSession([rd EXCEPT !.good = @ \ lost,
                               !.obj.mtime = IF rd.saved THEN [f \in Files |-> Unreliable] ELSE @])

\* The process ends, or the power goes with what was not written back.
Crash(power) ==
  /\ rd.up /\ rd.crashes < MaxCrashes
  /\ rd' = EndSession([rd EXCEPT !.crashes = @ + 1,
                               !.good = IF power THEN rd.disk ELSE @,
                               !.mtime = IF power THEN rd.diskTime ELSE @])

\* Between sessions a file whose time was saved is changed by somebody else.
Tamper(f, c) ==
  /\ ~rd.up /\ rd.crashes > 0 /\ rd.obj.mtime[f] > 0 /\ c \in FileChunks[f] /\ rd.writes[f] < MaxWrites
  /\ rd' = [rd EXCEPT !.good = @ \ {c}, !.disk = @ \ {c},
                    !.writes[f] = @ + 1,
                    !.mtime[f] = rd.writes[f] + 1, !.diskTime[f] = rd.writes[f] + 1]

Delete(f) ==
  /\ f \in Deletable /\ ~rd.up /\ rd.exists[f]
  /\ rd' = [rd EXCEPT !.exists[f] = FALSE, !.good = @ \ FileChunks[f], !.disk = @ \ FileChunks[f]]

ResumeNext ==
  \/ \E stale \in BOOLEAN : StartSession(stale)
  \/ CheckHashes \/ Activate \/ Deactivate \/ Save
  \/ \E lost \in SUBSET (rd.good \ rd.disk) : SaveFails(lost)
  \/ \E c \in Indices : Complete(c) \/ WriteBack(c) \/ Age(c)
  \/ \E power \in BOOLEAN : Crash(power)
  \/ \E f \in Files : WriteTime(f) \/ Delete(f) \/ \E c \in Indices : Tamper(f, c)

ResumeSpec == ResumeInit /\ [][ResumeNext]_rd

-----------------------------------------------------------------------------
(* Properties.                                                             *)

\* What the resume data lets through unchecked is right: no chunk is claimed that was
\* lost with the power or changed by somebody else.
ClaimedIsRight == rd.up => rd.bits \subseteq rd.good

\* A file that is missing has its range cleared and checked.
MissingIsRechecked ==
  rd.up => \A f \in Files : ~rd.exists[f] => rd.bits \cap FileChunks[f] = {}

\* After any crash, between any two writes and saves, resume_load_progress() claims
\* no chunk that is not in the files.
ResumedIsRight == ClaimedIsRight /\ MissingIsRechecked

=============================================================================
