----------------------------- MODULE HashService -----------------------------
(***************************************************************************)
(* What HashQueue promises to the downloads on the main thread: a chunk    *)
(* that is pushed gets exactly one call of its slot, with its hash, or     *)
(* with NULL while remove() runs for its download; and when remove() has   *)
(* returned, no chunk of that download is left.                            *)
(***************************************************************************)
CONSTANTS
  Chunks,       \* the HashChunk objects
  Ids,          \* the downloads
  NoId

VARIABLES
  pending,      \* the download of each chunk that waits for its slot
  removing      \* the download remove() runs for

vars == <<pending, removing>>

Init ==
  /\ pending = [c \in Chunks |-> NoId]
  /\ removing = NoId

Add(c, id) ==
  /\ pending[c] = NoId /\ removing = NoId
  /\ pending' = [pending EXCEPT ![c] = id]
  /\ UNCHANGED removing

(* slot_done(handle, hash).                                                 *)
Answer(c) ==
  /\ pending[c] # NoId /\ removing = NoId
  /\ pending' = [pending EXCEPT ![c] = NoId]
  /\ UNCHANGED removing

BeginRemove(id) ==
  /\ removing = NoId
  /\ removing' = id
  /\ UNCHANGED pending

(* slot_done(handle, NULL).                                                 *)
Clear(c) ==
  /\ pending[c] = removing /\ removing # NoId
  /\ pending' = [pending EXCEPT ![c] = NoId]
  /\ UNCHANGED removing

EndRemove ==
  /\ removing # NoId
  /\ \A c \in Chunks : pending[c] # removing
  /\ removing' = NoId
  /\ UNCHANGED pending

Next ==
  \/ \E c \in Chunks : Answer(c) \/ Clear(c) \/ \E id \in Ids : Add(c, id)
  \/ \E id \in Ids : BeginRemove(id)
  \/ EndRemove

Fairness ==
  /\ \A c \in Chunks : SF_vars(Answer(c) \/ Clear(c))
  /\ WF_vars(EndRemove)

Spec == Init /\ [][Next]_vars /\ Fairness
=============================================================================
