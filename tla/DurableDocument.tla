--------------------------- MODULE DurableDocument ---------------------------
(***************************************************************************)
(* What a workspace file promises the document it backs: a crash costs at  *)
(* most the work since the last checkpoint (design doc 15, "Checkpointing  *)
(* rides the version model"; checkpoint.hpp:23-27).  A file no checkpoint  *)
(* ever completed on keeps nothing: it opens as the empty document or not  *)
(* at all.                                                                 *)
(***************************************************************************)
CONSTANTS Version,   \* document versions
          Empty,     \* the version of a new file
          NoVersion, \* no document is open, or no checkpoint to speak of
          Refused    \* an open returned an error

VARIABLES document,   \* the version in memory, NoVersion after a crash
          kept,       \* the version of the last completed checkpoint
          underway    \* the version of an unfinished one

docVars == <<document, kept, underway>>

Open == document \notin {NoVersion, Refused}

DocInit == document = Empty /\ kept = NoVersion /\ underway = NoVersion

Edit ==
  /\ Open
  /\ document' \in Version
  /\ UNCHANGED <<kept, underway>>

BeginCheckpoint ==
  /\ Open
  /\ underway' = document
  /\ UNCHANGED <<document, kept>>

EndCheckpoint ==
  /\ Open /\ underway = document
  /\ kept' = underway /\ underway' = NoVersion
  /\ UNCHANGED document

Crash ==
  /\ document # Refused
  /\ document' = NoVersion
  /\ UNCHANGED <<kept, underway>>

Recover ==
  /\ document = NoVersion
  /\ \/ kept # NoVersion /\ document' = kept /\ kept' = kept
     \/ kept = NoVersion /\ document' = Empty /\ kept' = kept
     \/ underway # NoVersion /\ document' = underway /\ kept' = underway
  /\ underway' = NoVersion

\* Only a file without a completed checkpoint may fail to open.
Refuse ==
  /\ document = NoVersion /\ kept = NoVersion
  /\ document' = Refused
  /\ UNCHANGED <<kept, underway>>

DocNext ==
  Edit \/ BeginCheckpoint \/ EndCheckpoint \/ Crash \/ Recover \/ Refuse

DocSpec == DocInit /\ [][DocNext]_docVars
=============================================================================
