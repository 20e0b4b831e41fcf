----------------------------- MODULE AtomicFile -----------------------------
(***************************************************************************)
(* What the rest of the system relies on from the state file: a save       *)
(* replaces the whole file or leaves it as it was, and a load gives what   *)
(* the last complete save wrote, or an error.  Recovery treats the file    *)
(* in this way, where saves are durable.                                   *)
(***************************************************************************)
CONSTANTS
  Image,        \* what may be saved
  Reading(_)    \* what a load makes of a file

NoFile == "no file"
Torn   == "torn"

VARIABLES
  file,     \* the state file
  loaded,   \* the answer to the last load
  durable   \* whether save makes sure that its bytes are on the disk

fileVars == <<file, loaded, durable>>

FileInit == file = NoFile /\ loaded = Reading(NoFile) /\ durable \in BOOLEAN

Replace == file' \in Image /\ UNCHANGED <<loaded, durable>>

Load == loaded' = Reading(file) /\ UNCHANGED <<file, durable>>

(* Only a save that is not durable may leave less than a whole file. *)
Tear == ~durable /\ file' = Torn /\ UNCHANGED <<loaded, durable>>

FileNext == Replace \/ Load \/ Tear

FileSpec == FileInit /\ [][FileNext]_fileVars
=============================================================================
