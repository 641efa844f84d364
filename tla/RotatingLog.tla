---------------------------- MODULE RotatingLog ----------------------------
(***************************************************************************)
(* logger.rs: the daemon's log file and its backups.  File 0 is the log,   *)
(* file i its backup .i.  Lines are numbered in the order log() wrote      *)
(* them; the mutex makes log() one sequence, but the process may be        *)
(* stopped between any two system calls of it (launchctl bootout, a        *)
(* crash), after which it starts again.  Renames, opens and writes fail in *)
(* the runs whose `faults' say so.                                         *)
(***************************************************************************)
EXTENDS Integers, FiniteSets

CONSTANTS
  Limit,       \* MAX_LOG_BYTES
  Backups,     \* MAX_LOG_BACKUPS
  LineSizes,   \* the sizes of lines
  FaultModes,  \* the sets of faults a behaviour may have
  MaxLines     \* bound on the lines logged

Faults == {"stop", "rename", "open", "write"}

ASSUME ConstantsAssumption ==
  /\ Limit \in Nat \ {0}
  /\ Backups \in Nat \ {0}
  /\ LineSizes \subseteq Nat \ {0}
  /\ FaultModes \subseteq SUBSET Faults
  /\ MaxLines \in Nat

Files == 0..Backups

\* Not the name of a file: what an open file that was replaced is called.
Unlinked == Backups + 1

\* The line that reports a failed rotation.
NoteBytes == 1

VARIABLES
  faults,   \* the faults of this behaviour
  exists,   \* the files that exist
  lines,    \* the lines in each file
  bytes,    \* the size of each file
  pc,       \* where log() is: "down" (no logger), "idle", "shift", "open", "write"
  n,        \* the file rotate() is about to rename
  handle,   \* the name the open file has now
  counter,  \* bytes_written
  last      \* the number of lines logged

disk == <<exists, lines, bytes>>
vars == <<faults, disk, pc, n, handle, counter, last>>

\* An invariant of the data each variable holds: the open file has a name.
TypeOK ==
  /\ faults \in SUBSET Faults
  /\ exists \in SUBSET Files
  /\ lines \in [Files -> SUBSET Nat]
  /\ bytes \in [Files -> Nat]
  /\ pc \in {"down", "idle", "shift", "open", "write"}
  /\ n \in 0..(Backups - 1)
  /\ pc # "down" => handle \in exists
  /\ handle \in Files
  /\ counter \in Nat
  /\ last \in Nat

Init ==
  /\ faults \in FaultModes
  /\ exists = {}
  /\ lines = [i \in Files |-> {}]
  /\ bytes = [i \in Files |-> 0]
  /\ pc = "down"
  /\ n = 0
  /\ handle = 0
  /\ counter = 0
  /\ last = 0

\* Mutant of Seed: the counter starts from zero, as it does after a rotation.
FromZero == 0
Seed == bytes[0]

\* RotatingLogger::open.  When it fails the daemon goes on without a logger,
\* and what it would have logged is not numbered.
Start ==
  /\ pc = "down"
  /\ exists' = exists \cup {0}
  /\ handle' = 0
  /\ counter' \in {Seed} \cup (IF "open" \in faults THEN {0} ELSE {})
  /\ pc' = "idle"
  /\ UNCHANGED <<faults, lines, bytes, n, last>>

Stop ==
  /\ "stop" \in faults
  /\ pc # "down"
  /\ pc' = "down"
  /\ UNCHANGED <<faults, disk, n, handle, counter, last>>

\* Mutants: one backup fewer; one too many; the log itself is not moved.
TooFew == Backups - 2
TooMany == Backups
Oldest == Backups - 1
AboveLog == 1
Newest == 0

\* log() takes the lock.
Log ==
  /\ pc = "idle"
  /\ last < MaxLines
  /\ pc' = IF counter >= Limit THEN "shift" ELSE "write"
  /\ n' = IF counter >= Limit THEN Oldest ELSE n
  /\ UNCHANGED <<faults, disk, handle, counter, last>>

\* Mutant of Renamed: the file is copied, and stays until it is replaced.
Copied(f, nothing) == [f EXCEPT ![n + 1] = f[n]]
Renamed(f, nothing) == [f EXCEPT ![n + 1] = f[n], ![n] = nothing]

\* rename(n, n + 1) replaces what is there.
Rename ==
  /\ n \in exists
  /\ exists' = (exists \ {n}) \cup {n + 1}
  /\ lines' = Renamed(lines, {})
  /\ bytes' = Renamed(bytes, 0)
  /\ handle' = IF handle = n THEN n + 1 ELSE IF handle = n + 1 THEN Unlinked ELSE handle

\* A step of the loop over the backups, of which the move of the log is the
\* last.  The result of the rename is ignored.
Shift ==
  /\ pc = "shift"
  /\ \/ Rename
     \/ /\ n \notin exists \/ "rename" \in faults
        /\ UNCHANGED <<disk, handle>>
  /\ pc' = IF n = Newest THEN "open" ELSE "shift"
  /\ n' = IF n = Newest THEN n ELSE n - 1
  /\ UNCHANGED <<faults, counter, last>>

\* create, write and truncate: what the log held, if it was not moved, is gone.
OpenFresh ==
  /\ pc = "open"
  /\ exists' = exists \cup {0}
  /\ lines' = [lines EXCEPT ![0] = {}]
  /\ bytes' = [bytes EXCEPT ![0] = 0]
  /\ handle' = 0
  /\ counter' = 0
  /\ pc' = "write"
  /\ UNCHANGED <<faults, n, last>>

\* The old file stays open, under the name it has been moved to.
OpenFails ==
  /\ pc = "open"
  /\ "open" \in faults
  /\ bytes' = [bytes EXCEPT ![handle] = @ + NoteBytes]
  /\ pc' = "write"
  /\ UNCHANGED <<faults, exists, lines, n, handle, counter, last>>

Write ==
  /\ pc = "write"
  /\ \E size \in LineSizes :
       /\ bytes' = [bytes EXCEPT ![handle] = @ + size]
       /\ counter' = counter + size
  /\ lines' = [lines EXCEPT ![handle] = @ \cup {last + 1}]
  /\ last' = last + 1
  /\ pc' = "idle"
  /\ UNCHANGED <<faults, exists, n, handle>>

\* write_all fails, having written a part of the line perhaps.
WriteFails ==
  /\ pc = "write"
  /\ "write" \in faults
  /\ \E size \in LineSizes : \E part \in 0..(size - 1) :
       bytes' = [bytes EXCEPT ![handle] = @ + part]
  /\ last' = last + 1
  /\ pc' = "idle"
  /\ UNCHANGED <<faults, exists, lines, n, handle, counter>>

Next ==
  \/ Start \/ Stop
  \/ Log \/ Shift \/ OpenFresh \/ OpenFails \/ Write \/ WriteFails

Spec == Init /\ [][Next]_vars

-----------------------------------------------------------------------------
(***************************************************************************)
(* Properties.                                                             *)
(***************************************************************************)
Kept == UNION {lines[i] : i \in Files}

\* A reader who goes from the oldest backup to the log reads the lines in the
\* order they were logged, whatever has failed and wherever a rotation stopped.
InOrder ==
  \A i, j \in Files : i < j => \A new \in lines[i], old \in lines[j] : old < new

\* logger.rs:51: a rotation gives up the oldest lines.  Refuted when a rename
\* fails: the files behind it are replaced, or the log is truncated in place.
OldestFirst == \A k \in 1..last : k \in Kept => \A m \in k..last : m \in Kept

\* No file outgrows the limit by more than the line that reached it, however
\* often the daemon is restarted (CHANGELOG.md:67), while files can be opened
\* and written.
Bounded ==
  faults \cap {"open", "write"} = {} =>
    \A i \in Files : \E size \in LineSizes \cup {1} : bytes[i] < Limit + size

\* Lines are given up only when there are as many full files as there are
\* backups.  Stops cost more than the rotation they interrupt: each leaves a gap
\* among the backups, the next rotation starts by replacing the oldest one all
\* the same, and in the end two full files are what is left.
FullFiles == {i \in Files : bytes[i] >= Limit}
Spared == IF faults = {} THEN Backups ELSE IF Backups = 1 THEN 1 ELSE 2
KeepsBackups ==
  faults \subseteq {"stop"} /\ Kept # 1..last => Cardinality(FullFiles) >= Spared

\* The files implement one log that gives up its oldest lines.
Reader == INSTANCE KeptLog WITH
  kept <- Kept,
  lossy <- faults \cap {"rename", "write"} # {}

ImplementsKeptLog == Reader!Spec
=============================================================================
