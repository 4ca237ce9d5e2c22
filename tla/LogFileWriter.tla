--------------------------- MODULE LogFileWriter ---------------------------
(***************************************************************************)
(* The log file and its rotation: write chains each entry behind the       *)
(* previous one, and an entry is written by checking the size of the       *)
(* current file, shifting file .1 to .2, .2 to .3 and so on when it is     *)
(* full, and appending.  Every file operation may fail, stat included:     *)
(* safeStat turns its error into "no such file".  The process may stop     *)
(* between any two of them.                                                *)
(*                                                                         *)
(* Entries are numbered in the order of the calls of write and may have    *)
(* any length up to MaxLength; a file is the set of the entries in it and  *)
(* its size in bytes, and a file that does not exist is empty (appendFile  *)
(* creates no empty file).                                                 *)
(***************************************************************************)
EXTENDS Naturals, FiniteSets

CONSTANTS
    MaxFiles,   \* LOG_MAX_FILES; 0 turns rotation off
    MaxSize,    \* LOG_MAX_SIZE_BYTES; 0 turns rotation off
    MaxLength,  \* bytes of the longest entry, which the code does not limit
    MaxEntries  \* bound: calls of write

ASSUME LimitAssumption ==
    /\ MaxFiles \in Nat
    /\ MaxSize \in Nat
    /\ MaxLength \in Nat
    /\ MaxEntries \in Nat

VARIABLES
    accepted,  \* calls of write so far
    pc,        \* where each entry stands in the chain
    index,     \* its loop variable in rotateIfNeeded
    files,     \* files[0] is the current log file, files[i] its .i
    bytes,     \* bytes[i] is the size of files[i]
    written,   \* history: entries appended to the log
    smooth,    \* history: no rename and no stat of a rotation has failed
    steady     \* history: the process has not restarted

vars == <<accepted, pc, index, files, bytes, written, smooth, steady>>

Entry == 1 .. MaxEntries
Slot == 0 .. MaxFiles

\* "new" is not logged yet, "settled" is done with, written or not.
Stage == {"new", "queued", "stat", "shift", "move", "append", "settled"}
Active == {"stat", "shift", "move", "append"}

TypeOK ==
    /\ accepted \in 0 .. MaxEntries
    /\ pc \in [Entry -> Stage]
    /\ index \in [Entry -> Slot]
    /\ files \in [Slot -> SUBSET Entry]
    /\ bytes \in [Slot -> Nat]
    /\ written \subseteq Entry
    /\ smooth \in BOOLEAN
    /\ steady \in BOOLEAN

OnDisk == UNION { files[i] : i \in Slot }

Init ==
    /\ accepted = 0
    /\ pc = [e \in Entry |-> "new"]
    /\ index = [e \in Entry |-> 0]
    /\ files = [i \in Slot |-> {}]
    /\ bytes = [i \in Slot |-> 0]
    /\ written = {}
    /\ smooth = TRUE
    /\ steady = TRUE

-----------------------------------------------------------------------------
\* persist: the logger hands the entry over and does not wait.
Write ==
    /\ accepted < MaxEntries
    /\ accepted' = accepted + 1
    /\ pc' = [pc EXCEPT ![accepted + 1] = "queued"]
    /\ UNCHANGED <<index, files, bytes, written, smooth, steady>>

Advance(e, from, to) ==
    /\ pc[e] = from
    /\ pc' = [pc EXCEPT ![e] = to]

\* The promise the entry was chained to is settled.
ItsTurn(e) == \A d \in 1 .. e - 1 : pc[d] = "settled"

\* Mistake, for mutation: the entry does not wait for the one before it.
Start_Unchained(e) ==
    /\ Advance(e, "queued", "stat")
    /\ UNCHANGED <<accepted, index, files, bytes, written, smooth, steady>>

\* ensureLogDirectory succeeds.
Start(e) ==
    /\ ItsTurn(e)
    /\ Advance(e, "queued", "stat")
    /\ UNCHANGED <<accepted, index, files, bytes, written, smooth, steady>>

\* Mistake, for mutation: one entry too many before the file is rotated.
Stat_TooLate(e) ==
    /\ IF MaxSize = 0 \/ MaxFiles = 0 \/ bytes[0] <= MaxSize
       THEN Advance(e, "stat", "append") /\ UNCHANGED index
       ELSE /\ Advance(e, "stat", IF MaxFiles = 1 THEN "move" ELSE "shift")
            /\ index' = [index EXCEPT ![e] = MaxFiles - 1]
    /\ UNCHANGED <<accepted, files, bytes, written, smooth, steady>>

Stat(e) ==
    /\ IF MaxSize = 0 \/ MaxFiles = 0 \/ bytes[0] < MaxSize
       THEN Advance(e, "stat", "append") /\ UNCHANGED index
       ELSE /\ Advance(e, "stat", IF MaxFiles = 1 THEN "move" ELSE "shift")
            /\ index' = [index EXCEPT ![e] = MaxFiles - 1]
    /\ UNCHANGED <<accepted, files, bytes, written, smooth, steady>>

\* safeStat swallows the error: the file counts as absent and is not rotated,
\* whatever its size.
StatFails(e) ==
    /\ MaxSize > 0 /\ MaxFiles > 0
    /\ files[0] # {}
    /\ Advance(e, "stat", "append")
    /\ smooth' = FALSE
    /\ UNCHANGED <<accepted, index, files, bytes, written, steady>>

\* rename: the target is overwritten.
Rename(i) ==
    /\ files' = [files EXCEPT ![i + 1] = files[i], ![i] = {}]
    /\ bytes' = [bytes EXCEPT ![i + 1] = bytes[i], ![i] = 0]

\* The next turn of the loop, or the rename after it.
NextIndex(e) ==
    /\ index' = [index EXCEPT ![e] = index[e] - 1]
    /\ IF index[e] = 1 THEN Advance(e, "shift", "move") ELSE Advance(e, "shift", "shift")

\* Mistake, for mutation: the loop runs from the newest file to the oldest,
\* so what it moves is .1 all the way up to .maxFiles.
Shift_Upwards(e) ==
    LET i == MaxFiles - index[e] IN
    /\ pc[e] = "shift"
    /\ NextIndex(e)
    /\ IF files[i] # {} THEN Rename(i) ELSE UNCHANGED <<files, bytes>>
    /\ UNCHANGED <<accepted, written, smooth, steady>>

Shift(e) ==
    /\ pc[e] = "shift"
    /\ NextIndex(e)
    /\ IF files[index[e]] # {} THEN Rename(index[e]) ELSE UNCHANGED <<files, bytes>>
    /\ UNCHANGED <<accepted, written, smooth, steady>>

\* Either error is swallowed and the loop goes on: that of the rename, or that
\* of the stat in exists, which then takes the file for absent.  The file stays,
\* and the next turn renames another one over it.
ShiftFails(e) ==
    /\ pc[e] = "shift"
    /\ NextIndex(e)
    /\ files[index[e]] # {}
    /\ smooth' = FALSE
    /\ UNCHANGED <<accepted, files, bytes, written, steady>>

Move(e) ==
    /\ Advance(e, "move", "append")
    /\ Rename(0)
    /\ UNCHANGED <<accepted, index, written, smooth, steady>>

MoveFails(e) ==
    /\ Advance(e, "move", "append")
    /\ smooth' = FALSE
    /\ UNCHANGED <<accepted, index, files, bytes, written, steady>>

\* The entry is appended whole, however little room the limit left.
AppendEntry(e) ==
    /\ Advance(e, "append", "settled")
    /\ files' = [files EXCEPT ![0] = files[0] \cup {e}]
    /\ \E length \in 1 .. MaxLength : bytes' = [bytes EXCEPT ![0] = bytes[0] + length]
    /\ written' = written \cup {e}
    /\ UNCHANGED <<accepted, index, smooth, steady>>

\* Mistake, for mutation: the rejection is not caught, and what is chained to
\* it is skipped: the entry never settles.
WriteFails_Uncaught(e) ==
    /\ ItsTurn(e)
    /\ Advance(e, "queued", "new") \/ Advance(e, "append", "new")
    /\ UNCHANGED <<accepted, index, files, bytes, written, smooth, steady>>

\* mkdir or appendFile fails: the entry is given up, the chain goes on.
WriteFails(e) ==
    /\ ItsTurn(e)
    /\ Advance(e, "queued", "settled") \/ Advance(e, "append", "settled")
    /\ UNCHANGED <<accepted, index, files, bytes, written, smooth, steady>>

\* The process ends: what is chained is lost, the files stay as they are.
Restart ==
    /\ \E e \in Entry : pc[e] \in Active \cup {"queued"}
    /\ pc' = [e \in Entry |-> IF e <= accepted THEN "settled" ELSE "new"]
    /\ index' = [e \in Entry |-> 0]
    /\ steady' = FALSE
    /\ UNCHANGED <<accepted, files, bytes, written, smooth>>

-----------------------------------------------------------------------------
Step(e) ==
    \/ Start(e)
    \/ Stat(e)
    \/ StatFails(e)
    \/ Shift(e)
    \/ ShiftFails(e)
    \/ Move(e)
    \/ MoveFails(e)
    \/ AppendEntry(e)
    \/ WriteFails(e)

Next ==
    \/ Write
    \/ \E e \in Entry : Step(e)
    \/ Restart

Spec == Init /\ [][Next]_vars

\* Every file operation is answered, with success or with an error.
FairSpec == Spec /\ WF_vars(\E e \in Entry : Step(e))

-----------------------------------------------------------------------------
(* Properties.                                                             *)

\* Reading the files from the highest suffix down to the current one gives the
\* entries in the order they were logged, even after failed renames and stats,
\* and after restarts in the middle of a rotation.
FilesInOrder ==
    \A i, j \in Slot :
        i < j => \A a \in files[i], b \in files[j] : b < a

\* Rotation drops the oldest entries and no others, unless a rename or a stat
\* failed: then the next file is renamed over one that did not move away.
OldestGoFirst ==
    smooth => \A lost \in written \ OnDisk, present \in OnDisk : lost < present

\* Nothing is dropped unless maxFiles files that reached the limit are left,
\* except after a failed rename or stat, or a restart that left a rotation half
\* done.
Retention ==
    smooth /\ steady /\ written \ OnDisk # {} =>
        Cardinality({i \in Slot : bytes[i] >= MaxSize}) >= MaxFiles

\* A file outgrows the limit by less than one entry, in any order of rotations
\* and restarts, unless a rename or a stat failed: the size is checked before
\* each entry, but not the length of the entry.
FilesBounded ==
    smooth /\ MaxSize > 0 /\ MaxFiles > 0 =>
        \A i \in Slot : bytes[i] < MaxSize + MaxLength

\* Every entry gets its turn: a write that fails does not block those behind it.
EntriesSettle ==
    \A e \in Entry : pc[e] = "queued" ~> pc[e] = "settled"
=============================================================================
