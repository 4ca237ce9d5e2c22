-------------------------- MODULE OperationsProofs --------------------------
(***************************************************************************)
(* Theorems about the two components an operator sees: LogFileWriter, for  *)
(* any number and size of files, and HealthProbes, for any probes.         *)
(***************************************************************************)
EXTENDS LogFileWriter, HealthProbes, FiniteSetTheorems, TLAPS

-----------------------------------------------------------------------------
(* LogFileWriter.                                                          *)

\* The chain lets one entry at a time at the files, in the order of the calls.
OneAtATime ==
    \A e \in Entry :
        /\ pc[e] = "new" <=> accepted < e
        /\ pc[e] \in Active => ItsTurn(e)

\* What is on disk was logged before whatever is still to be written.
DiskIsPast ==
    \A i \in Slot : \A d \in files[i], e \in Entry : pc[e] # "settled" => d < e

\* rotateIfNeeded keeps its loop variable between 1 and maxFiles - 1.
LoopBounds ==
    /\ \A e \in Entry : pc[e] = "shift" => index[e] \in 1 .. MaxFiles - 1
    /\ \A e \in Entry : pc[e] = "move" => MaxFiles > 0

\* A file has a size from its first entry on.
Sized == \A i \in Slot : bytes[i] = 0 <=> files[i] = {}

\* The inductive invariant.
IInv ==
    /\ TypeOK
    /\ OneAtATime
    /\ LoopBounds
    /\ Sized
    /\ DiskIsPast
    /\ FilesInOrder

-----------------------------------------------------------------------------
\* The initial state satisfies the inductive invariant.
LEMMA InitIInv == Init => IInv
BY LimitAssumption DEF Init, IInv, TypeOK, OneAtATime, LoopBounds, Sized, DiskIsPast, FilesInOrder,
   Stage, Active, Entry, Slot

\* An entry that has its turn and moves on leaves the chain in order.
LEMMA AdvanceKeepsChain ==
    ASSUME TypeOK, OneAtATime, NEW e \in Entry, ItsTurn(e),
           pc[e] \in Active \cup {"queued"},
           NEW from, NEW to \in Active \cup {"settled"}, Advance(e, from, to), accepted' = accepted
    PROVE  /\ pc' \in [Entry -> Stage]
           /\ pc'[e] = to /\ \A d \in Entry \ {e} : pc'[d] = pc[d]
           /\ OneAtATime'
<1>1. /\ pc' \in [Entry -> Stage]
      /\ pc'[e] = to /\ \A d \in Entry \ {e} : pc'[d] = pc[d]
    BY DEF TypeOK, Advance, Active, Stage
<1>2. ASSUME NEW d \in Entry PROVE pc'[d] = "new" <=> accepted' < d
    BY <1>1 DEF OneAtATime, Active
<1>3. ASSUME NEW d \in Entry, pc'[d] \in Active PROVE ItsTurn(d)'
    <2>1. CASE d = e
        BY <2>1, <1>1, LimitAssumption DEF ItsTurn, Entry
    <2>2. CASE d # e
        <3>1. ItsTurn(d)
            BY <1>1, <1>3, <2>2 DEF OneAtATime
        <3>2. d < e
            BY <2>2, <3>1, LimitAssumption DEF ItsTurn, Entry, Active
        <3> QED
            BY <1>1, <3>1, <3>2, LimitAssumption DEF ItsTurn, Entry
    <2> QED
        BY <2>1, <2>2
<1> QED
    BY <1>1, <1>2, <1>3 DEF OneAtATime

\* What a rename does, file by file.
LEMMA Renamed ==
    ASSUME TypeOK, NEW i \in Slot, i < MaxFiles, Rename(i)
    PROVE  /\ i + 1 \in Slot
           /\ files' \in [Slot -> SUBSET Entry] /\ bytes' \in [Slot -> Nat]
           /\ files'[i + 1] = files[i] /\ files'[i] = {}
           /\ bytes'[i + 1] = bytes[i] /\ bytes'[i] = 0
           /\ \A j \in Slot \ {i, i + 1} : files'[j] = files[j] /\ bytes'[j] = bytes[j]
<1>1. /\ i + 1 \in Slot /\ i # i + 1
      /\ files \in [Slot -> SUBSET Entry] /\ bytes \in [Slot -> Nat]
    BY LimitAssumption DEF TypeOK, Slot
<1>2. /\ files' = [files EXCEPT ![i + 1] = files[i], ![i] = {}]
      /\ bytes' = [bytes EXCEPT ![i + 1] = bytes[i], ![i] = 0]
    BY DEF Rename
<1>3. /\ files' \in [Slot -> SUBSET Entry]
      /\ files'[i + 1] = files[i] /\ files'[i] = {}
      /\ \A j \in Slot \ {i, i + 1} : files'[j] = files[j]
    BY <1>1, <1>2
<1>4. /\ bytes' \in [Slot -> Nat]
      /\ bytes'[i + 1] = bytes[i] /\ bytes'[i] = 0
      /\ \A j \in Slot \ {i, i + 1} : bytes'[j] = bytes[j]
    BY <1>1, <1>2
<1> QED
    BY <1>1, <1>3, <1>4

\* Renaming a file over the next one keeps the files in order and in the past.
LEMMA RenameKeepsOrder ==
    ASSUME IInv, NEW i \in Slot, i < MaxFiles, Rename(i),
           \A e \in Entry : pc'[e] # "settled" => pc[e] # "settled"
    PROVE  /\ files' \in [Slot -> SUBSET Entry] /\ bytes' \in [Slot -> Nat]
           /\ Sized' /\ DiskIsPast' /\ FilesInOrder'
<1>1. i + 1 \in Slot /\ files \in [Slot -> SUBSET Entry] /\ bytes \in [Slot -> Nat]
    BY LimitAssumption DEF IInv, TypeOK, Slot
<1>2. /\ files' \in [Slot -> SUBSET Entry] /\ bytes' \in [Slot -> Nat]
      /\ files'[i + 1] = files[i] /\ files'[i] = {}
      /\ bytes'[i + 1] = bytes[i] /\ bytes'[i] = 0
      /\ \A j \in Slot \ {i, i + 1} : files'[j] = files[j] /\ bytes'[j] = bytes[j]
    BY Renamed DEF IInv
<1>5. Sized'
    BY <1>1, <1>2 DEF IInv, Sized
<1>3. DiskIsPast'
    BY <1>1, <1>2 DEF IInv, DiskIsPast
<1>4. FilesInOrder'
    <2> SUFFICES ASSUME NEW j \in Slot, NEW k \in Slot, j < k,
                        NEW a \in files'[j], NEW b \in files'[k]
                 PROVE  b < a
        BY DEF FilesInOrder
    <2>1. j # i /\ (j = i + 1 => a \in files[i]) /\ (j # i + 1 => a \in files[j])
        BY <1>2
    <2>2. k # i /\ (k = i + 1 => b \in files[i]) /\ (k # i + 1 => b \in files[k])
        BY <1>2
    <2> QED
        BY <2>1, <2>2, LimitAssumption DEF IInv, FilesInOrder, Slot
<1> QED
    BY <1>2, <1>3, <1>4, <1>5

\* A step that writes no file keeps what is known of the files.
LEMMA NoWrite ==
    ASSUME IInv, UNCHANGED <<files, bytes>>,
           \A e \in Entry : pc'[e] # "settled" => pc[e] # "settled"
    PROVE  Sized' /\ DiskIsPast' /\ FilesInOrder'
BY DEF IInv, Sized, DiskIsPast, FilesInOrder

-----------------------------------------------------------------------------
\* The steps that write no file.
LEMMA ControlStep ==
    ASSUME IInv, NEW e \in Entry,
           \/ Start(e) \/ Stat(e) \/ StatFails(e) \/ ShiftFails(e)
           \/ MoveFails(e) \/ WriteFails(e)
    PROVE  IInv'
<1>1. /\ ItsTurn(e) /\ pc[e] \in Active \cup {"queued"}
      /\ UNCHANGED <<accepted, files, bytes, written, steady>> /\ smooth' \in BOOLEAN
    BY DEF IInv, TypeOK, OneAtATime, Active, Start, Stat, StatFails, ShiftFails, MoveFails, WriteFails,
       Advance, NextIndex
<1>2. \E from, to \in Stage : to \in Active \cup {"settled"} /\ Advance(e, from, to)
    BY DEF Start, Stat, StatFails, ShiftFails, MoveFails, WriteFails, NextIndex, Advance, Active, Stage
<1>3. /\ pc' \in [Entry -> Stage] /\ OneAtATime'
      /\ \A d \in Entry \ {e} : pc'[d] = pc[d]
    BY <1>1, <1>2, AdvanceKeepsChain DEF IInv, Active
<1>4. Sized' /\ DiskIsPast' /\ FilesInOrder'
    BY <1>1, <1>3, NoWrite DEF Active
<1>5. index' \in [Entry -> Slot] /\ LoopBounds'
    <2>1. CASE Start(e) \/ StatFails(e) \/ MoveFails(e) \/ WriteFails(e)
        BY <2>1, <1>3 DEF IInv, TypeOK, LoopBounds, Start, StatFails, MoveFails, WriteFails, Advance
    <2>2. CASE Stat(e)
        <3>1. /\ pc'[e] \in {"append", "move", "shift"}
              /\ pc'[e] = "shift" => index'[e] \in 1 .. MaxFiles - 1
              /\ pc'[e] = "move" => MaxFiles > 0
              /\ \A d \in Entry \ {e} : index'[d] = index[d]
              /\ index' \in [Entry -> Slot]
            BY <2>2, LimitAssumption DEF IInv, TypeOK, Stat, Advance, Slot
        <3> QED
            BY <1>3, <3>1 DEF IInv, LoopBounds
    <2>3. CASE ShiftFails(e)
        BY <2>3, LimitAssumption
        DEF IInv, TypeOK, LoopBounds, ShiftFails, NextIndex, Advance, Slot
    <2> QED
        BY <2>1, <2>2, <2>3
<1> QED
    BY <1>1, <1>3, <1>4, <1>5 DEF IInv, TypeOK

\* The renames of a rotation.
LEMMA RotationStep ==
    ASSUME IInv, NEW e \in Entry, Shift(e) \/ Move(e)
    PROVE  IInv'
<1>1. /\ ItsTurn(e) /\ pc[e] \in {"shift", "move"}
      /\ UNCHANGED <<accepted, written, smooth, steady>>
    BY DEF IInv, OneAtATime, Active, Shift, Move, Advance
<1>2. \E from, to \in Stage : to \in Active /\ Advance(e, from, to)
    BY DEF Shift, Move, NextIndex, Active, Stage
<1>3. /\ pc' \in [Entry -> Stage] /\ OneAtATime'
      /\ \A d \in Entry \ {e} : pc'[d] = pc[d]
    BY <1>1, <1>2, AdvanceKeepsChain DEF IInv, Active
<1>4. /\ files' \in [Slot -> SUBSET Entry] /\ bytes' \in [Slot -> Nat]
      /\ Sized' /\ DiskIsPast' /\ FilesInOrder'
    <2>1. \A d \in Entry : pc'[d] # "settled" => pc[d] # "settled"
        BY <1>1, <1>3
    <2>2. CASE UNCHANGED <<files, bytes>>
        BY <2>1, <2>2, NoWrite DEF IInv, TypeOK
    <2>3. CASE Shift(e) /\ Rename(index[e])
        <3>1. index[e] \in Slot /\ index[e] < MaxFiles
            BY <2>3, LimitAssumption DEF IInv, LoopBounds, Shift, Slot
        <3> QED
            BY <2>1, <2>3, <3>1, RenameKeepsOrder
    <2>4. CASE Move(e) /\ Rename(0)
        <3>1. 0 \in Slot /\ 0 < MaxFiles
            BY <2>4, LimitAssumption DEF IInv, LoopBounds, Move, Advance, Slot
        <3> QED
            BY <2>1, <2>4, <3>1, RenameKeepsOrder
    <2> QED
        BY <2>2, <2>3, <2>4 DEF Shift, Move
<1>5. index' \in [Entry -> Slot] /\ LoopBounds'
    <2>1. CASE Shift(e)
        BY <2>1, LimitAssumption DEF IInv, TypeOK, LoopBounds, Shift, NextIndex, Advance, Slot
    <2>2. CASE Move(e)
        BY <2>2, LimitAssumption DEF IInv, TypeOK, LoopBounds, Move, Advance, Slot
    <2> QED
        BY <2>1, <2>2
<1> QED
    BY <1>1, <1>3, <1>4, <1>5 DEF IInv, TypeOK

\* The append: the entry is the newest on disk and the next ones are newer.
LEMMA AppendStep ==
    ASSUME IInv, NEW e \in Entry, AppendEntry(e)
    PROVE  IInv'
<1>1. /\ ItsTurn(e) /\ pc[e] = "append" /\ 0 \in Slot
      /\ files' = [files EXCEPT ![0] = files[0] \cup {e}]
    BY LimitAssumption DEF IInv, OneAtATime, Active, AppendEntry, Advance, Slot
<1>2. /\ pc' \in [Entry -> Stage] /\ OneAtATime' /\ pc'[e] = "settled"
      /\ \A d \in Entry \ {e} : pc'[d] = pc[d]
    BY <1>1, AdvanceKeepsChain DEF IInv, AppendEntry, Active
<1>3. /\ files' \in [Slot -> SUBSET Entry] /\ files'[0] = files[0] \cup {e}
      /\ \A i \in Slot \ {0} : files'[i] = files[i]
    BY <1>1 DEF IInv, TypeOK
<1>4. \A d \in Entry : pc'[d] # "settled" => pc[d] # "settled" /\ e < d
    BY <1>1, <1>2, LimitAssumption DEF ItsTurn, Entry
<1>5. DiskIsPast'
    BY <1>3, <1>4 DEF IInv, DiskIsPast
<1>6. FilesInOrder'
    BY <1>1, <1>3, LimitAssumption DEF IInv, DiskIsPast, FilesInOrder, Slot
<1>7. LoopBounds'
    BY <1>2 DEF IInv, LoopBounds, AppendEntry
<1>8. bytes' \in [Slot -> Nat] /\ Sized'
    <2>1. PICK length \in 1 .. MaxLength : bytes' = [bytes EXCEPT ![0] = bytes[0] + length]
        BY DEF AppendEntry
    <2>2. /\ bytes' \in [Slot -> Nat] /\ bytes'[0] # 0
          /\ \A i \in Slot \ {0} : bytes'[i] = bytes[i]
        BY <1>1, <2>1, LimitAssumption DEF IInv, TypeOK
    <2> QED
        BY <1>3, <2>2 DEF IInv, Sized
<1> QED
    BY <1>2, <1>3, <1>5, <1>6, <1>7, <1>8 DEF IInv, TypeOK, AppendEntry

\* A call of write, and a restart.
LEMMA OuterStep ==
    ASSUME IInv, Write \/ Restart
    PROVE  IInv'
<1>1. CASE Write
    <2>1. /\ accepted + 1 \in Entry /\ accepted \in Nat /\ pc[accepted + 1] = "new"
          /\ accepted' = accepted + 1
          /\ pc' = [pc EXCEPT ![accepted + 1] = "queued"]
          /\ UNCHANGED <<index, files, bytes, written, smooth, steady>>
        BY <1>1, LimitAssumption DEF IInv, TypeOK, OneAtATime, Write, Entry
    <2>2. TypeOK' /\ LoopBounds'
        BY <2>1, LimitAssumption DEF IInv, TypeOK, LoopBounds, Entry, Stage
    <2>3. OneAtATime'
        <3>1. ASSUME NEW d \in Entry PROVE pc'[d] = "new" <=> accepted' < d
            BY <2>1, LimitAssumption DEF IInv, TypeOK, OneAtATime, Entry
        <3>2. ASSUME NEW d \in Entry, pc'[d] \in Active PROVE ItsTurn(d)'
            <4>1. pc[d] \in Active /\ ItsTurn(d)
                BY <2>1, <3>2 DEF IInv, TypeOK, OneAtATime, Active
            <4> QED
                BY <2>1, <4>1, LimitAssumption DEF IInv, TypeOK, ItsTurn, Entry
        <3> QED
            BY <3>1, <3>2 DEF OneAtATime
    <2>4. Sized' /\ DiskIsPast' /\ FilesInOrder'
        BY <2>1, NoWrite DEF IInv, TypeOK
    <2> QED
        BY <2>2, <2>3, <2>4 DEF IInv
<1>2. CASE Restart
    <2>1. /\ pc' = [e \in Entry |-> IF e <= accepted THEN "settled" ELSE "new"]
          /\ index' = [e \in Entry |-> 0] /\ steady' = FALSE /\ UNCHANGED <<accepted, files, bytes, written, smooth>>
        BY <1>2 DEF Restart
    <2>2. pc' \in [Entry -> {"settled", "new"}] /\ \A e \in Entry : pc'[e] = "new" <=> ~(e <= accepted)
        BY <2>1
    <2>3. TypeOK'
        <3>1. pc' \in [Entry -> Stage]
            BY <2>2 DEF Stage
        <3>2. index' \in [Entry -> Slot]
            BY <2>1, LimitAssumption DEF Slot
        <3>3. steady' \in BOOLEAN
            BY <2>1
        <3> QED
            BY <2>1, <3>1, <3>2, <3>3 DEF IInv, TypeOK
    <2>4. LoopBounds' /\ OneAtATime'
        BY <2>1, <2>2, LimitAssumption DEF IInv, TypeOK, LoopBounds, OneAtATime, Active, Entry
    <2>5. \A e \in Entry : pc'[e] # "settled" => pc[e] # "settled"
        BY <2>1, LimitAssumption DEF IInv, TypeOK, OneAtATime, Entry
    <2>6. Sized' /\ DiskIsPast' /\ FilesInOrder'
        BY <2>1, <2>5, NoWrite
    <2> QED
        BY <2>3, <2>4, <2>6 DEF IInv
<1> QED
    BY <1>1, <1>2

\* The inductive invariant is one.
LEMMA NextIInv == IInv /\ [Next]_vars => IInv'
<1> SUFFICES ASSUME IInv, [Next]_vars PROVE IInv'
    OBVIOUS
<1>1. CASE Next
    BY <1>1, ControlStep, RotationStep, AppendStep, OuterStep DEF Next, Step
<1>2. CASE UNCHANGED vars
    BY <1>2 DEF vars, IInv, TypeOK, OneAtATime, ItsTurn, LoopBounds, Sized, DiskIsPast, FilesInOrder
<1> QED
    BY <1>1, <1>2

-----------------------------------------------------------------------------
\* The inductive invariant holds in every reachable state.
THEOREM Invariance == Spec => []IInv
BY InitIInv, NextIInv, PTL DEF Spec

\* The variables keep their types.
THEOREM TypeCorrect == Spec => []TypeOK
<1>1. IInv => TypeOK
    BY DEF IInv
<1> QED
    BY <1>1, Invariance, PTL

\* The files, read from the highest suffix down, hold the entries in order.
THEOREM AlwaysInOrder == Spec => []FilesInOrder
<1>1. IInv => FilesInOrder
    BY DEF IInv
<1> QED
    BY <1>1, Invariance, PTL
-----------------------------------------------------------------------------
(* What rotation keeps.  RInv needs IInv: rotations do not overlap, and the *)
(* files are in order, so what falls off the last suffix is the oldest.     *)

\* What was written was logged before whatever is still to be written.
WrittenIsPast == \A d \in written, e \in Entry : pc[e] # "settled" => d < e

\* The suffix a rotation has just moved away from, and renames to next.
Gap ==
    { g \in 1 .. MaxFiles - 1 :
        \E e \in Entry : \/ pc[e] = "shift" /\ g = index[e] + 1
                         \/ pc[e] = "move" /\ g = 1 }

\* It is empty while no rename and no stat fails: no rename but the first can
\* drop a file.
MovedAway == smooth => \A g \in Gap : files[g] = {}

\* An entry is appended to a file that is below the limit.
AppendRoom ==
    smooth /\ MaxSize > 0 /\ MaxFiles > 0 =>
        \A e \in Entry : pc[e] = "append" => bytes[0] < MaxSize

\* A file is rotated once it has reached the limit, and rotated files do not shrink.
RotatedFull ==
    smooth /\ steady =>
        /\ \A j \in 1 .. MaxFiles : files[j] # {} => bytes[j] >= MaxSize
        /\ \A e \in Entry : pc[e] \in {"shift", "move"} =>
              MaxSize > 0 /\ bytes[0] >= MaxSize

\* The rotated files have consecutive suffixes from .1 on, but for the gap, and
\* nothing has been dropped while there is a suffix to spare.
NoHoles ==
    smooth /\ steady =>
        \A j \in (1 .. MaxFiles) \ Gap :
            files[j] = {} =>
                /\ written \subseteq OnDisk
                /\ \A k \in j .. MaxFiles : files[k] = {}

\* The second inductive invariant, on top of IInv.
RInv ==
    /\ WrittenIsPast
    /\ MovedAway
    /\ AppendRoom
    /\ RotatedFull
    /\ NoHoles
    /\ OldestGoFirst
    /\ FilesBounded

\* Initially nothing is written.
LEMMA InitRInv == Init => RInv
<1> SUFFICES ASSUME Init PROVE RInv
    OBVIOUS
<1>1. /\ \A e \in Entry : pc[e] = "new"
      /\ \A i \in Slot : files[i] = {} /\ bytes[i] = 0
      /\ written = {} /\ Gap = {}
    BY DEF Init, Gap
<1>2. \A i \in 1 .. MaxFiles : i \in Slot
    BY LimitAssumption DEF Slot
<1>3. FilesBounded
    BY <1>1, LimitAssumption DEF FilesBounded
<1> QED
    BY <1>1, <1>2, <1>3 DEF RInv, WrittenIsPast, MovedAway, AppendRoom, RotatedFull, NoHoles, OldestGoFirst

\* At most one entry is being written.
LEMMA OnlyOne ==
    ASSUME IInv, NEW e \in Entry, NEW d \in Entry, pc[e] \in Active, pc[d] \in Active
    PROVE  d = e
BY LimitAssumption DEF IInv, OneAtATime, ItsTurn, Active, Entry

\* A step of an entry that starts no rotation and ends none keeps what is known.
LEMMA QuietStep ==
    ASSUME IInv, RInv, UNCHANGED <<files, bytes, written, smooth>>,
           \A e \in Entry : pc'[e] # "settled" => pc[e] # "settled",
           \A e \in Entry : pc'[e] = "append" => pc[e] = "append",
           \/ /\ steady' = steady
              /\ \A e \in Entry : pc[e] \in {"shift", "move"} \/ pc'[e] \in {"shift", "move"} =>
                    pc'[e] = pc[e] /\ index'[e] = index[e]
           \/ /\ steady' = FALSE
              /\ \A e \in Entry : pc'[e] \notin {"shift", "move"}
    PROVE  RInv'
<1>1. WrittenIsPast' /\ AppendRoom' /\ OldestGoFirst' /\ FilesBounded'
    BY DEF RInv, WrittenIsPast, AppendRoom, OldestGoFirst, FilesBounded, OnDisk
<1>2. Gap' \subseteq Gap /\ (steady' => Gap' = Gap)
    BY DEF Gap
<1>3. MovedAway' /\ NoHoles'
    BY <1>2 DEF RInv, MovedAway, NoHoles, OnDisk
<1>4. RotatedFull'
    BY DEF RInv, RotatedFull
<1> QED
    BY <1>1, <1>3, <1>4 DEF RInv

\* The check of the size: a rotation starts without a gap, and only when the
\* current file is full.
LEMMA StatStep ==
    ASSUME IInv, RInv, NEW e \in Entry, Stat(e)
    PROVE  RInv'
<1>1. /\ pc[e] = "stat" /\ UNCHANGED <<accepted, files, bytes, written, smooth, steady>>
      /\ \A d \in Entry \ {e} : pc'[d] = pc[d] /\ index'[d] = index[d]
      /\ \A d \in Entry \ {e} : pc[d] \notin Active
    BY OnlyOne DEF IInv, TypeOK, Stat, Advance, Active
<1>2. \/ /\ pc'[e] = "append"
         /\ MaxSize > 0 /\ MaxFiles > 0 => bytes[0] < MaxSize
      \/ /\ pc'[e] = IF MaxFiles = 1 THEN "move" ELSE "shift"
         /\ index'[e] = MaxFiles - 1
         /\ MaxSize > 0 /\ MaxFiles > 0 /\ bytes[0] >= MaxSize
    <2>1. 0 \in Slot /\ bytes[0] \in Nat
        BY LimitAssumption DEF IInv, TypeOK, Slot
    <2> QED
        BY <2>1, LimitAssumption DEF IInv, TypeOK, Stat, Advance
<1>3. Gap = {} /\ Gap' = {}
    BY <1>1, <1>2, LimitAssumption DEF Gap, Active
<1>4. WrittenIsPast' /\ OldestGoFirst' /\ FilesBounded'
    BY <1>1 DEF RInv, WrittenIsPast, OldestGoFirst, FilesBounded, OnDisk
<1>5. MovedAway' /\ NoHoles'
    BY <1>1, <1>3 DEF RInv, MovedAway, NoHoles, OnDisk
<1>6. AppendRoom' /\ RotatedFull'
    BY <1>1, <1>2 DEF RInv, AppendRoom, RotatedFull, Active
<1> QED
    BY <1>4, <1>5, <1>6 DEF RInv

\* A failed rename or stat: what follows is promised only while none fails.
LEMMA FailureStep ==
    ASSUME IInv, RInv, NEW e \in Entry, StatFails(e) \/ ShiftFails(e) \/ MoveFails(e)
    PROVE  RInv'
<1>1. /\ smooth' = FALSE /\ written' = written
      /\ \A d \in Entry : pc'[d] # "settled" => pc[d] # "settled"
    BY DEF IInv, TypeOK, StatFails, ShiftFails, MoveFails, NextIndex, Advance
<1> QED
    BY <1>1 DEF RInv, WrittenIsPast, MovedAway, AppendRoom, RotatedFull, NoHoles, OldestGoFirst, FilesBounded
\* Renaming file i over a file that was moved away, or over the oldest, drops
\* nothing but the oldest.
LEMMA RenameDropsOldest ==
    ASSUME IInv, OldestGoFirst, NEW i \in Slot, i < MaxFiles, Rename(i), UNCHANGED <<written, smooth>>,
           smooth => (i + 1 = MaxFiles \/ files[i + 1] = {})
    PROVE  OldestGoFirst'
<1> SUFFICES ASSUME smooth, NEW lost \in (written \ OnDisk)', NEW present \in OnDisk'
             PROVE  lost < present
    BY DEF OldestGoFirst
<1>1. /\ i + 1 \in Slot /\ files \in [Slot -> SUBSET Entry]
      /\ files'[i + 1] = files[i] /\ files'[i] = {}
      /\ \A j \in Slot \ {i, i + 1} : files'[j] = files[j]
    BY LimitAssumption DEF IInv, TypeOK, Rename, Slot
<1>2. PICK k \in Slot : present \in files'[k]
    BY DEF OnDisk
<1>3. PICK j \in Slot \ {i + 1} : present \in files[j]
    <2>1. CASE k = i + 1
        BY <2>1, <1>1, <1>2, LimitAssumption DEF Slot
    <2>2. CASE k # i + 1
        BY <2>2, <1>1, <1>2
    <2> QED
        BY <2>1, <2>2
<1>4. CASE lost \notin OnDisk
    BY <1>3, <1>4 DEF OldestGoFirst, OnDisk
<1>5. CASE lost \in OnDisk
    <2>1. PICK l \in Slot : lost \in files[l]
        BY <1>5 DEF OnDisk
    <2>2. \A m \in Slot : lost \notin files'[m]
        BY DEF OnDisk
    <2>3. l = i + 1
        BY <1>1, <2>1, <2>2
    <2>4. j < l
        BY <1>3, <2>1, <2>3, LimitAssumption DEF Slot
    <2> QED
        BY <1>3, <2>1, <2>4 DEF IInv, FilesInOrder
<1> QED
    BY <1>4, <1>5

\* A rename changes no size but the two.
LEMMA RenameKeepsBounds ==
    ASSUME IInv, FilesBounded, NEW i \in Slot, i < MaxFiles, Rename(i), UNCHANGED smooth
    PROVE  FilesBounded'
<1>1. /\ i + 1 \in Slot /\ bytes'[i + 1] = bytes[i] /\ bytes'[i] = 0
      /\ \A j \in Slot \ {i, i + 1} : bytes'[j] = bytes[j]
    BY LimitAssumption DEF IInv, TypeOK, Rename, Slot
<1> QED
    BY <1>1, LimitAssumption DEF FilesBounded

\* A turn of the loop: the gap moves down by one.
LEMMA ShiftStep ==
    ASSUME IInv, RInv, NEW e \in Entry, Shift(e)
    PROVE  RInv'
<1> DEFINE i == index[e]
<1>1. /\ pc[e] = "shift" /\ i \in 1 .. MaxFiles - 1 /\ i \in Slot /\ i + 1 \in Slot /\ i < MaxFiles
      /\ UNCHANGED <<accepted, written, smooth, steady>>
      /\ \A d \in Entry \ {e} : pc'[d] = pc[d] /\ index'[d] = index[d]
      /\ \A d \in Entry \ {e} : pc[d] \notin Active
      /\ files \in [Slot -> SUBSET Entry] /\ bytes \in [Slot -> Nat]
    <2>1. pc[e] = "shift" /\ UNCHANGED <<accepted, written, smooth, steady>>
        BY DEF Shift
    <2>2. i \in 1 .. MaxFiles - 1 /\ i \in Slot /\ i + 1 \in Slot /\ i < MaxFiles
        BY <2>1, LimitAssumption DEF IInv, LoopBounds, Slot
    <2>3. \A d \in Entry \ {e} : pc'[d] = pc[d] /\ index'[d] = index[d]
        BY DEF IInv, TypeOK, Shift, NextIndex, Advance
    <2>4. \A d \in Entry \ {e} : pc[d] \notin Active
        BY <2>1, OnlyOne DEF Active
    <2> QED
        BY <2>1, <2>2, <2>3, <2>4 DEF IInv, TypeOK
<1>2. IF i = 1 THEN pc'[e] = "move" ELSE pc'[e] = "shift" /\ index'[e] = i - 1
    BY <1>1 DEF IInv, TypeOK, Shift, NextIndex, Advance
<1>3. Gap = {i + 1} \cap (1 .. MaxFiles - 1) /\ Gap' = {i}
    <2>1. \A g \in Int : g \in Gap <=> g \in 1 .. MaxFiles - 1 /\ g = i + 1
        BY <1>1, LimitAssumption DEF Gap, Active
    <2>2. \A g \in Int : g \in Gap' <=> g = i
        <3>1. CASE i = 1
            BY <3>1, <1>1, <1>2 DEF Gap, Active
        <3>2. CASE i # 1
            <4>1. index'[e] + 1 = i /\ pc'[e] = "shift"
                BY <3>2, <1>1, <1>2, LimitAssumption
            <4> QED
                BY <4>1, <1>1, LimitAssumption DEF Gap, Active
        <3> QED
            BY <3>1, <3>2
    <2>3. Gap \subseteq Int /\ Gap' \subseteq Int /\ i \in Int /\ 1 .. MaxFiles - 1 \subseteq Int
        BY <1>1, LimitAssumption DEF Gap
    <2>4. Gap' = {i}
        BY <2>2, <2>3
    <2>5. Gap = {i + 1} \cap (1 .. MaxFiles - 1)
        BY <2>1, <2>3
    <2> QED
        BY <2>4, <2>5
<1>4. /\ smooth => (i + 1 = MaxFiles \/ files[i + 1] = {})
      /\ smooth /\ steady /\ i + 1 # MaxFiles => files[i + 1] = {}
    BY <1>1, <1>3, LimitAssumption DEF RInv, MovedAway
<1>5. \/ files[i] = {} /\ UNCHANGED <<files, bytes>>
      \/ files[i] # {} /\ Rename(i)
    BY DEF Shift
<1>6. WrittenIsPast' /\ AppendRoom'
    BY <1>1, <1>2 DEF RInv, WrittenIsPast, AppendRoom, Active
<1>7. OldestGoFirst' /\ FilesBounded'
    BY <1>1, <1>4, <1>5, RenameDropsOldest, RenameKeepsBounds DEF RInv, OldestGoFirst, FilesBounded, OnDisk
<1>8. /\ files'[i] = {} /\ (i + 1 # MaxFiles /\ smooth => files'[i + 1] = files[i])
      /\ \/ files'[i + 1] = files[i] /\ bytes'[i + 1] = bytes[i]
         \/ files[i] = {} /\ UNCHANGED <<files, bytes>>
      /\ \A j \in Slot \ {i, i + 1} : files'[j] = files[j] /\ bytes'[j] = bytes[j]
    <2>1. CASE UNCHANGED <<files, bytes>>
        BY <2>1, <1>1, <1>4, <1>5, LimitAssumption DEF Rename
    <2>2. CASE Rename(i)
        BY <2>2, <1>1, LimitAssumption DEF Rename
    <2> QED
        BY <2>1, <2>2, <1>5
<1>9. MovedAway'
    BY <1>3, <1>8 DEF MovedAway
<1>10. RotatedFull'
    <2>1. 0 \in Slot \ {i, i + 1} /\ \A j \in 1 .. MaxFiles : j \in Slot
        BY <1>1, LimitAssumption DEF Slot
    <2> SUFFICES ASSUME smooth, steady
                 PROVE  /\ \A j \in 1 .. MaxFiles : files'[j] # {} => bytes'[j] >= MaxSize
                        /\ MaxSize > 0 /\ bytes'[0] >= MaxSize
        BY <1>1 DEF RotatedFull
    <2>2. \A j \in 1 .. MaxFiles : files[j] # {} => bytes[j] >= MaxSize
        BY DEF RInv, RotatedFull
    <2>3. MaxSize > 0 /\ bytes[0] >= MaxSize
        BY <1>1 DEF RInv, RotatedFull
    <2>4. i \in 1 .. MaxFiles
        BY <1>1, LimitAssumption
    <2>5. ASSUME NEW j \in 1 .. MaxFiles, files'[j] # {}
          PROVE  bytes'[j] >= MaxSize
        <3>1. CASE j = i + 1
            BY <3>1, <1>8, <2>2, <2>4, <2>5
        <3>2. CASE j # i + 1
            BY <3>2, <1>8, <2>1, <2>2, <2>5
        <3> QED
            BY <3>1, <3>2
    <2> QED
        BY <1>8, <2>1, <2>3, <2>5
<1>11. NoHoles'
    <2> SUFFICES ASSUME smooth, steady, NEW j \in 1 .. MaxFiles, j # i, files'[j] = {}
                 PROVE  (written \subseteq OnDisk)' /\ \A k \in j .. MaxFiles : files'[k] = {}
        BY <1>1, <1>3 DEF NoHoles
    <2>1. \A k \in 1 .. MaxFiles : k \in Slot
        BY LimitAssumption DEF Slot
    <2>2. i \in (1 .. MaxFiles) \ Gap /\ \A h \in (1 .. MaxFiles) \ {i + 1} : h \notin Gap
        BY <1>1, <1>3, LimitAssumption
    <2>3. CASE files[i] = {}
        <3>1. files' = files /\ OnDisk' = OnDisk
            BY <2>3, <1>5 DEF OnDisk
        <3>2. written \subseteq OnDisk /\ \A k \in i .. MaxFiles : files[k] = {}
            BY <2>2, <2>3 DEF RInv, NoHoles
        <3>3. CASE j < i
            <4>1. j \notin Gap
                BY <2>2, <3>3, <1>1, LimitAssumption
            <4>2. written \subseteq OnDisk /\ \A k \in j .. MaxFiles : files[k] = {}
                BY <3>1, <4>1 DEF RInv, NoHoles
            <4> QED
                BY <1>1, <3>1, <4>2
        <3>4. CASE i < j
            <4>1. \A k \in j .. MaxFiles : k \in i .. MaxFiles
                BY <3>4, <1>1, LimitAssumption
            <4> QED
                BY <1>1, <3>1, <3>2, <4>1
        <3> QED
            BY <3>3, <3>4, <1>1, LimitAssumption
    <2>4. CASE files[i] # {}
        <3>1. files'[i + 1] = files[i] /\ j # i + 1 /\ files[j] = {} /\ j \notin Gap
            BY <2>1, <2>2, <2>4, <1>8
        <3>2. written \subseteq OnDisk /\ \A k \in j .. MaxFiles : files[k] = {}
            BY <3>1 DEF RInv, NoHoles
        <3>3. i + 1 < j
            <4>1. ~(j < i)
                BY <2>4, <3>2, <1>1, LimitAssumption
            <4> QED
                BY <3>1, <4>1, <1>1, LimitAssumption
        <3>4. files[i + 1] = {}
            BY <3>3, <1>1, <1>4, LimitAssumption
        <3>5. OnDisk \subseteq OnDisk'
            BY <1>1, <1>8, <3>1, <3>4 DEF OnDisk
        <3>6. \A k \in j .. MaxFiles : k \in Slot \ {i, i + 1}
            BY <3>3, <1>1, LimitAssumption DEF Slot
        <3> QED
            BY <1>1, <1>8, <3>2, <3>5, <3>6
    <2> QED
        BY <2>3, <2>4
<1> QED
    BY <1>6, <1>7, <1>9, <1>10, <1>11 DEF RInv
\* The last rename: the current file becomes .1, and the gap is closed.
LEMMA MoveStep ==
    ASSUME IInv, RInv, NEW e \in Entry, Move(e)
    PROVE  RInv'
<1>1. /\ pc[e] = "move" /\ pc'[e] = "append" /\ MaxFiles > 0 /\ 0 \in Slot /\ 1 \in Slot
      /\ Rename(0) /\ UNCHANGED <<accepted, written, smooth, steady>>
      /\ \A d \in Entry \ {e} : pc'[d] = pc[d] /\ index'[d] = index[d]
      /\ \A d \in Entry \ {e} : pc[d] \notin Active
      /\ files \in [Slot -> SUBSET Entry] /\ bytes \in [Slot -> Nat]
    BY OnlyOne, LimitAssumption DEF IInv, TypeOK, LoopBounds, Move, Advance, Active, Slot
<1>2. /\ files'[1] = files[0] /\ files'[0] = {} /\ bytes'[1] = bytes[0] /\ bytes'[0] = 0
      /\ \A j \in Slot \ {0, 1} : files'[j] = files[j] /\ bytes'[j] = bytes[j]
    <2>1. 0 < MaxFiles /\ 0 + 1 = 1
        BY <1>1, LimitAssumption
    <2> QED
        BY <1>1, <2>1, Renamed DEF IInv
<1>3. Gap = {1} \cap (1 .. MaxFiles - 1) /\ Gap' = {}
    <2>1. \A g \in Int : g \in Gap <=> g \in 1 .. MaxFiles - 1 /\ g = 1
        BY <1>1, LimitAssumption DEF Gap, Active
    <2>2. Gap' = {}
        BY <1>1, LimitAssumption DEF Gap, Active
    <2>3. Gap \subseteq Int /\ 1 .. MaxFiles - 1 \subseteq Int
        BY LimitAssumption DEF Gap
    <2> QED
        BY <2>1, <2>2, <2>3
<1>4. smooth => (MaxFiles = 1 \/ files[1] = {})
    BY <1>1, <1>3, LimitAssumption DEF RInv, MovedAway
<1>5. WrittenIsPast' /\ MovedAway'
    BY <1>1, <1>3 DEF RInv, WrittenIsPast, MovedAway
<1>6. OldestGoFirst' /\ FilesBounded'
    <2>1. 0 < MaxFiles /\ (smooth => (0 + 1 = MaxFiles \/ files[0 + 1] = {}))
        BY <1>1, <1>4
    <2> QED
        BY <1>1, <2>1, RenameDropsOldest, RenameKeepsBounds DEF RInv
<1>7. AppendRoom'
    BY <1>2, LimitAssumption DEF AppendRoom
<1>8. \A j \in 1 .. MaxFiles : j \in Slot /\ (j # 1 => files'[j] = files[j] /\ bytes'[j] = bytes[j])
    BY <1>2, LimitAssumption DEF Slot
<1>9. smooth /\ steady => files[0] # {} /\ bytes[0] >= MaxSize
    <2>1. smooth /\ steady => MaxSize > 0 /\ bytes[0] >= MaxSize
        BY <1>1 DEF RInv, RotatedFull
    <2> QED
        BY <1>1, <2>1, LimitAssumption DEF IInv, Sized
<1>10. RotatedFull'
    <2>1. \A d \in Entry : pc'[d] \notin {"shift", "move"}
        BY <1>1 DEF Active
    <2>2. smooth /\ steady => \A j \in 1 .. MaxFiles : files[j] # {} => bytes[j] >= MaxSize
        BY DEF RInv, RotatedFull
    <2>3. smooth /\ steady => \A j \in 1 .. MaxFiles : files'[j] # {} => bytes'[j] >= MaxSize
        BY <1>2, <1>8, <1>9, <2>2
    <2> QED
        BY <1>1, <2>1, <2>3 DEF RotatedFull
<1>11. NoHoles'
    <2> SUFFICES ASSUME smooth, steady, NEW j \in 1 .. MaxFiles, files'[j] = {}
                 PROVE  (written \subseteq OnDisk)' /\ \A k \in j .. MaxFiles : files'[k] = {}
        BY <1>1 DEF NoHoles
    <2>1. j # 1 /\ files[j] = {} /\ j \notin Gap /\ j > 1
        BY <1>2, <1>3, <1>8, <1>9, LimitAssumption
    <2>2. written \subseteq OnDisk /\ \A k \in j .. MaxFiles : files[k] = {}
        BY <2>1 DEF RInv, NoHoles
    <2>3. files[1] = {}
        BY <1>4, <2>1, LimitAssumption
    <2>4. OnDisk \subseteq OnDisk'
        BY <1>1, <1>2, <2>3 DEF OnDisk
    <2>5. \A k \in j .. MaxFiles : k \in 1 .. MaxFiles /\ k # 1
        BY <2>1, LimitAssumption
    <2> QED
        BY <1>1, <1>8, <2>2, <2>4, <2>5
<1> QED
    BY <1>5, <1>6, <1>7, <1>10, <1>11 DEF RInv

\* The append: the entry is newer than all that was written, and it fits.
LEMMA AppendRStep ==
    ASSUME IInv, RInv, NEW e \in Entry, AppendEntry(e)
    PROVE  RInv'
<1>1. /\ pc[e] = "append" /\ pc'[e] = "settled" /\ ItsTurn(e) /\ 0 \in Slot
      /\ written' = written \cup {e} /\ UNCHANGED <<index, smooth, steady>>
      /\ \A d \in Entry \ {e} : pc'[d] = pc[d]
      /\ \A d \in Entry \ {e} : pc[d] \notin Active
    BY OnlyOne, LimitAssumption
    DEF IInv, TypeOK, OneAtATime, AppendEntry, Advance, Active, Slot
<1>2. /\ files'[0] = files[0] \cup {e}
      /\ \A j \in Slot \ {0} : files'[j] = files[j] /\ bytes'[j] = bytes[j]
    BY <1>1 DEF IInv, TypeOK, AppendEntry
<1>3. Gap = {} /\ Gap' = {}
    BY <1>1 DEF Gap, Active
<1>4. WrittenIsPast'
    <2>1. \A d \in Entry : pc'[d] # "settled" => e < d
        BY <1>1, LimitAssumption DEF ItsTurn, Entry
    <2> QED
        BY <1>1, <2>1 DEF RInv, WrittenIsPast
<1>5. OnDisk' = OnDisk \cup {e}
    BY <1>1, <1>2 DEF OnDisk
<1>6. OldestGoFirst'
    <2>1. \A d \in written : d < e
        BY <1>1 DEF RInv, WrittenIsPast
    <2> QED
        BY <1>1, <1>5, <2>1 DEF RInv, OldestGoFirst
<1>7. FilesBounded'
    <2> SUFFICES ASSUME smooth, MaxSize > 0, MaxFiles > 0, NEW j \in Slot
                 PROVE  bytes'[j] < MaxSize + MaxLength
        BY <1>1 DEF FilesBounded
    <2>1. CASE j = 0
        <3>1. bytes[0] < MaxSize /\ bytes[0] \in Nat
            BY <1>1 DEF IInv, TypeOK, RInv, AppendRoom
        <3>2. PICK length \in 1 .. MaxLength : bytes' = [bytes EXCEPT ![0] = bytes[0] + length]
            BY DEF AppendEntry
        <3>3. bytes'[0] = bytes[0] + length
            BY <1>1, <3>2 DEF IInv, TypeOK
        <3> QED
            BY <2>1, <3>1, <3>3, LimitAssumption
    <2>2. CASE j # 0
        BY <1>2, <2>2 DEF RInv, FilesBounded
    <2> QED
        BY <2>1, <2>2
<1>8. MovedAway' /\ AppendRoom'
    BY <1>1, <1>3 DEF MovedAway, AppendRoom, Active
<1>9. \A j \in 1 .. MaxFiles : files'[j] = files[j] /\ bytes'[j] = bytes[j]
    BY <1>2, LimitAssumption DEF Slot
<1>10. RotatedFull'
    <2>1. \A d \in Entry : pc'[d] \notin {"shift", "move"}
        BY <1>1 DEF Active
    <2> QED
        BY <1>1, <1>9, <2>1 DEF RInv, RotatedFull
<1>11. NoHoles'
    <2> SUFFICES ASSUME smooth, steady, NEW j \in 1 .. MaxFiles, files[j] = {}
                 PROVE  (written \subseteq OnDisk)' /\ \A k \in j .. MaxFiles : files'[k] = {}
        BY <1>1, <1>9 DEF NoHoles
    <2>1. written \subseteq OnDisk /\ \A k \in j .. MaxFiles : files[k] = {}
        BY <1>3 DEF RInv, NoHoles
    <2>2. \A k \in j .. MaxFiles : k \in 1 .. MaxFiles
        BY LimitAssumption
    <2> QED
        BY <1>1, <1>5, <1>9, <2>1, <2>2
<1> QED
    BY <1>4, <1>6, <1>7, <1>8, <1>10, <1>11 DEF RInv

\* The second inductive invariant is one, on top of the first.
LEMMA NextRInv == IInv /\ RInv /\ [Next]_vars => RInv'
<1> SUFFICES ASSUME IInv, RInv, [Next]_vars PROVE RInv'
    OBVIOUS
<1>1. ASSUME NEW e \in Entry, Start(e) PROVE RInv'
    <2>1. /\ UNCHANGED <<files, bytes, written, smooth, steady>>
          /\ pc[e] = "queued" /\ pc'[e] = "stat"
          /\ \A d \in Entry \ {e} : pc'[d] = pc[d] /\ index'[d] = index[d]
        BY <1>1 DEF IInv, TypeOK, Start, Advance
    <2> QED
        BY <2>1, QuietStep
<1>2. ASSUME NEW e \in Entry, WriteFails(e) PROVE RInv'
    <2>1. /\ UNCHANGED <<files, bytes, written, smooth, steady>>
          /\ pc[e] \in {"queued", "append"} /\ pc'[e] = "settled"
          /\ \A d \in Entry \ {e} : pc'[d] = pc[d] /\ index'[d] = index[d]
        BY <1>2 DEF IInv, TypeOK, WriteFails, Advance
    <2> QED
        BY <2>1, QuietStep
<1>3. CASE Write
    <2>1. /\ UNCHANGED <<files, bytes, written, smooth, steady>>
          /\ accepted + 1 \in Entry /\ pc[accepted + 1] = "new" /\ pc'[accepted + 1] = "queued"
          /\ \A d \in Entry \ {accepted + 1} : pc'[d] = pc[d] /\ index'[d] = index[d]
        BY <1>3, LimitAssumption DEF IInv, TypeOK, OneAtATime, Write, Entry
    <2> QED
        BY <2>1, QuietStep
<1>4. CASE Restart
    <2>1. /\ UNCHANGED <<files, bytes, written, smooth>> /\ steady' = FALSE
          /\ \A e \in Entry : pc'[e] \in {"settled", "new"}
          /\ \A e \in Entry : pc'[e] # "settled" => pc[e] # "settled"
        BY <1>4, LimitAssumption DEF IInv, TypeOK, OneAtATime, Restart, Entry
    <2> QED
        BY <2>1, QuietStep
<1>5. CASE UNCHANGED vars
    BY <1>5, QuietStep DEF vars
<1> QED
    BY <1>1, <1>2, <1>3, <1>4, <1>5, StatStep, FailureStep, ShiftStep, MoveStep, AppendRStep
    DEF Next, Step

\* So many slots reach the limit as a set of slots that do.
LEMMA FullFiles ==
    ASSUME NEW F \in SUBSET Slot, \A j \in F : bytes[j] >= MaxSize
    PROVE  Cardinality({i \in Slot : bytes[i] >= MaxSize}) >= Cardinality(F)
<1> DEFINE Full == {i \in Slot : bytes[i] >= MaxSize}
<1>1. IsFiniteSet(Full) /\ F \subseteq Full
    <2>1. IsFiniteSet(Slot)
        BY LimitAssumption, FS_Interval DEF Slot
    <2>2. Full \subseteq Slot /\ F \subseteq Full
        OBVIOUS
    <2> HIDE DEF Full
    <2> QED
        BY <2>1, <2>2, FS_Subset
<1>2. Cardinality(F) \in Nat /\ Cardinality(Full) \in Nat /\ Cardinality(F) <= Cardinality(Full)
    <2> HIDE DEF Full
    <2> QED
        BY <1>1, FS_Subset, FS_CardinalityType
<1> QED
    BY <1>2

\* What the second invariant says of the retained files.
LEMMA RInvRetains == IInv /\ RInv => Retention
<1> SUFFICES ASSUME IInv, RInv, smooth, steady, written \ OnDisk # {}
             PROVE  Cardinality({i \in Slot : bytes[i] >= MaxSize}) >= MaxFiles
    BY DEF Retention
<1>1. \A j \in (1 .. MaxFiles) \ Gap : bytes[j] >= MaxSize
    BY DEF RInv, NoHoles, RotatedFull
<1>2. \A j \in 1 .. MaxFiles : j \in Slot
    BY LimitAssumption DEF Slot
<1>3. CASE Gap = {}
    <2>1. Cardinality({i \in Slot : bytes[i] >= MaxSize}) >= Cardinality(1 .. MaxFiles)
        BY <1>1, <1>2, <1>3, FullFiles
    <2>2. Cardinality(1 .. MaxFiles) = MaxFiles
        BY LimitAssumption, FS_Interval
    <2> QED
        BY <2>1, <2>2
<1>4. CASE Gap # {}
    <2>1. PICK g \in Gap : TRUE
        BY <1>4
    <2>2. PICK e \in Entry : /\ pc[e] = "shift" \/ pc[e] = "move"
                             /\ pc[e] = "shift" => g = index[e] + 1
                             /\ pc[e] = "move" => g = 1
        BY <2>1 DEF Gap
    <2>3. Gap = {g}
        BY <2>1, <2>2, OnlyOne DEF Gap, Active
    <2>4. bytes[0] >= MaxSize
        BY <2>2 DEF RInv, RotatedFull
    <2>5. \A j \in Slot \ {g} : bytes[j] >= MaxSize
        BY <1>1, <2>3, <2>4, LimitAssumption DEF Slot
    <2>6. Cardinality(Slot \ {g}) = MaxFiles
        <3>1. IsFiniteSet(Slot) /\ Cardinality(Slot) = MaxFiles + 1
            BY LimitAssumption, FS_Interval DEF Slot
        <3>2. g \in Slot
            BY <1>2, <2>1, LimitAssumption DEF Gap
        <3>3. Cardinality(Slot \ {g}) = Cardinality(Slot) - 1
            BY <3>1, <3>2, FS_RemoveElement
        <3> QED
            BY <3>1, <3>3, LimitAssumption
    <2>7. Cardinality({i \in Slot : bytes[i] >= MaxSize}) >= Cardinality(Slot \ {g})
        BY <2>5, FullFiles
    <2> QED
        BY <2>6, <2>7
<1> QED
    BY <1>3, <1>4

\* The second inductive invariant holds in every reachable state.
THEOREM RotationInvariance == Spec => []RInv
BY InitRInv, NextRInv, Invariance, PTL DEF Spec

\* Rotation drops the oldest entries and no others, while no rename and no stat fails, whatever
\* the number of files and wherever the process was restarted.
THEOREM AlwaysOldestGoFirst == Spec => []OldestGoFirst
<1>1. RInv => OldestGoFirst
    BY DEF RInv
<1> QED
    BY <1>1, RotationInvariance, PTL

\* No file outgrows the limit by an entry while no rename and no stat fails,
\* whatever the lengths of the entries.
THEOREM AlwaysFilesBounded == Spec => []FilesBounded
<1>1. RInv => FilesBounded
    BY DEF RInv
<1> QED
    BY <1>1, RotationInvariance, PTL

\* Nothing is dropped unless as many files as configured are left that reached
\* the limit, while no rename and no stat fails and the process keeps running.
THEOREM AlwaysRetained == Spec => []Retention
BY RInvRetains, Invariance, RotationInvariance, PTL

-----------------------------------------------------------------------------
(* HealthProbes: the inductive invariant.                                  *)

\* A probe under way asks what it covers, and no other slot has checks; who
\* waits has no answer yet.
Asking ==
    \A p \in Probe :
        /\ pending[p] => p \in Serving /\ answer[p] = "none"
        /\ p \in Serving => \A d \in Covers(kind[p]) : check[p][d] # "none"
        /\ p \notin Serving => check[p] = Unasked

\* While the client waits, a settled check is something the probe lived to see.
Witnessed ==
    \A p \in Probe : pending[p] =>
        /\ Working \subseteq works[p] /\ Failing \subseteq fails[p]
        /\ \A d \in Dependency :
              /\ check[p][d] \in {"unlink", "up"} => d \in works[p]
              /\ check[p][d] = "down" => d \in fails[p]

\* Each probe between its write and its unlink has a file there.
FilesThere ==
    /\ Cardinality(Unlinking) <= temps
    /\ calm => temps = Cardinality(Unlinking)

HInv == ProbeTypeOK /\ Asking /\ Witnessed /\ FilesThere

-----------------------------------------------------------------------------
\* Sets of probes are finite.
LEMMA Counted == \A S : S \subseteq Probe => IsFiniteSet(S) /\ Cardinality(S) \in Nat
BY ProbeAssumption, FS_Subset, FS_CardinalityType

\* No probe is under way at first.
LEMMA InitHInv == ProbeInit => HInv
<1> SUFFICES ASSUME ProbeInit PROVE HInv
    OBVIOUS
<1>1. Unlinking = {} /\ Serving = {}
    BY DEF ProbeInit, Unlinking, Serving, Unasked
<1>2. Cardinality({}) = 0
    BY FS_EmptySet
<1>3. ProbeTypeOK
    <2>1. temps \in Nat /\ changes \in 0 .. MaxChanges
        BY ProbeAssumption DEF ProbeInit
    <2>2. check \in [Probe -> [Dependency -> Check]]
        BY DEF ProbeInit, Unasked, Check
    <2>3. works \in [Probe -> SUBSET Dependency] /\ fails \in [Probe -> SUBSET Dependency]
        BY DEF ProbeInit
    <2>4. pending \in [Probe -> BOOLEAN]
        BY Zenon DEF ProbeInit
    <2>5. calm \in BOOLEAN /\ initialized \in BOOLEAN
        BY DEF ProbeInit
    <2> QED
        BY <2>1, <2>2, <2>3, <2>4, <2>5 DEF ProbeInit, ProbeTypeOK
<1>4. Asking /\ Witnessed
    BY <1>1 DEF ProbeInit, Asking, Witnessed
<1>5. FilesThere
    BY <1>1, <1>2 DEF ProbeInit, FilesThere
<1> QED
    BY <1>3, <1>4, <1>5 DEF HInv

-----------------------------------------------------------------------------
(* The steps of one probe.                                                 *)

\* The facts about one probe that the steps of others leave alone.
Told(p) ==
    /\ pending[p] => p \in Serving /\ answer[p] = "none"
    /\ p \in Serving => \A d \in Covers(kind[p]) : check[p][d] # "none"
    /\ p \notin Serving => check[p] = Unasked
    /\ pending[p] =>
          /\ Working \subseteq works[p] /\ Failing \subseteq fails[p]
          /\ \A d \in Dependency :
                /\ check[p][d] \in {"unlink", "up"} => d \in works[p]
                /\ check[p][d] = "down" => d \in fails[p]

\* The two conjuncts say of each probe what Told says.
LEMMA ToldAll == Asking /\ Witnessed <=> \A p \in Probe : Told(p)
BY DEF Asking, Witnessed, Told

\* A probe that comes has seen what there is to see now.
LEMMA AskKeeps ==
    ASSUME HInv, NEW p \in Probe, NEW k \in Kind, Ask(p, k)
    PROVE  HInv'
<1>1. ProbeTypeOK'
    <2> USE DEF HInv, ProbeTypeOK, Ask, config, world
    <2>1. Working \in SUBSET Dependency /\ Failing \in SUBSET Dependency
        BY DEF Working, Failing
    <2>2. check' \in [Probe -> [Dependency -> Check]]
        BY DEF Check
    <2>3. works' \in [Probe -> SUBSET Dependency] /\ fails' \in [Probe -> SUBSET Dependency]
        BY <2>1
    <2>4. pending' \in [Probe -> BOOLEAN]
        OBVIOUS
    <2>5. kind' \in [Probe -> Kind \cup {"none"}]
        OBVIOUS
    <2>6. answer' \in [Probe -> {"none", "ok", "unavailable", "notFound", "timeout"}]
        OBVIOUS
    <2> QED
        BY <2>2, <2>3, <2>4, <2>5, <2>6
<1>2. ASSUME NEW q \in Probe PROVE Told(q)'
    <2>0. Told(q) /\ Working' = Working /\ Failing' = Failing
        BY <1>2, ToldAll DEF HInv, Ask, world, Working, Failing
    <2>1. CASE q # p \/ ~enabled
        BY <2>0, <2>1, <1>2 DEF HInv, ProbeTypeOK, Ask, Told, Serving, Unasked
    <2>2. CASE q = p /\ enabled
        <3>1. kind'[p] = k /\ p \in Serving'
            BY <2>2 DEF HInv, ProbeTypeOK, Ask, Serving, Kind
        <3>2. \A d \in Dependency : check'[p][d] \in {"none", "asked"} \/ (check'[p][d] = "down" /\ d \in Failing)
            BY <2>2 DEF HInv, ProbeTypeOK, Ask, Failing
        <3>3. \A d \in Covers(k) : check'[p][d] # "none"
            BY <2>2 DEF HInv, ProbeTypeOK, Ask, Covers
        <3>4. works'[p] = Working /\ fails'[p] = Failing /\ answer'[p] = "none"
            BY <2>2 DEF HInv, ProbeTypeOK, Ask
        <3> QED
            BY <2>0, <2>2, <3>1, <3>2, <3>3, <3>4 DEF Told
    <2> QED
        BY <2>1, <2>2
<1>3. Unlinking' = Unlinking
    BY DEF HInv, ProbeTypeOK, Asking, Ask, Unlinking, Serving, Unasked, Kind, Dependency
<1>4. FilesThere'
    BY <1>3 DEF HInv, FilesThere, Ask
<1> QED
    BY <1>1, <1>2, <1>4, ToldAll DEF HInv, Asking, Witnessed, Told

\* A check settles, or its file is there, by what its dependency does now.
LEMMA SettleKeeps ==
    ASSUME HInv, NEW p \in Probe, NEW d \in Dependency, NEW s \in {"unlink", "up", "down"},
           check[p][d] \in {"asked", "unlink"}, Settle(p, d, s),
           s = "down" => d \in Failing,
           s \in {"unlink", "up"} => d \in Working,
           UNCHANGED <<config, world, kind, pending, answer, works, fails>>
    PROVE  Asking' /\ Witnessed'
<1>1. ASSUME NEW q \in Probe PROVE Told(q)'
    <2>1. Told(q) /\ Working' = Working /\ Failing' = Failing /\ Serving' = Serving
        BY <1>1, ToldAll DEF HInv, world, Working, Failing, Serving
    <2>2. CASE q # p
        BY <2>1, <2>2, <1>1 DEF HInv, ProbeTypeOK, Settle, Told
    <2>3. CASE q = p
        <3>1. p \in Serving
            BY DEF HInv, Asking, Unasked
        <3>2. \A e \in Dependency : check'[p][e] = IF e = d THEN s ELSE check[p][e]
            BY DEF HInv, ProbeTypeOK, Settle
        <3>3. Covers(kind'[p]) \subseteq Dependency /\ kind' = kind /\ pending' = pending
              /\ works' = works /\ fails' = fails
            BY DEF Covers
        <3> QED
            BY <2>1, <2>3, <3>1, <3>2, <3>3 DEF Told
    <2> QED
        BY <2>2, <2>3
<1> QED
    BY <1>1, ToldAll DEF Asking, Witnessed, Told

\* What that does to the probes with a file.
LEMMA SettleFiles ==
    ASSUME HInv, NEW p \in Probe, NEW d \in Dependency, NEW s \in {"unlink", "up", "down"},
           check[p][d] \in {"asked", "unlink"}, Settle(p, d, s), kind' = kind
    PROVE  /\ check' \in [Probe -> [Dependency -> Check]]
           /\ d # "storage" => Unlinking' = Unlinking
           /\ d = "storage" => Unlinking' = IF s = "unlink" THEN Unlinking \cup {p}
                                                            ELSE Unlinking \ {p}
<1>1. check' \in [Probe -> [Dependency -> Check]]
    BY DEF HInv, ProbeTypeOK, Settle, Check
<1>2. p \in Serving /\ Serving' = Serving
    BY DEF HInv, Asking, Unasked, Serving
<1>3. \A q \in Probe : check'[q]["storage"] = IF q = p /\ d = "storage" THEN s
                                              ELSE check[q]["storage"]
    BY DEF HInv, ProbeTypeOK, Settle, Dependency
<1>4. Serving \subseteq Probe
    BY DEF Serving
<1> QED
    BY <1>1, <1>2, <1>3, <1>4 DEF Unlinking

\* One probe more or less.
LEMMA OneMore ==
    ASSUME NEW S, S \subseteq Probe, NEW p \in Probe
    PROVE  /\ p \notin S => Cardinality(S \cup {p}) = Cardinality(S) + 1
           /\ p \in S => Cardinality(S \ {p}) = Cardinality(S) - 1
           /\ Cardinality(S \ {p}) <= Cardinality(S)
           /\ Cardinality(S) \in Nat
<1>1. IsFiniteSet(S) /\ Cardinality(S) \in Nat
    BY Counted
<1>2. Cardinality(S \cup {p}) = IF p \in S THEN Cardinality(S) ELSE Cardinality(S) + 1
    BY <1>1, FS_AddElement, Zenon
<1>3. Cardinality(S \ {p}) = IF p \in S THEN Cardinality(S) - 1 ELSE Cardinality(S)
    BY <1>1, FS_RemoveElement, Zenon
<1> QED
    BY <1>1, <1>2, <1>3, SMT

\* A check that gets its reply has seen its dependency work.
LEMMA RepliesKeeps ==
    ASSUME HInv, NEW p \in Probe, NEW d \in Dependency, Replies(p, d)
    PROVE  HInv'
<1>1. check[p][d] = "asked" /\ Settle(p, d, "up") /\ d \in Working
      /\ UNCHANGED <<config, world, kind, pending, answer, temps, history>>
    BY DEF Replies, Working
<1>2. Asking' /\ Witnessed'
    BY <1>1, SettleKeeps DEF history
<1>3. check' \in [Probe -> [Dependency -> Check]] /\ Unlinking' = Unlinking
    BY <1>1, SettleFiles DEF Unlinking
<1> QED
    BY <1>1, <1>2, <1>3 DEF HInv, ProbeTypeOK, FilesThere, config, world, history

\* A write adds the probe to those with a file, and a file.
LEMMA WritesFileKeeps ==
    ASSUME HInv, NEW p \in Probe, WritesFile(p)
    PROVE  HInv'
<1>1. check[p]["storage"] = "asked" /\ Settle(p, "storage", "unlink")
      /\ "storage" \in Working /\ temps' = temps + 1
      /\ UNCHANGED <<config, world, kind, pending, answer, history>>
    BY DEF WritesFile, Working, Dependency
<1>2. Asking' /\ Witnessed'
    BY <1>1, SettleKeeps DEF history, Dependency
<1>3. check' \in [Probe -> [Dependency -> Check]] /\ Unlinking' = Unlinking \cup {p}
    BY <1>1, SettleFiles DEF Dependency
<1>4. p \notin Unlinking /\ Unlinking \subseteq Probe
    BY <1>1 DEF Unlinking, Serving
<1>5. Cardinality(Unlinking') = Cardinality(Unlinking) + 1 /\ Cardinality(Unlinking) \in Nat
    BY <1>3, <1>4, OneMore
<1> QED
    BY <1>1, <1>2, <1>3, <1>5 DEF HInv, ProbeTypeOK, FilesThere, config, world, history

\* An unlink takes away one file and the probe that had it.
LEMMA UnlinksKeeps ==
    ASSUME HInv, NEW p \in Probe, Unlinks(p)
    PROVE  HInv'
<1>1. check[p]["storage"] = "unlink" /\ Settle(p, "storage", "up")
      /\ "storage" \in Working /\ temps' = temps - 1
      /\ UNCHANGED <<config, world, kind, pending, answer, history>>
    BY DEF Unlinks, Working, Dependency
<1>2. Asking' /\ Witnessed'
    BY <1>1, SettleKeeps DEF history, Dependency
<1>3. check' \in [Probe -> [Dependency -> Check]] /\ Unlinking' = Unlinking \ {p}
    BY <1>1, SettleFiles DEF Dependency
<1>4. p \in Unlinking /\ Unlinking \subseteq Probe
    BY <1>1 DEF Unlinking, Serving, HInv, Asking, Unasked, Dependency
<1>5. Cardinality(Unlinking') = Cardinality(Unlinking) - 1 /\ Cardinality(Unlinking') \in Nat
      /\ Cardinality(Unlinking) \in Nat
    BY <1>3, <1>4, OneMore, Counted
<1>6. temps' \in Nat /\ FilesThere'
    BY <1>1, <1>5 DEF HInv, ProbeTypeOK, FilesThere, history
<1> QED
    BY <1>1, <1>2, <1>3, <1>6 DEF HInv, ProbeTypeOK, config, world, history

\* A refusal may leave a file behind, and is not calm then.
LEMMA RefusesKeeps ==
    ASSUME HInv, NEW p \in Probe, NEW d \in Dependency, Refuses(p, d)
    PROVE  HInv'
<1>1. check[p][d] \in {"asked", "unlink"} /\ Settle(p, d, "down") /\ d \in Failing
      /\ UNCHANGED <<config, world, kind, pending, answer, works, fails>>
    BY DEF Refuses, Failing
<1>2. Asking' /\ Witnessed'
    BY <1>1, SettleKeeps
<1>3. check' \in [Probe -> [Dependency -> Check]]
    BY <1>1, SettleFiles
<1>4. Cardinality(Unlinking') <= Cardinality(Unlinking)
      /\ (check[p][d] = "asked" => Unlinking' = Unlinking)
      /\ Cardinality(Unlinking') \in Nat /\ Cardinality(Unlinking) \in Nat
    <2>1. Unlinking \subseteq Probe /\ Unlinking' \subseteq Probe
        BY <1>1 DEF Unlinking, Serving
    <2>2. d = "storage" => Unlinking' = Unlinking \ {p}
        BY <1>1, SettleFiles
    <2>3. d # "storage" => Unlinking' = Unlinking
        BY <1>1, SettleFiles
    <2>4. check[p][d] = "asked" /\ d = "storage" => p \notin Unlinking
        BY DEF Unlinking
    <2>5. Cardinality(Unlinking') \in Nat /\ Cardinality(Unlinking) \in Nat
        BY <2>1, Counted
    <2>6. Cardinality(Unlinking \ {p}) <= Cardinality(Unlinking)
        BY <2>1, OneMore
    <2>7. CASE d = "storage"
        BY <2>2, <2>4, <2>5, <2>6, <2>7
    <2>8. CASE d # "storage"
        BY <2>3, <2>5, <2>8
    <2> QED
        BY <2>7, <2>8
<1>5. temps' \in Nat /\ calm' \in BOOLEAN /\ FilesThere'
    <2>0. temps \in Nat /\ Cardinality(Unlinking) <= temps
          /\ (calm => temps = Cardinality(Unlinking))
        BY DEF HInv, ProbeTypeOK, FilesThere
    <2>1. temps' \in {temps, temps + 1}
        BY DEF Refuses
    <2>2. calm' \in BOOLEAN
        BY Zenon DEF Refuses
    <2>3. calm' => temps' = temps /\ calm /\ check[p][d] = "asked"
        BY Zenon DEF Refuses
    <2>4. temps' \in Nat /\ Cardinality(Unlinking') <= temps'
        BY <1>4, <2>0, <2>1
    <2>5. calm' => temps' = Cardinality(Unlinking')
        BY <1>4, <2>0, <2>3
    <2> QED
        BY <2>2, <2>4, <2>5 DEF FilesThere
<1>6. ProbeTypeOK'
    BY <1>1, <1>3, <1>5 DEF HInv, ProbeTypeOK, config, world
<1> QED
    BY <1>2, <1>5, <1>6 DEF HInv

\* A connection that times out has seen Redis fail.
LEMMA ConnectTimesOutKeeps ==
    ASSUME HInv, NEW p \in Probe, ConnectTimesOut(p)
    PROVE  HInv'
<1>1. check[p]["redis"] = "asked" /\ Settle(p, "redis", "down") /\ "redis" \in Failing
      /\ UNCHANGED <<config, world, kind, pending, answer, temps, history>>
    BY DEF ConnectTimesOut, Failing, Dependency
<1>2. Asking' /\ Witnessed'
    BY <1>1, SettleKeeps DEF history, Dependency
<1>3. check' \in [Probe -> [Dependency -> Check]] /\ Unlinking' = Unlinking
    BY <1>1, SettleFiles DEF Dependency
<1> QED
    BY <1>1, <1>2, <1>3 DEF HInv, ProbeTypeOK, FilesThere, config, world, history

\* A report ends the probe, whose file is gone by then.
LEMMA ReportKeeps ==
    ASSUME HInv, NEW p \in Probe, Report(p)
    PROVE  HInv'
<1>1. /\ kind' = [kind EXCEPT ![p] = "none"] /\ check' = [check EXCEPT ![p] = Unasked]
      /\ pending' = [pending EXCEPT ![p] = FALSE]
      /\ works' = [works EXCEPT ![p] = {}] /\ fails' = [fails EXCEPT ![p] = {}]
      /\ UNCHANGED <<config, world, temps, calm>>
    BY DEF Report, Forget
<1>2. ProbeTypeOK'
    <2>1. answer' \in [Probe -> {"none", "ok", "unavailable", "notFound", "timeout"}]
        BY DEF HInv, ProbeTypeOK, Report, BuildReport
    <2>2. check' \in [Probe -> [Dependency -> Check]]
        BY <1>1 DEF HInv, ProbeTypeOK, Unasked, Check
    <2> QED
        BY <1>1, <2>1, <2>2 DEF HInv, ProbeTypeOK, config, world
<1>3. ASSUME NEW q \in Probe PROVE Told(q)'
    <2>1. Told(q) /\ Working' = Working /\ Failing' = Failing
        BY <1>1, <1>3, ToldAll DEF HInv, world, Working, Failing
    <2>2. CASE q # p
        <3>1. answer'[q] = answer[q]
            BY <1>3, <2>2 DEF HInv, ProbeTypeOK, Report
        <3> QED
            BY <1>1, <2>1, <2>2, <3>1, <1>3 DEF HInv, ProbeTypeOK, Told, Serving
    <2>3. CASE q = p
        BY <1>1, <2>3 DEF HInv, ProbeTypeOK, Told, Serving, Kind
    <2> QED
        BY <2>2, <2>3
<1>4. Unlinking' = Unlinking
    <2>1. p \notin Unlinking /\ p \notin Serving'
        BY <1>1 DEF Report, HInv, ProbeTypeOK, Unlinking, Serving, Dependency
    <2>2. \A q \in Probe \ {p} : kind'[q] = kind[q] /\ check'[q] = check[q]
        BY <1>1 DEF HInv, ProbeTypeOK
    <2> QED
        BY <2>1, <2>2 DEF Unlinking, Serving
<1>5. FilesThere'
    BY <1>1, <1>4 DEF HInv, FilesThere
<1> QED
    BY <1>2, <1>3, <1>5, ToldAll DEF HInv, Asking, Witnessed, Told

\* A timeout touches the client only: the checks go on.
LEMMA TimeOutKeeps ==
    ASSUME HInv, NEW p \in Probe, TimeOut(p)
    PROVE  HInv'
<1>1. /\ pending' = [pending EXCEPT ![p] = FALSE]
      /\ works' = [works EXCEPT ![p] = {}] /\ fails' = [fails EXCEPT ![p] = {}]
      /\ answer' = [answer EXCEPT ![p] = "timeout"]
      /\ UNCHANGED <<config, world, kind, check, temps, calm>>
    BY DEF TimeOut, Forget
<1>2. ProbeTypeOK'
    BY <1>1 DEF HInv, ProbeTypeOK, config, world
<1>3. ASSUME NEW q \in Probe PROVE Told(q)'
    <2>1. Told(q) /\ Working' = Working /\ Failing' = Failing /\ Serving' = Serving
        BY <1>1, <1>3, ToldAll DEF HInv, world, Working, Failing, Serving
    <2> QED
        BY <1>1, <2>1, <1>3 DEF HInv, ProbeTypeOK, Told
<1>4. FilesThere'
    BY <1>1 DEF HInv, FilesThere, Unlinking, Serving
<1> QED
    BY <1>2, <1>3, <1>4, ToldAll DEF HInv, Asking, Witnessed, Told

\* The world changes, and those who wait see it.
LEMMA ObserveKeeps ==
    ASSUME HInv, Observe, UNCHANGED <<config, kind, check, pending, answer, temps, calm>>,
           initialized' \in BOOLEAN, state' \in [Dependency -> {"up", "down", "silent"}],
           changes' \in 0 .. MaxChanges
    PROVE  HInv'
<1>1. Working' \subseteq Dependency /\ Failing' \subseteq Dependency
    BY DEF Working, Failing
<1>2. works' \in [Probe -> SUBSET Dependency] /\ fails' \in [Probe -> SUBSET Dependency]
    BY <1>1 DEF HInv, ProbeTypeOK, Observe
<1>3. ProbeTypeOK'
    BY <1>2 DEF HInv, ProbeTypeOK, config
<1>4. ASSUME NEW q \in Probe PROVE Told(q)'
    <2>1. Told(q) /\ Serving' = Serving
        BY <1>4, ToldAll DEF HInv, Serving
    <2>2. pending[q] => works'[q] = works[q] \cup Working' /\ fails'[q] = fails[q] \cup Failing'
        BY <1>4 DEF Observe
    <2> QED
        BY <2>1, <2>2 DEF Told
<1>5. FilesThere'
    BY DEF HInv, FilesThere, Unlinking, Serving
<1> QED
    BY <1>3, <1>4, <1>5, ToldAll DEF HInv, Asking, Witnessed, Told

\* Nothing is under way after a restart.
LEMMA RestartKeeps == HInv /\ ProbeRestart => HInv'
<1> SUFFICES ASSUME HInv, ProbeRestart PROVE HInv'
    OBVIOUS
<1>1. Serving' = {} /\ Unlinking' = {} /\ Cardinality({}) = 0
    BY FS_EmptySet DEF ProbeRestart, Serving, Unlinking
<1>2. ProbeTypeOK'
    <2>1. check' \in [Probe -> [Dependency -> Check]]
        BY DEF ProbeRestart, Unasked, Check
    <2>2. pending' \in [Probe -> BOOLEAN]
        BY Zenon DEF ProbeRestart
    <2>3. calm' \in BOOLEAN
        BY Zenon DEF ProbeRestart
    <2> QED
        BY <2>1, <2>2, <2>3 DEF HInv, ProbeTypeOK, ProbeRestart, config
<1>3. Asking' /\ Witnessed'
    BY <1>1 DEF ProbeRestart, Asking, Witnessed
<1>4. FilesThere'
    <2>1. Serving = {} => Unlinking = {}
        BY DEF Unlinking
    <2>2. calm' => calm /\ Serving = {}
        BY Zenon DEF ProbeRestart
    <2>3. temps' = temps /\ temps \in Nat
        BY DEF ProbeRestart, HInv, ProbeTypeOK
    <2> QED
        BY <1>1, <2>1, <2>2, <2>3 DEF HInv, FilesThere
<1> QED
    BY <1>2, <1>3, <1>4 DEF HInv

\* Every step keeps the invariant.
LEMMA NextKeepsHInv == HInv /\ [ProbeNext]_probes => HInv'
<1> SUFFICES ASSUME HInv, [ProbeNext]_probes PROVE HInv'
    OBVIOUS
<1>1. ASSUME NEW p \in Probe, NEW k \in Kind, Ask(p, k) PROVE HInv'
    BY <1>1, AskKeeps
<1>2. ASSUME NEW p \in Probe, ProbeStep(p) PROVE HInv'
    BY <1>2, RepliesKeeps, RefusesKeeps, WritesFileKeeps, UnlinksKeeps, ConnectTimesOutKeeps,
       ReportKeeps DEF ProbeStep
<1>3. ASSUME NEW p \in Probe, TimeOut(p) PROVE HInv'
    BY <1>3, TimeOutKeeps
<1>4. ASSUME NEW d \in Dependency, NEW s \in {"up", "down", "silent"}, Change(d, s) PROVE HInv'
    <2>1. state' \in [Dependency -> {"up", "down", "silent"}] /\ changes' \in 0 .. MaxChanges
        BY <1>4, ProbeAssumption DEF HInv, ProbeTypeOK, Change
    <2>2. initialized' \in BOOLEAN /\ Observe
          /\ UNCHANGED <<config, kind, check, pending, answer, temps, calm>>
        BY <1>4 DEF HInv, ProbeTypeOK, Change
    <2> QED
        BY <2>1, <2>2, ObserveKeeps
<1>5. CASE Destroy
    <2>1. /\ state' \in [Dependency -> {"up", "down", "silent"}] /\ changes' \in 0 .. MaxChanges
          /\ initialized' \in BOOLEAN /\ Observe
          /\ UNCHANGED <<config, kind, check, pending, answer, temps, calm>>
        BY <1>5 DEF HInv, ProbeTypeOK, Destroy
    <2> QED
        BY <2>1, ObserveKeeps
<1>6. CASE UNCHANGED probes
    BY <1>6 DEF probes, HInv, ProbeTypeOK, Asking, Witnessed, FilesThere, Working, Failing, Serving,
                Unlinking, config, world, history
<1> QED
    BY <1>1, <1>2, <1>3, <1>4, <1>5, <1>6, RestartKeeps DEF ProbeNext

\* The invariant holds in every behaviour.
LEMMA ProbeInvariance == ProbeSpec => []HInv
BY InitHInv, NextKeepsHInv, PTL DEF ProbeSpec

-----------------------------------------------------------------------------
\* The variables keep their types; the number of files does not become negative.
THEOREM ProbesTypeCorrect == ProbeSpec => []ProbeTypeOK
BY ProbeInvariance, PTL DEF HInv

\* A 200 names only dependencies that worked, and a 503 at least one that did
\* not, at a moment between the arrival of the probe and its answer, however
\* many probes there are and however often the dependencies change.
THEOREM VerdictsAlwaysTrue == ProbeSpec => VerdictsAreTrue
<1>1. ASSUME HInv, ProbeNext, NEW p \in Probe, pending[p], ~pending'[p]
      PROVE  /\ answer'[p] = "ok" => Covers(kind[p]) \subseteq works[p]
             /\ answer'[p] = "unavailable" => Covers(kind[p]) \cap fails[p] # {}
    <2>1. Report(p) \/ TimeOut(p) \/ ProbeRestart
        BY <1>1 DEF HInv, ProbeTypeOK, Asking, ProbeNext, ProbeStep, Ask, Replies, Refuses, WritesFile, Unlinks,
                    ConnectTimesOut, Report, TimeOut, Change, Destroy
    <2>2. CASE Report(p)
        <3>1. answer'[p] = BuildReport(p) /\ p \in Serving
              /\ \A d \in Dependency : check[p][d] \in {"none", "up", "down"}
            BY <2>2, <1>1 DEF HInv, ProbeTypeOK, Report
        <3>2. \A d \in Covers(kind[p]) : d \in Dependency /\ check[p][d] \in {"up", "down"}
            BY <3>1, <1>1 DEF HInv, Asking, Covers
        <3>3. \A d \in Covers(kind[p]) : check[p][d] = "up" => d \in works[p]
            BY <3>2, <1>1 DEF HInv, Witnessed
        <3>4. \A d \in Covers(kind[p]) : check[p][d] = "down" => d \in fails[p]
            BY <3>2, <1>1 DEF HInv, Witnessed
        <3> QED
            BY <3>1, <3>2, <3>3, <3>4 DEF BuildReport
    <2>3. CASE TimeOut(p)
        BY <2>3, <1>1 DEF HInv, ProbeTypeOK, TimeOut
    <2>4. CASE ProbeRestart
        BY <2>4, <1>1 DEF HInv, Asking, ProbeRestart
    <2> QED
        BY <2>1, <2>2, <2>3, <2>4
<1>2. HInv /\ [ProbeNext]_probes =>
          [\A p \in Probe : pending[p] /\ ~pending'[p] =>
             /\ answer'[p] = "ok" => Covers(kind[p]) \subseteq works[p]
             /\ answer'[p] = "unavailable" => Covers(kind[p]) \cap fails[p] # {}]_probes
    BY <1>1
<1> QED
    BY <1>2, ProbeInvariance, PTL DEF ProbeSpec, VerdictsAreTrue

\* The files in the storage folder are those of probes under way, unless the
\* process stopped in the middle of one or a file could not be filled or deleted.
THEOREM ProbesAlwaysCleanUp == ProbeSpec => []ProbesCleanUp
BY ProbeInvariance, PTL DEF HInv, FilesThere, ProbesCleanUp
=============================================================================
