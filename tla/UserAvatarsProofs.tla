------------------------- MODULE UserAvatarsProofs -------------------------
(***************************************************************************)
(* Theorems about UserAvatars, for any users, calls and file names.        *)
(***************************************************************************)
EXTENDS UserAvatars, TLAPS

\* The calls that have drawn a name and not yet used it in a row.
Ingesting ==
    { r \in Request :
        pc[r] \in {"persist", "dropTemp", "dropTempFailed", "deleteRow", "insert"} }

\* The stages a set or a removal runs through with its user known.
Busy == Stage \ {"idle"}

\* Two users never share a file, and every file named by a row was drawn.
RowsDistinct ==
    /\ \A u \in User : row[u] \in used \cup {NoPath}
    /\ \A u, v \in User : row[u] # NoPath /\ row[u] = row[v] => u = v

\* The name a call is ingesting is its own: no row, no other call has it.
FreshFiles ==
    \A r \in Ingesting :
        /\ file[r] \in used
        /\ \A u \in User : row[u] # file[r]
        /\ \A q \in Request : old[q] # file[r]
        /\ \A q \in Ingesting : file[q] = file[r] => q = r

\* The path a call will delete belongs to its user's row or, once that row is
\* deleted, to no row at all.
OldPaths ==
    \A r \in Request :
        old[r] # NoPath =>
            /\ pc[r] # "idle"
            /\ old[r] \in used
            /\ \A u \in User : row[u] = old[r] => u = owner[r]
            /\ pc[r] \in {"insert", "deleteOld", "deleteRemoved"} =>
                \A u \in User : row[u] # old[r]

\* A picture is in the media folder from its copy on.
Landed == \A r \in InFlight : file[r] \in media

Owners ==
    /\ \A r \in Request : pc[r] \in Busy => owner[r] \in User
    /\ kept \subseteq users

\* The inductive invariant.
IInv ==
    /\ TypeOK
    /\ Owners
    /\ RowsDistinct
    /\ FreshFiles
    /\ OldPaths
    /\ Landed
    /\ NoDanglingAvatar
    /\ AvatarKept

-----------------------------------------------------------------------------
\* The initial state satisfies the inductive invariant.
LEMMA InitIInv == Init => IInv
BY NullAssumption DEF Init, IInv, TypeOK, Owners, RowsDistinct, FreshFiles, OldPaths,
   Landed, NoDanglingAvatar, AvatarKept, Stage, Busy, Ingesting, InFlight

\* A call that ends leaves a well-typed slot.
LEMMA FinishType ==
    ASSUME TypeOK, NEW r \in Request, Finish(r)
    PROVE  /\ pc' \in [Request -> Stage]
           /\ owner' \in [Request -> User \cup {NoUser}]
           /\ old' \in [Request -> Path \cup {NoPath}]
           /\ file' \in [Request -> Path \cup {NoPath}]
BY DEF TypeOK, Finish, Stage

\* A call that ends drops out of every set of calls and claims nothing.
LEMMA FinishCalls ==
    ASSUME IInv, NEW r \in Request, Finish(r)
    PROVE  /\ Ingesting' = Ingesting \ {r}
           /\ InFlight' = InFlight \ {r}
           /\ pc'[r] = "idle" /\ old'[r] = NoPath
           /\ \A q \in Request \ {r} :
                pc'[q] = pc[q] /\ owner'[q] = owner[q] /\ old'[q] = old[q] /\ file'[q] = file[q]
BY DEF IInv, TypeOK, Finish, Ingesting, InFlight

\* A call that moves on keeps what the other calls have.
LEMMA AdvanceCalls ==
    ASSUME IInv, NEW r \in Request, NEW from, NEW to \in Stage, Advance(r, from, to)
    PROVE  /\ pc' \in [Request -> Stage]
           /\ pc[r] = from /\ pc'[r] = to
           /\ \A q \in Request \ {r} : pc'[q] = pc[q]
BY DEF IInv, TypeOK, Advance

\* A step that ends a call and otherwise only takes files out of temp, draws
\* names or raises the alarm keeps the invariant.
LEMMA QuietFinish ==
    ASSUME IInv, NEW r \in Request, Finish(r), pc[r] # "insert",
           UNCHANGED <<users, row, media, kept>>,
           temp' \subseteq Path, used' \subseteq Path, used \subseteq used', calm' \in BOOLEAN
    PROVE  IInv'
<1>1. TypeOK' /\ Owners'
    BY FinishType, FinishCalls DEF IInv, TypeOK, Owners, Busy
<1>2. RowsDistinct' /\ NoDanglingAvatar'
    BY DEF IInv, RowsDistinct, NoDanglingAvatar
<1>3. FreshFiles' /\ Landed'
    BY FinishCalls, NullAssumption DEF IInv, TypeOK, FreshFiles, Landed, Ingesting, InFlight
<1>4. OldPaths'
    BY FinishCalls DEF IInv, OldPaths
<1>5. AvatarKept'
    BY FinishCalls DEF IInv, AvatarKept
<1> QED
    BY <1>1, <1>2, <1>3, <1>4, <1>5 DEF IInv

-----------------------------------------------------------------------------
\* The steps of setRemoteAvatar keep the invariant.
LEMMA SetStep ==
    ASSUME IInv, NEW r \in Request,
           \/ FindExisting(r) \/ Persist(r) \/ PersistFails(r) \/ DropTemp(r)
           \/ DropTempFailed(r) \/ DeleteRow(r) \/ Insert(r) \/ InsertRejected(r)
           \/ DeleteOld(r)
    PROVE  IInv'
<1> USE DEF IInv, TypeOK, Owners, RowsDistinct, FreshFiles, OldPaths, Landed,
        NoDanglingAvatar, AvatarKept, Busy, Ingesting, InFlight, Stage
<1>1. CASE FindExisting(r)
    <2>1. /\ old' = [old EXCEPT ![r] = row[owner[r]]] /\ pc' = [pc EXCEPT ![r] = "download"]
          /\ pc[r] = "findExisting"
          /\ UNCHANGED <<users, row, media, temp, used, owner, file, kept, calm>>
        BY <1>1 DEF FindExisting, Advance
    <2>2. TypeOK' /\ Owners' /\ RowsDistinct' /\ NoDanglingAvatar'
        BY <2>1
    <2>3. Ingesting' = Ingesting /\ InFlight' = InFlight
        BY <2>1
    <2>4. FreshFiles' /\ Landed'
        BY <2>1, <2>3
    <2>5. OldPaths'
        BY <2>1
    <2>6. AvatarKept'
        BY <2>1
    <2> QED
        BY <2>2, <2>4, <2>5, <2>6
<1>2. CASE Persist(r)
    BY <1>2 DEF Persist, Advance
<1>3. CASE PersistFails(r)
    <2>1. /\ media' \in {media, media \cup {file[r]}} /\ pc' = [pc EXCEPT ![r] = "dropTempFailed"]
          /\ pc[r] = "persist" /\ file[r] \in used /\ calm' = FALSE
          /\ UNCHANGED <<users, row, temp, used, owner, old, file, kept>>
        BY <1>3 DEF PersistFails, Advance
    <2>2. TypeOK' /\ Owners' /\ RowsDistinct' /\ NoDanglingAvatar'
        BY <2>1
    <2>3. Ingesting' = Ingesting /\ InFlight' = InFlight
        BY <2>1
    <2>4. FreshFiles' /\ Landed'
        BY <2>1, <2>3
    <2>5. OldPaths' /\ AvatarKept'
        BY <2>1
    <2> QED
        BY <2>2, <2>4, <2>5
<1>4. CASE DropTemp(r)
    BY <1>4 DEF DropTemp, Advance
<1>5. CASE DropTempFailed(r)
    BY <1>5, QuietFinish DEF DropTempFailed
<1>6. CASE DeleteRow(r)
    <2>1. /\ row' = [row EXCEPT ![owner[r]] = NoPath] /\ pc' = [pc EXCEPT ![r] = "insert"]
          /\ pc[r] = "deleteRow" /\ owner[r] \in User
          /\ UNCHANGED <<users, media, temp, used, owner, old, file, kept, calm>>
        BY <1>6 DEF DeleteRow, Advance
    <2>2. TypeOK' /\ Owners' /\ RowsDistinct' /\ NoDanglingAvatar'
        BY <2>1
    <2>3. Ingesting' = Ingesting /\ InFlight' = InFlight
        BY <2>1
    <2>4. FreshFiles' /\ Landed'
        BY <2>1, <2>3, NullAssumption
    <2>5. OldPaths'
        BY <2>1
    <2>6. AvatarKept'
        BY <2>1
    <2> QED
        BY <2>2, <2>4, <2>5, <2>6
<1>7. CASE Insert(r)
    BY <1>7 DEF Insert, Advance, Finish
<1>8. CASE InsertRejected(r)
    BY <1>8, NullAssumption DEF InsertRejected, Finish
<1>9. CASE DeleteOld(r)
    BY <1>9, NullAssumption DEF DeleteOld, Finish
<1> QED
    BY <1>1, <1>2, <1>3, <1>4, <1>5, <1>6, <1>7, <1>8, <1>9

\* The steps of the download and of removeAvatar, and a call that starts.
LEMMA OtherStep ==
    ASSUME IInv, NEW r \in Request,
           \/ \E p \in Path : Download(r, p) \/ DownloadFails(r, p) \/ Stall(r, p)
           \/ FindForRemoval(r) \/ DeleteForRemoval(r) \/ DeleteRemoved(r)
           \/ \E u \in User : StartSet(r, u) \/ StartRemove(r, u)
    PROVE  IInv'
<1> USE DEF IInv, TypeOK, Owners, RowsDistinct, FreshFiles, OldPaths, Landed,
        NoDanglingAvatar, AvatarKept, Busy, Ingesting, InFlight, Stage
<1>1. ASSUME NEW p \in Path, Download(r, p) PROVE IInv'
    <2>1. /\ p \notin used /\ used' = used \cup {p} /\ temp' = temp \cup {p}
          /\ pc[r] = "download" /\ pc' = [pc EXCEPT ![r] = "persist"]
          /\ file' = [file EXCEPT ![r] = p]
          /\ UNCHANGED <<users, row, media, owner, old, kept, calm>>
        BY <1>1 DEF Download, Advance
    <2>2. TypeOK' /\ Owners' /\ RowsDistinct' /\ NoDanglingAvatar'
        BY <2>1
    <2>3. Ingesting' = Ingesting \cup {r} /\ InFlight' = InFlight /\ r \notin InFlight
        BY <2>1
    <2>4. FreshFiles' /\ Landed'
        BY <2>1, <2>3, NullAssumption
    <2>5. OldPaths' /\ AvatarKept'
        BY <2>1
    <2> QED
        BY <2>2, <2>4, <2>5
<1>2. ASSUME NEW p \in Path, DownloadFails(r, p) PROVE IInv'
    BY <1>2, QuietFinish DEF DownloadFails
<1>3. ASSUME NEW p \in Path, Stall(r, p) PROVE IInv'
    <2>1. /\ used' = used \cup {p} /\ temp' = temp \cup {p} /\ calm' = FALSE
          /\ pc[r] = "download" /\ pc' = [pc EXCEPT ![r] = "stalled"]
          /\ UNCHANGED <<users, row, media, owner, old, file, kept>>
        BY <1>3 DEF Stall, Advance
    <2>2. TypeOK' /\ Owners' /\ RowsDistinct' /\ NoDanglingAvatar'
        BY <2>1
    <2>3. Ingesting' = Ingesting /\ InFlight' = InFlight
        BY <2>1
    <2>4. FreshFiles' /\ Landed' /\ OldPaths' /\ AvatarKept'
        BY <2>1, <2>3
    <2> QED
        BY <2>2, <2>4
<1>4. CASE FindForRemoval(r)
    <2>1. CASE Finish(r)
        BY <1>4, <2>1, QuietFinish DEF FindForRemoval
    <2>2. CASE Advance(r, "findForRemoval", "deleteForRemoval")
               /\ old' = [old EXCEPT ![r] = row[owner[r]]] /\ UNCHANGED <<owner, file>>
        <3>1. /\ pc[r] = "findForRemoval" /\ pc' = [pc EXCEPT ![r] = "deleteForRemoval"]
              /\ old' = [old EXCEPT ![r] = row[owner[r]]]
              /\ UNCHANGED <<users, row, media, temp, used, owner, file, kept, calm>>
            BY <1>4, <2>2 DEF FindForRemoval, Advance
        <3>2. TypeOK' /\ Owners' /\ RowsDistinct' /\ NoDanglingAvatar'
            BY <3>1
        <3>3. Ingesting' = Ingesting /\ InFlight' = InFlight
            BY <3>1
        <3>4. FreshFiles' /\ Landed'
            BY <3>1, <3>3
        <3>5. OldPaths' /\ AvatarKept'
            BY <3>1
        <3> QED
            BY <3>2, <3>4, <3>5
    <2> QED
        BY <1>4, <2>1, <2>2 DEF FindForRemoval
<1>5. CASE DeleteForRemoval(r)
    <2>1. /\ row' = [row EXCEPT ![owner[r]] = NoPath] /\ kept' = kept \ {owner[r]}
          /\ pc[r] = "deleteForRemoval" /\ pc' = [pc EXCEPT ![r] = "deleteRemoved"]
          /\ owner[r] \in User
          /\ UNCHANGED <<users, media, temp, used, owner, old, file, calm>>
        BY <1>5 DEF DeleteForRemoval, Advance
    <2>2. TypeOK' /\ Owners' /\ RowsDistinct' /\ NoDanglingAvatar'
        BY <2>1
    <2>3. Ingesting' = Ingesting /\ InFlight' = InFlight
        BY <2>1
    <2>4. FreshFiles' /\ Landed'
        BY <2>1, <2>3, NullAssumption
    <2>5. OldPaths' /\ AvatarKept'
        BY <2>1
    <2> QED
        BY <2>2, <2>4, <2>5
<1>6. CASE DeleteRemoved(r)
    BY <1>6, NullAssumption DEF DeleteRemoved, Finish
<1>7. ASSUME NEW u \in User, StartSet(r, u) \/ StartRemove(r, u) PROVE IInv'
    <2>1. PICK stage \in {"findExisting", "findForRemoval"} : Start(r, u, stage)
        BY <1>7 DEF StartSet, StartRemove
    <2>2. /\ pc[r] = "idle" /\ pc' = [pc EXCEPT ![r] = stage]
          /\ owner' = [owner EXCEPT ![r] = u] /\ calm' \in BOOLEAN
          /\ UNCHANGED <<users, row, media, temp, used, old, file, kept>>
        BY <2>1 DEF Start
    <2>3. TypeOK' /\ Owners' /\ RowsDistinct' /\ NoDanglingAvatar'
        BY <2>2
    <2>4. Ingesting' = Ingesting /\ InFlight' = InFlight
        BY <2>2
    <2>5. FreshFiles' /\ Landed' /\ AvatarKept'
        BY <2>2, <2>4
    <2>6. OldPaths'
        BY <2>2
    <2> QED
        BY <2>3, <2>5, <2>6
<1> QED
    BY <1>1, <1>2, <1>3, <1>4, <1>5, <1>6, <1>7

\* Failures, restarts and hard deletions keep the invariant too.
LEMMA EnvironmentStep ==
    ASSUME IInv,
           \/ \E r \in Request : Fail(r)
           \/ Restart
           \/ \E u \in User : HardDelete(u)
    PROVE  IInv'
<1> USE DEF IInv, TypeOK, Owners, RowsDistinct, FreshFiles, OldPaths, Landed,
        NoDanglingAvatar, AvatarKept, Busy, Ingesting, InFlight, Stage
<1>1. ASSUME NEW r \in Request, Fail(r) PROVE IInv'
    <2>1. CASE pc[r] # "insert"
        BY <1>1, <2>1, QuietFinish DEF Fail
    <2>2. CASE pc[r] = "insert"
        <3>1. /\ kept' = kept \ {owner[r]} /\ calm' = FALSE /\ Finish(r)
              /\ UNCHANGED <<users, row, media, temp, used>>
            BY <1>1, <2>2 DEF Fail
        <3>2. TypeOK' /\ RowsDistinct' /\ NoDanglingAvatar'
            BY <3>1, FinishType
        <3>3. Owners'
            BY <3>1 DEF Finish
        <3>4. FreshFiles' /\ Landed'
            BY <3>1, FinishCalls, NullAssumption
        <3>5. OldPaths' /\ AvatarKept'
            BY <3>1, FinishCalls
        <3> QED
            BY <3>2, <3>3, <3>4, <3>5
    <2> QED
        BY <2>1, <2>2
<1>2. CASE Restart
    <2>1. /\ pc' = [r \in Request |-> "idle"] /\ owner' = [r \in Request |-> NoUser]
          /\ old' = [r \in Request |-> NoPath] /\ file' = [r \in Request |-> NoPath]
          /\ kept' = kept \ { owner[r] : r \in { q \in Request : pc[q] = "insert" } }
          /\ calm' = FALSE /\ UNCHANGED <<users, row, media, temp, used>>
        BY <1>2 DEF Restart
    <2>2. TypeOK' /\ Owners' /\ RowsDistinct' /\ NoDanglingAvatar'
        BY <2>1
    <2>3. Ingesting' = {} /\ InFlight' = {}
        BY <2>1
    <2>4. FreshFiles' /\ Landed' /\ OldPaths'
        BY <2>1, <2>3
    <2>5. AvatarKept'
        BY <2>1
    <2> QED
        BY <2>2, <2>4, <2>5
<1>3. ASSUME NEW u \in User, HardDelete(u) PROVE IInv'
    <2>1. /\ users' = users \ {u} /\ row' = [row EXCEPT ![u] = NoPath]
          /\ kept' = kept \ {u} /\ calm' = FALSE
          /\ UNCHANGED <<media, temp, used, pc, owner, old, file>>
        BY <1>3 DEF HardDelete, call
    <2>2. TypeOK' /\ Owners' /\ RowsDistinct' /\ NoDanglingAvatar' /\ AvatarKept'
        BY <2>1
    <2>3. Ingesting' = Ingesting /\ InFlight' = InFlight
        BY <2>1
    <2>4. FreshFiles' /\ Landed'
        BY <2>1, <2>3, NullAssumption
    <2>5. OldPaths'
        BY <2>1
    <2> QED
        BY <2>2, <2>4, <2>5
<1> QED
    BY <1>1, <1>2, <1>3

\* The inductive invariant is one.
LEMMA NextIInv == IInv /\ [Next]_vars => IInv'
<1> SUFFICES ASSUME IInv, [Next]_vars PROVE IInv'
    OBVIOUS
<1>1. CASE Next
    BY <1>1, SetStep, OtherStep, EnvironmentStep DEF Next, Step
<1>2. CASE UNCHANGED vars
    BY <1>2 DEF vars, call, IInv, TypeOK, Owners, RowsDistinct, FreshFiles, OldPaths, Landed,
       NoDanglingAvatar, AvatarKept, Ingesting, InFlight
<1> QED
    BY <1>1, <1>2

-----------------------------------------------------------------------------
\* The inductive invariant holds in every reachable state.
THEOREM Invariance == Spec => []IInv
BY InitIInv, NextIInv, PTL DEF Spec

\* The variables keep their types.
THEOREM TypeCorrect == Spec => []TypeOK
<1>1. IInv => TypeOK
    BY DEF IInv
<1> QED
    BY <1>1, Invariance, PTL

\* An avatar row always names a file that is there.
THEOREM NeverDangling == Spec => []NoDanglingAvatar
<1>1. IInv => NoDanglingAvatar
    BY DEF IInv
<1> QED
    BY <1>1, Invariance, PTL

\* Replacing an avatar does not lose it.
THEOREM ReplacementKeepsAvatar == Spec => []AvatarKept
<1>1. IInv => AvatarKept
    BY DEF IInv
<1> QED
    BY <1>1, Invariance, PTL
-----------------------------------------------------------------------------
(* Files do not pile up.  While it is calm the calls for one user do not    *)
(* overlap, so what a call read of the row is still true when it acts.      *)

\* No two calls are for the same user.
Alone == \A r, q \in Request : owner[r] \in User /\ owner[r] = owner[q] => r = q

\* The path a call has read is the row's until it deletes the row, and when it
\* is to insert there is no row.
Seen ==
    \A r \in Request :
        /\ pc[r] \in {"download", "persist", "dropTemp", "deleteRow", "deleteForRemoval"} =>
              old[r] = row[owner[r]]
        /\ pc[r] = "insert" => row[owner[r]] = NoPath

\* The second inductive invariant, on top of IInv.
CalmInv == calm => users = User /\ Alone /\ Seen /\ NoLeak

\* Initially there is no file.
LEMMA InitCalm == Init => CalmInv
BY NullAssumption DEF Init, CalmInv, Alone, Seen, NoLeak

\* Who is alone stays so when the users of the calls stay, or a call ends.
LEMMA AloneKept ==
    ASSUME IInv, Alone, NEW r \in Request, UNCHANGED owner \/ Finish(r)
    PROVE  Alone'
BY NullAssumption DEF IInv, TypeOK, Alone, Finish

\* When the row of one user changes, what the other calls have read is true.
LEMMA SeenByOthers ==
    ASSUME IInv, Alone, Seen, NEW r \in Request, owner[r] \in User,
           \A u \in User \ {owner[r]} : row'[u] = row[u],
           NEW q \in Request \ {r},
           pc'[q] = pc[q], owner'[q] = owner[q], old'[q] = old[q]
    PROVE  /\ pc'[q] \in {"download", "persist", "dropTemp", "deleteRow", "deleteForRemoval"} =>
                 old'[q] = row'[owner'[q]]
           /\ pc'[q] = "insert" => row'[owner'[q]] = NoPath
<1>1. owner[q] # owner[r]
    BY DEF Alone
<1>2. pc[q] # "idle" => owner[q] \in User
    BY DEF IInv, Owners, Busy, TypeOK
<1> QED
    BY <1>1, <1>2 DEF Seen

\* A step of a set keeps CalmInv.
LEMMA CalmSetStep ==
    ASSUME IInv, CalmInv, calm', NEW r \in Request,
           \/ FindExisting(r) \/ Persist(r) \/ DropTemp(r) \/ DropTempFailed(r)
           \/ DeleteRow(r) \/ Insert(r) \/ InsertRejected(r) \/ DeleteOld(r)
           \/ \E p \in Path : Download(r, p)
    PROVE  CalmInv'
<1>1. /\ calm /\ users = User /\ users' = users /\ Alone /\ Seen /\ NoLeak
      /\ pc[r] # "idle" /\ owner[r] \in User
      /\ UNCHANGED owner \/ Finish(r)
    BY DEF CalmInv, FindExisting, Persist, DropTemp, DropTempFailed, DeleteRow, Insert,
       InsertRejected, DeleteOld, Download, Advance, IInv, TypeOK, Owners, Busy
<1>2. Alone'
    BY <1>1, AloneKept
<1>3. /\ pc' \in [Request -> Stage]
      /\ \A u \in User \ {owner[r]} : row'[u] = row[u]
      /\ \A q \in Request \ {r} :
           pc'[q] = pc[q] /\ owner'[q] = owner[q] /\ old'[q] = old[q] /\ file'[q] = file[q]
    BY DEF FindExisting, Persist, DropTemp, DropTempFailed, DeleteRow, Insert,
       InsertRejected, DeleteOld, Download, Advance, Finish, IInv, TypeOK, Stage
<1>4. Seen'
    <2>1. /\ pc'[r] \in {"download", "persist", "dropTemp", "deleteRow", "deleteForRemoval"} =>
                old'[r] = row'[owner'[r]]
          /\ pc'[r] = "insert" => row'[owner'[r]] = NoPath
        BY <1>1 DEF FindExisting, Persist, DropTemp, DropTempFailed, DeleteRow, Insert,
           InsertRejected, DeleteOld, Download, Advance, Finish, IInv, TypeOK, Seen
    <2> QED
        BY <1>1, <1>3, <2>1, SeenByOthers DEF Seen
<1>5. NoLeak'
    <2> USE DEF IInv, TypeOK, NoLeak, InFlight, Leaving, Fetched
    <2>1. CASE FindExisting(r)
        BY <1>1, <2>1 DEF FindExisting, Advance
    <2>2. CASE Persist(r)
        BY <1>1, <2>2 DEF Persist, Advance
    <2>3. CASE DropTemp(r)
        BY <1>1, <2>3 DEF DropTemp, Advance
    <2>4. CASE DropTempFailed(r)
        BY <1>1, <2>4 DEF DropTempFailed, Finish
    <2>5. CASE DeleteRow(r)
        BY <1>1, <2>5, NullAssumption DEF DeleteRow, Advance, Seen
    <2>6. CASE Insert(r)
        BY <1>1, <2>6, NullAssumption DEF Insert, Advance, Finish
    <2>7. CASE InsertRejected(r)
        BY <1>1, <2>7 DEF InsertRejected, Seen
    <2>8. CASE DeleteOld(r)
        BY <1>1, <2>8 DEF DeleteOld, Finish
    <2>9. ASSUME NEW p \in Path, Download(r, p) PROVE NoLeak'
        BY <1>1, <2>9 DEF Download, Advance
    <2> QED
        BY <2>1, <2>2, <2>3, <2>4, <2>5, <2>6, <2>7, <2>8, <2>9
<1> QED
    BY <1>1, <1>2, <1>4, <1>5 DEF CalmInv
\* A call that starts while it is calm is alone, and holds no file.
LEMMA CalmStart ==
    ASSUME IInv, CalmInv, calm', NEW r \in Request, NEW u \in User,
           StartSet(r, u) \/ StartRemove(r, u)
    PROVE  CalmInv'
<1>1. PICK stage \in {"findExisting", "findForRemoval"} : Start(r, u, stage)
    BY DEF StartSet, StartRemove
<1>2. /\ calm /\ \A q \in Request : owner[q] # u
      /\ pc[r] = "idle" /\ pc' = [pc EXCEPT ![r] = stage] /\ owner' = [owner EXCEPT ![r] = u]
      /\ UNCHANGED <<users, row, media, temp, used, old, file, kept>>
    BY <1>1 DEF Start
<1>3. users' = User /\ Alone'
    BY <1>2 DEF CalmInv, Alone, IInv, TypeOK
<1>4. Seen'
    BY <1>2 DEF CalmInv, Seen, IInv, TypeOK
<1>5. InFlight' = InFlight /\ Leaving' = Leaving /\ Fetched' = Fetched
    BY <1>2 DEF InFlight, Leaving, Fetched, IInv, TypeOK
<1>6. NoLeak'
    BY <1>2, <1>5 DEF CalmInv, NoLeak
<1> QED
    BY <1>3, <1>4, <1>6 DEF CalmInv

\* A step of a removal keeps CalmInv.
LEMMA CalmRemoveStep ==
    ASSUME IInv, CalmInv, calm', NEW r \in Request,
           FindForRemoval(r) \/ DeleteForRemoval(r) \/ DeleteRemoved(r)
    PROVE  CalmInv'
<1>1. /\ calm /\ users = User /\ users' = users /\ Alone /\ Seen /\ NoLeak
      /\ pc[r] # "idle" /\ owner[r] \in User
      /\ UNCHANGED owner \/ Finish(r)
    BY DEF CalmInv, FindForRemoval, DeleteForRemoval, DeleteRemoved, Advance, IInv, TypeOK,
       Owners, Busy
<1>2. Alone'
    BY <1>1, AloneKept
<1>3. /\ pc' \in [Request -> Stage]
      /\ \A u \in User \ {owner[r]} : row'[u] = row[u]
      /\ \A q \in Request \ {r} :
           pc'[q] = pc[q] /\ owner'[q] = owner[q] /\ old'[q] = old[q] /\ file'[q] = file[q]
    BY DEF FindForRemoval, DeleteForRemoval, DeleteRemoved, Advance, Finish, IInv, TypeOK, Stage
<1>4. Seen'
    <2>1. /\ pc'[r] \in {"download", "persist", "dropTemp", "deleteRow", "deleteForRemoval"} =>
                old'[r] = row'[owner'[r]]
          /\ pc'[r] = "insert" => row'[owner'[r]] = NoPath
        BY <1>1 DEF FindForRemoval, DeleteForRemoval, DeleteRemoved, Advance, Finish, IInv, TypeOK
    <2> QED
        BY <1>1, <1>3, <2>1, SeenByOthers DEF Seen
<1>5. NoLeak'
    <2> USE DEF IInv, TypeOK, NoLeak, InFlight, Leaving, Fetched
    <2>1. CASE FindForRemoval(r)
        BY <1>1, <2>1 DEF FindForRemoval, Advance, Finish
    <2>2. CASE DeleteForRemoval(r)
        BY <1>1, <2>2, NullAssumption DEF DeleteForRemoval, Advance, Seen
    <2>3. CASE DeleteRemoved(r)
        BY <1>1, <2>3 DEF DeleteRemoved, Finish
    <2> QED
        BY <2>1, <2>2, <2>3
<1> QED
    BY <1>1, <1>2, <1>4, <1>5 DEF CalmInv

\* The second inductive invariant is one, on top of the first.
LEMMA NextCalm == IInv /\ CalmInv /\ [Next]_vars => CalmInv'
<1> SUFFICES ASSUME IInv, CalmInv, [Next]_vars, calm' PROVE CalmInv'
    BY DEF CalmInv
<1>1. ASSUME NEW r \in Request, Step(r) PROVE CalmInv'
    BY <1>1, CalmSetStep, CalmRemoveStep DEF Step
<1>2. ASSUME NEW r \in Request, NEW u \in User, StartSet(r, u) \/ StartRemove(r, u)
      PROVE  CalmInv'
    BY <1>2, CalmStart
<1>3. ASSUME NEW r \in Request,
             \/ \E p \in Path : DownloadFails(r, p) \/ Stall(r, p)
             \/ PersistFails(r) \/ Fail(r)
      PROVE  FALSE
    BY <1>3 DEF DownloadFails, Stall, PersistFails, Fail
<1>4. CASE Restart \/ \E u \in User : HardDelete(u)
    BY <1>4 DEF Restart, HardDelete
<1>5. CASE UNCHANGED vars
    BY <1>5 DEF vars, call, CalmInv, Alone, Seen, NoLeak, InFlight, Leaving, Fetched
<1> QED
    BY <1>1, <1>2, <1>3, <1>4, <1>5 DEF Next

\* Until something fails or two calls for one user overlap, every file in the
\* media and temp folders belongs to a row or to a call that will deal with it.
THEOREM NothingLeaks == Spec => []NoLeak
<1>1. CalmInv => NoLeak
    BY DEF CalmInv, NoLeak
<1> QED
    BY <1>1, Invariance, InitCalm, NextCalm, PTL DEF Spec
=============================================================================
