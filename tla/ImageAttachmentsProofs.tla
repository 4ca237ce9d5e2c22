----------------------- MODULE ImageAttachmentsProofs -----------------------
(***************************************************************************)
(* Theorems about ImageAttachments, for any owners, calls, files and       *)
(* limits.                                                                 *)
(***************************************************************************)
EXTENDS ImageAttachments, FiniteSetTheorems, FunctionTheorems, TLAPS

\* A call that is being served knows its owner and brings at least one file.
Served ==
    \A r \in Request : pc[r] # "idle" => owner[r] \in Owner /\ size[r] \in Index

FiniteGalleries == \A o \in Owner : IsFiniteSet(gallery[o])

\* What the upload of the i-th file of a call has stored and no row has yet.
Live(r, i) == pc[r] \in Uploading /\ up[r][i] # NoPath

\* No row names a path.
Unnamed(p) ==
    /\ \A o \in Owner : cover[o] # p
    /\ \A o \in Owner : \A image \in gallery[o] : image.path # p

\* No two rows name one file.
RowsDistinct ==
    /\ \A o, v \in Owner : cover[o] # NoPath /\ cover[o] = cover[v] => o = v
    /\ \A o, v \in Owner : \A image \in gallery[v] : cover[o] # image.path
    /\ \A o, v \in Owner : \A a \in gallery[o], b \in gallery[v] :
           a.path = b.path => o = v /\ a = b

\* A stored file whose row is not written is its call's alone.
UploadsOwned ==
    \A r \in Request, i \in Index :
        Live(r, i) =>
            /\ up[r][i] \in files
            /\ Unnamed(up[r][i])
            /\ \A q \in Request : seen[q] # up[r][i]
            /\ \A q \in Request, j \in Index :
                   Live(q, j) /\ up[q][j] = up[r][i] => q = r /\ j = i

\* The path a replacement read is its owner's until it writes the row, and
\* nobody's from then on.
SeenIsOld ==
    \A r \in Request :
        seen[r] # NoPath =>
            /\ pc[r] \in {"replace", "delete"}
            /\ seen[r] \in used
            /\ \A o \in Owner : cover[o] = seen[r] => o = owner[r] /\ pc[r] = "replace"
            /\ \A o \in Owner : \A image \in gallery[o] : image.path # seen[r]

\* A call has stored nothing before its uploads begin.
EmptyHanded ==
    \A r \in Request : pc[r] \in {"idle", "count", "find"} => \A i \in Index : up[r][i] = NoPath

\* The invariant about types, and the one about paths.
Types == TypeOK /\ Served /\ FiniteGalleries
Paths == RowsHaveFiles /\ RowsDistinct /\ UploadsOwned /\ SeenIsOld /\ EmptyHanded

-----------------------------------------------------------------------------
\* The initial state satisfies both.
LEMMA InitTypesPaths == Init => Types /\ Paths
BY FS_EmptySet, NullAssumption, BoundsAssumption
   DEF Init, Types, TypeOK, Served, FiniteGalleries, Paths, RowsHaveFiles, RowsDistinct,
       UploadsOwned, SeenIsOld, EmptyHanded, Live, Uploading, Stage, Empty, Index

\* What an answer leaves of a call, and of the others.
LEMMA AnswerCalls ==
    ASSUME TypeOK, NEW r \in Request, Answer(r)
    PROVE  /\ pc' \in [Request -> Stage] /\ owner' \in [Request -> Owner \cup {NoOwner}]
           /\ size' \in [Request -> 0 .. MaxFiles]
           /\ up' \in [Request -> [Index -> Path \cup {NoPath}]]
           /\ seen' \in [Request -> Path \cup {NoPath}]
           /\ count' \in [Request -> Nat] /\ discard' \in [Request -> BOOLEAN]
           /\ pc'[r] = "idle" /\ seen'[r] = NoPath
           /\ \A q \in Request \ {r} :
                /\ pc'[q] = pc[q] /\ owner'[q] = owner[q] /\ size'[q] = size[q]
                /\ up'[q] = up[q] /\ seen'[q] = seen[q] /\ count'[q] = count[q]
BY BoundsAssumption DEF TypeOK, Answer, Stage, Empty, Index

\* The number of pending uploads is a number, and at least one if there are any.
LEMMA PendingCount ==
    ASSUME TypeOK, NEW r \in Request
    PROVE  /\ Cardinality(Pending(r)) \in Nat
           /\ Pending(r) # {} => Cardinality(Pending(r)) >= 1
<1>1. size[r] \in Nat /\ IsFiniteSet(1 .. size[r])
    BY FS_Interval, BoundsAssumption DEF TypeOK
<1>2. IsFiniteSet(Pending(r))
    BY <1>1, FS_Subset DEF Pending
<1>3. Cardinality(Pending(r)) \in Nat
    BY <1>2, FS_CardinalityType
<1>4. Cardinality(Pending(r)) = 0 <=> Pending(r) = {}
    BY <1>2, FS_EmptySet
<1> QED
    BY <1>3, <1>4

\* What one call adds to a gallery is finite.
LEMMA ImagesFinite ==
    ASSUME TypeOK, NEW r \in Request
    PROVE  IsFiniteSet(Images(r)) /\ Cardinality(Images(r)) <= size[r]
<1> DEFINE S == 1 .. size[r]
           f == [i \in S |-> [path |-> up[r][i], order |-> count[r] + i - 1]]
<1>1. size[r] \in Nat /\ IsFiniteSet(S) /\ Cardinality(S) = size[r]
    BY FS_Interval, BoundsAssumption DEF TypeOK
<1>2. f \in Surjection(S, Images(r))
    BY DEF Surjection, Images
<1> HIDE DEF f, S
<1> QED
    BY <1>1, <1>2, FS_Surjection

-----------------------------------------------------------------------------
\* The steps of a call keep the types.
LEMMA StepTypes ==
    ASSUME Types, NEW r \in Request, Step(r)
    PROVE  Types'
<1> USE BoundsAssumption, NullAssumption DEF Types, TypeOK, Served, FiniteGalleries, store, tables,
        history
<1>1. CASE CountImages(r)
    <2>1. CASE Finish(r) /\ refused' = refused \cup {r} /\ sdk' = sdk
        BY <1>1, <2>1, AnswerCalls DEF CountImages, Finish
    <2>2. CASE /\ BeginUploads(r, "append")
               /\ count' = [count EXCEPT ![r] = Cardinality(gallery[owner[r]])]
               /\ UNCHANGED <<owner, size, up, seen, discard, joined, refused>>
        <3>1. pc[r] = "count" /\ owner[r] \in Owner
            BY <1>1 DEF CountImages
        <3>2. Cardinality(gallery[owner[r]]) \in Nat
            BY <3>1, FS_CardinalityType
        <3> QED
            BY <1>1, <2>2, <3>1, <3>2 DEF CountImages, BeginUploads, Stage
    <2> QED
        BY <1>1, <2>1, <2>2 DEF CountImages
<1>2. CASE FindExisting(r)
    BY <1>2 DEF FindExisting, BeginUploads, Stage
<1>3. CASE \E i \in Index, p \in Path : Upload(r, i, p)
    BY <1>3 DEF Upload, Index
<1>4. CASE SaveImages(r)
    <2>1. pc[r] = "append" /\ owner[r] \in Owner
        BY <1>4 DEF SaveImages
    <2>2. Images(r) \subseteq Image /\ IsFiniteSet(Images(r))
        <3>1. \A i \in 1 .. size[r] : up[r][i] \in Path /\ count[r] + i - 1 \in Nat
            <4> SUFFICES ASSUME NEW i \in 1 .. size[r]
                         PROVE  up[r][i] \in Path /\ count[r] + i - 1 \in Nat
                OBVIOUS
            <4>1. i \in Index /\ up[r][i] # NoPath
                BY <1>4 DEF SaveImages, Pending, Index
            <4>2. up[r] \in [Index -> Path \cup {NoPath}]
                OBVIOUS
            <4>3. size[r] \in Nat /\ i \in Nat /\ i >= 1
                OBVIOUS
            <4>4. count[r] \in Nat
                OBVIOUS
            <4> HIDE DEF Types, TypeOK
            <4> QED
                BY <4>1, <4>2, <4>3, <4>4
        <3>2. Images(r) \subseteq Image
            BY <3>1 DEF Images, Image
        <3>3. IsFiniteSet(Images(r))
            BY ImagesFinite
        <3> QED
            BY <3>2, <3>3
    <2>3. IsFiniteSet(gallery[owner[r]] \cup Images(r))
        BY <2>1, <2>2, FS_Union
    <2>4. gallery' \in [Owner -> SUBSET Image] /\ FiniteGalleries'
        BY <1>4, <2>1, <2>2, <2>3 DEF SaveImages
    <2>5. joined' \in [Request -> Nat] /\ promised' \in [Owner -> Nat]
        BY <1>4 DEF SaveImages
    <2> QED
        BY <1>4, <2>4, <2>5, AnswerCalls DEF SaveImages, store, history
<1>5. CASE Create(r)
    <2>1. cover' \in [Owner -> Path \cup {NoPath}]
        BY <1>5 DEF Create, Index
    <2> QED
        BY <1>5, <2>1, AnswerCalls DEF Create, Finish, store
<1>6. CASE Merge(r)
    <2>1. cover' \in [Owner -> Path \cup {NoPath}]
        BY <1>6 DEF Merge, Index
    <2>2. CASE discard[r]
        BY <1>6, <2>1, <2>2 DEF Merge, Stage, store
    <2>3. CASE ~discard[r]
        <3>1. Finish(r) /\ spared' \subseteq Path
            BY <1>6, <2>3 DEF Merge
        <3> QED
            BY <1>6, <2>1, <3>1, AnswerCalls DEF Merge, Finish
    <2> QED
        BY <2>2, <2>3
<1>7. CASE DeletePrevious(r)
    BY <1>7, AnswerCalls DEF DeletePrevious, Finish, tables
<1> QED
    BY <1>1, <1>2, <1>3, <1>4, <1>5, <1>6, <1>7 DEF Step

\* Some calls end together: an import fails, or the process restarts.
CallsGone(hit) ==
    LET kept(f, none) == [r \in Request |-> IF r \in hit THEN none ELSE f[r]]
    IN  /\ pc' = kept(pc, "idle") /\ owner' = kept(owner, NoOwner)
        /\ size' = kept(size, 0) /\ up' = kept(up, Empty)
        /\ seen' = kept(seen, NoPath) /\ count' = kept(count, 0)
        /\ discard' = kept(discard, TRUE) /\ joined' = kept(joined, 0)

\* They leave well-typed slots.
LEMMA GoneTypes ==
    ASSUME TypeOK, Served, NEW hit \in SUBSET Request, CallsGone(hit)
    PROVE  /\ pc' \in [Request -> Stage] /\ owner' \in [Request -> Owner \cup {NoOwner}]
           /\ size' \in [Request -> 0 .. MaxFiles]
           /\ up' \in [Request -> [Index -> Path \cup {NoPath}]]
           /\ seen' \in [Request -> Path \cup {NoPath}]
           /\ count' \in [Request -> Nat] /\ discard' \in [Request -> BOOLEAN]
           /\ joined' \in [Request -> Nat]
           /\ Served'
<1>1. Empty \in [Index -> Path \cup {NoPath}] /\ 0 \in 0 .. MaxFiles /\ "idle" \in Stage
    BY BoundsAssumption DEF Empty, Stage
<1>2. /\ pc' \in [Request -> Stage] /\ owner' \in [Request -> Owner \cup {NoOwner}]
      /\ size' \in [Request -> 0 .. MaxFiles]
    BY <1>1 DEF CallsGone, TypeOK
<1>3. up' \in [Request -> [Index -> Path \cup {NoPath}]]
    BY <1>1 DEF CallsGone, TypeOK
<1>4. /\ seen' \in [Request -> Path \cup {NoPath}]
      /\ count' \in [Request -> Nat] /\ discard' \in [Request -> BOOLEAN]
      /\ joined' \in [Request -> Nat]
    BY DEF CallsGone, TypeOK
<1>5. Served'
    BY DEF CallsGone, TypeOK, Served
<1> QED
    BY <1>2, <1>3, <1>4, <1>5

\* Files that uploads nobody waits for leave behind.
LEMMA LeftFiles ==
    ASSUME NEW left \in Left
    PROVE  left \subseteq Path
BY DEF Left

\* New calls, failures, and whatever else happens keep the types.
LEMMA OtherTypes ==
    ASSUME Types, Next
    PROVE  Types' \/ \E r \in Request : Step(r)
<1> USE BoundsAssumption, NullAssumption DEF Types, TypeOK, Served, FiniteGalleries, store,
        tables, history
<1>1. ASSUME NEW r \in Request, NEW o \in Owner, NEW n \in Index, NEW stage \in Stage \ {"idle"},
             NEW d \in BOOLEAN, Start(r, o, stage, n, d)
      PROVE  Types'
    BY <1>1 DEF Start, Index
<1>2. ASSUME NEW r \in Request, NEW o \in Owner, NEW n \in Index, StartAppend(r, o, n)
      PROVE  Types'
    BY <1>1, <1>2 DEF StartAppend, Stage
<1>3. ASSUME NEW r \in Request, NEW o \in Owner, NEW d \in BOOLEAN, StartReplace(r, o, d)
      PROVE  Types'
    <2>1. 1 \in Index
        BY DEF Index
    <2> QED
        BY <1>1, <1>3, <2>1 DEF StartReplace, Stage
<1>4. ASSUME NEW r \in Request, NEW left \in Left, UploadFails(r, left)
      PROVE  Types'
    <2>1. stray' \in Nat
        BY <1>4, PendingCount DEF UploadFails
    <2> QED
        BY <1>4, <2>1, AnswerCalls, LeftFiles DEF UploadFails, Finish
<1>5. ASSUME NEW r \in Request, Fail(r)
      PROVE  Types'
    BY <1>5, AnswerCalls DEF Fail, Finish
<1>6. CASE ImportResolves
    BY <1>6 DEF ImportResolves, call
<1>7. CASE ImportFails
    <2>1. \E hit \in SUBSET Request : CallsGone(hit)
        BY <1>7 DEF ImportFails, CallsGone
    <2> QED
        BY <1>7, <2>1, GoneTypes DEF ImportFails
<1>8. ASSUME NEW left \in Left, StrayUpload(left)
      PROVE  Types'
    BY <1>8, LeftFiles DEF StrayUpload, call
<1>9. CASE Restart
    <2>1. CallsGone(Request)
        BY <1>9 DEF Restart, CallsGone
    <2> QED
        BY <1>9, <2>1, GoneTypes DEF Restart
<1>10. ASSUME NEW o \in Owner, Snapshot(o)
       PROVE  Types'
    <2>1. Remaining(Cardinality(gallery[o])) \in Nat
        BY FS_CardinalityType DEF Remaining
    <2> QED
        BY <1>10, <2>1 DEF Snapshot, call
<1>11. ASSUME NEW o \in Owner, NEW image \in gallery[o], RemoveImage(o, image)
       PROVE  Types'
    <2>1. IsFiniteSet(gallery[o] \ {image})
        BY FS_RemoveElement
    <2> QED
        BY <1>11, <2>1 DEF RemoveImage, call
<1> QED
    BY <1>2, <1>3, <1>4, <1>5, <1>6, <1>7, <1>8, <1>9, <1>10, <1>11 DEF Next

\* Every step keeps the types.
LEMMA NextTypes == Types /\ [Next]_vars => Types'
<1>1. CASE UNCHANGED vars
    BY <1>1 DEF Types, TypeOK, Served, FiniteGalleries, vars, store, tables, call, history
<1>2. CASE Next
    BY <1>2, OtherTypes, StepTypes
<1> QED
    BY <1>1, <1>2

-----------------------------------------------------------------------------
\* A call holds no path, neither of a file it stored nor of one it read.
Free(r) == seen[r] = NoPath /\ \A i \in Index : up[r][i] = NoPath

\* A step keeps the paths if it leaves the rows and their files alone, and every
\* call either as it was or with no path.
LEMMA QuietPaths ==
    ASSUME Types, Types', Paths, UNCHANGED tables, files \subseteq files', used \subseteq used',
           \A q \in Request :
               \/ UNCHANGED <<pc[q], owner[q], up[q], seen[q]>>
               \/ Free(q)'
    PROVE  Paths'
<1> USE DEF Paths, tables, Free
<1>1. RowsHaveFiles' /\ RowsDistinct'
    BY DEF RowsHaveFiles, RowsDistinct
<1>2. \A q \in Request, i \in Index : Live(q, i)' => Live(q, i) /\ up'[q][i] = up[q][i]
    BY DEF Live
<1>3. \A q \in Request : seen'[q] # NoPath =>
          pc'[q] = pc[q] /\ owner'[q] = owner[q] /\ seen'[q] = seen[q]
    OBVIOUS
<1>4. UploadsOwned'
    <2> SUFFICES ASSUME NEW r \in Request, NEW i \in Index, Live(r, i)'
                 PROVE  /\ up'[r][i] \in files' /\ Unnamed(up[r][i])'
                        /\ \A q \in Request : seen'[q] # up'[r][i]
                        /\ \A q \in Request, j \in Index :
                               Live(q, j)' /\ up'[q][j] = up'[r][i] => q = r /\ j = i
        BY DEF UploadsOwned
    <2>1. Live(r, i) /\ up'[r][i] = up[r][i] /\ up[r][i] # NoPath
        BY <1>2 DEF Live
    <2> QED
        BY <1>2, <1>3, <2>1 DEF UploadsOwned, Unnamed
<1>5. SeenIsOld'
    BY <1>3 DEF SeenIsOld
<1>6. EmptyHanded'
    BY DEF EmptyHanded
<1> QED
    BY <1>1, <1>4, <1>5, <1>6

\* A call that is answered holds no path.
LEMMA AnswerFrees ==
    ASSUME Types, NEW r \in Request, Answer(r)
    PROVE  /\ Free(r)'
           /\ \A q \in Request \ {r} : UNCHANGED <<pc[q], owner[q], up[q], seen[q]>>
BY DEF Types, TypeOK, Answer, Free, Empty

\* Calls that end together hold no path.
LEMMA GoneFree ==
    ASSUME Types, NEW hit \in SUBSET Request, CallsGone(hit)
    PROVE  \A q \in Request : UNCHANGED <<pc[q], owner[q], up[q], seen[q]>> \/ Free(q)'
BY DEF Types, TypeOK, CallsGone, Free, Empty

\* All that neither stores a file for a call nor touches a row keeps the paths.
LEMMA OtherPaths ==
    ASSUME Types, Types', Paths, Next
    PROVE  \/ Paths'
           \/ \E r \in Request :
                \/ FindExisting(r) \/ \E i \in Index, p \in Path : Upload(r, i, p)
                \/ SaveImages(r) \/ Create(r) \/ Merge(r) \/ DeletePrevious(r)
           \/ \E o \in Owner : \E image \in gallery[o] : RemoveImage(o, image)
<1>1. ASSUME NEW r \in Request, NEW o, NEW n, NEW stage, NEW d, Start(r, o, stage, n, d)
      PROVE  Paths'
    <2>1. Free(r)' /\ UNCHANGED <<tables, files, used>>
        BY <1>1 DEF Start, Paths, SeenIsOld, EmptyHanded, Free, store
    <2>2. \A q \in Request \ {r} : UNCHANGED <<pc[q], owner[q], up[q], seen[q]>>
        BY <1>1 DEF Start, Types, TypeOK
    <2> QED
        BY <2>1, <2>2, QuietPaths
<1>2. ASSUME NEW r \in Request, CountImages(r)
      PROVE  Paths'
    <2>1. UNCHANGED <<tables, files, used>>
        BY <1>2 DEF CountImages
    <2>2. CASE Answer(r)
        BY <2>1, <2>2, AnswerFrees, QuietPaths
    <2>3. CASE BeginUploads(r, "append") /\ UNCHANGED <<owner, up, seen>>
        <3>1. Free(r)'
            BY <1>2, <2>3 DEF CountImages, Paths, SeenIsOld, EmptyHanded, Free
        <3>2. \A q \in Request \ {r} : UNCHANGED <<pc[q], owner[q], up[q], seen[q]>>
            BY <2>3 DEF BeginUploads, Types, TypeOK
        <3> QED
            BY <2>1, <3>1, <3>2, QuietPaths
    <2> QED
        BY <1>2, <2>2, <2>3 DEF CountImages, Finish
<1>3. ASSUME NEW r \in Request, NEW left \in Left, UploadFails(r, left)
      PROVE  Paths'
    BY <1>3, AnswerFrees, QuietPaths DEF UploadFails, Finish
<1>4. ASSUME NEW r \in Request, Fail(r)
      PROVE  Paths'
    BY <1>4, AnswerFrees, QuietPaths DEF Fail, Finish, store
<1>5. CASE ImportFails
    <2>1. \E hit \in SUBSET Request : CallsGone(hit)
        BY <1>5 DEF ImportFails, CallsGone
    <2> QED
        BY <1>5, <2>1, GoneFree, QuietPaths DEF ImportFails
<1>6. CASE Restart
    <2>1. CallsGone(Request)
        BY <1>6 DEF Restart, CallsGone
    <2> QED
        BY <1>6, <2>1, GoneFree, QuietPaths DEF Restart
<1>7. CASE ImportResolves \/ (\E left \in Left : StrayUpload(left)) \/ (\E o \in Owner : Snapshot(o))
    <2>1. UNCHANGED <<tables, call>> /\ files \subseteq files' /\ used \subseteq used'
        BY <1>7 DEF ImportResolves, StrayUpload, Snapshot, store
    <2> QED
        BY <2>1, QuietPaths DEF call
<1> QED
    BY <1>1, <1>2, <1>3, <1>4, <1>5, <1>6, <1>7 DEF Next, Step, StartAppend, StartReplace

-----------------------------------------------------------------------------
\* A replacement that has read its owner's row keeps the paths.
LEMMA FindPaths ==
    ASSUME Types, Types', Paths, NEW r \in Request, FindExisting(r)
    PROVE  Paths'
<1> USE NullAssumption DEF Types, TypeOK, Paths
<1>1. /\ pc[r] = "find" /\ owner[r] \in Owner
      /\ pc' = [pc EXCEPT ![r] = "replace"] /\ seen' = [seen EXCEPT ![r] = cover[owner[r]]]
      /\ UNCHANGED <<cover, gallery, files, used, owner, up>>
    BY DEF FindExisting, BeginUploads, Served, tables
<1>2. RowsHaveFiles' /\ RowsDistinct'
    BY <1>1 DEF RowsHaveFiles, RowsDistinct
<1>3. \A i \in Index : up[r][i] = NoPath
    BY <1>1 DEF EmptyHanded
<1>4. \A q \in Request, i \in Index : Live(q, i)' <=> Live(q, i)
    BY <1>1, <1>3 DEF Live, Uploading
<1>5. UploadsOwned'
    BY <1>1, <1>4 DEF UploadsOwned, Unnamed
<1>6. SeenIsOld'
    BY <1>1 DEF SeenIsOld, RowsDistinct, RowsHaveFiles
<1>7. EmptyHanded'
    BY <1>1 DEF EmptyHanded
<1> QED
    BY <1>2, <1>5, <1>6, <1>7

\* An upload stores a file under a name no one has.
LEMMA UploadPaths ==
    ASSUME Types, Types', Paths, NEW r \in Request, NEW i \in Index, NEW p \in Path,
           Upload(r, i, p)
    PROVE  Paths'
<1> USE NullAssumption DEF Types, TypeOK, Paths
<1>1. /\ pc[r] \in Uploading /\ p \notin used /\ p # NoPath
      /\ used' = used \cup {p} /\ files' = files \cup {p}
      /\ up' = [up EXCEPT ![r] = [up[r] EXCEPT ![i] = p]]
      /\ UNCHANGED <<cover, gallery, pc, owner, seen>>
    BY DEF Upload, Fresh, tables
<1>2. RowsHaveFiles' /\ RowsDistinct'
    BY <1>1 DEF RowsHaveFiles, RowsDistinct
<1>3. Unnamed(p) /\ \A q \in Request : seen[q] # p
    BY <1>1 DEF Unnamed, RowsHaveFiles, SeenIsOld
<1>4. \A q \in Request, j \in Index : up'[q][j] = IF q = r /\ j = i THEN p ELSE up[q][j]
    BY <1>1
<1>5. \A q \in Request, j \in Index : Live(q, j) => up[q][j] \in used
    BY DEF UploadsOwned
<1>6. UploadsOwned'
    <2> SUFFICES ASSUME NEW q \in Request, NEW j \in Index, Live(q, j)'
                 PROVE  /\ up'[q][j] \in files' /\ Unnamed(up[q][j])'
                        /\ \A s \in Request : seen'[s] # up'[q][j]
                        /\ \A s \in Request, k \in Index :
                               Live(s, k)' /\ up'[s][k] = up'[q][j] => s = q /\ k = j
        BY DEF UploadsOwned
    <2>1. \A s \in Request, k \in Index : Live(s, k)' => (s = r /\ k = i) \/ Live(s, k)
        BY <1>1, <1>4 DEF Live
    <2>2. CASE q = r /\ j = i
        BY <1>1, <1>3, <1>4, <1>5, <2>1, <2>2 DEF Unnamed
    <2>3. CASE ~(q = r /\ j = i)
        <3>1. Live(q, j) /\ up'[q][j] = up[q][j] /\ up[q][j] \in used
            BY <1>4, <1>5, <2>1, <2>3
        <3> QED
            BY <1>1, <1>4, <2>1, <2>3, <3>1 DEF Unnamed, UploadsOwned
    <2> QED
        BY <2>2, <2>3
<1>7. SeenIsOld'
    BY <1>1 DEF SeenIsOld
<1>8. EmptyHanded'
    BY <1>1, <1>4 DEF EmptyHanded, Uploading
<1> QED
    BY <1>2, <1>6, <1>7, <1>8

\* The rows of appendMany name the files its call has stored.
LEMMA SavePaths ==
    ASSUME Types, Types', Paths, NEW r \in Request, SaveImages(r)
    PROVE  Paths'
<1> USE NullAssumption, BoundsAssumption DEF Types, TypeOK, Paths
<1>1. /\ pc[r] = "append" /\ owner[r] \in Owner /\ Answer(r)
      /\ gallery' = [gallery EXCEPT ![owner[r]] = @ \cup Images(r)]
      /\ UNCHANGED <<cover, files, used>>
    BY DEF SaveImages, Served, store
<1>2. \A i \in 1 .. size[r] : i \in Index /\ Live(r, i)
    <2>1. size[r] \in Nat /\ size[r] <= MaxFiles
        OBVIOUS
    <2>2. \A i \in 1 .. size[r] : i \in Index /\ up[r][i] # NoPath
        BY <2>1 DEF SaveImages, Pending, Index
    <2> QED
        BY <1>1, <2>2 DEF Live, Uploading
<1>3. \A image \in Images(r) : \E i \in Index : Live(r, i) /\ image.path = up[r][i]
    BY <1>2 DEF Images
<1>4. \A a, b \in Images(r) : a.path = b.path => a = b
    <2>1. \A i, j \in 1 .. size[r] : up[r][i] = up[r][j] => i = j
        BY <1>2 DEF UploadsOwned
    <2> SUFFICES ASSUME NEW a \in Images(r), NEW b \in Images(r), a.path = b.path
                 PROVE  a = b
        OBVIOUS
    <2>2. PICK i \in 1 .. size[r] : a = [path |-> up[r][i], order |-> count[r] + i - 1]
        BY DEF Images
    <2>3. PICK j \in 1 .. size[r] : b = [path |-> up[r][j], order |-> count[r] + j - 1]
        BY DEF Images
    <2>4. a.path = up[r][i] /\ b.path = up[r][j]
        BY <2>2, <2>3
    <2> QED
        BY <2>1, <2>2, <2>3, <2>4
<1>5. \A o \in Owner : \A image \in gallery'[o] :
          image \in gallery[o] \/ (o = owner[r] /\ image \in Images(r))
    BY <1>1
<1>6. Free(r)' /\ \A q \in Request \ {r} : UNCHANGED <<pc[q], owner[q], up[q], seen[q]>>
    BY <1>1, AnswerFrees
<1>7. RowsHaveFiles'
    BY <1>1, <1>3, <1>5 DEF RowsHaveFiles, UploadsOwned
<1>8. RowsDistinct'
    <2>1. \A o, v \in Owner : \A image \in gallery'[v] : cover[o] # image.path
        BY <1>3, <1>5 DEF RowsDistinct, UploadsOwned, Unnamed
    <2>2. \A v \in Owner : \A a \in Images(r), b \in gallery[v] : a.path # b.path
        BY <1>3 DEF UploadsOwned, Unnamed
    <2>3. \A o, v \in Owner : \A a \in gallery'[o], b \in gallery'[v] :
              a.path = b.path => o = v /\ a = b
        <3> SUFFICES ASSUME NEW o \in Owner, NEW v \in Owner, NEW a \in gallery'[o],
                            NEW b \in gallery'[v], a.path = b.path
                     PROVE  o = v /\ a = b
            OBVIOUS
        <3>1. CASE a \in gallery[o] /\ b \in gallery[v]
            BY <3>1 DEF RowsDistinct
        <3>2. CASE a \in gallery[o] /\ b \notin gallery[v]
            BY <1>5, <2>2, <3>2
        <3>3. CASE a \notin gallery[o] /\ b \in gallery[v]
            BY <1>5, <2>2, <3>3
        <3>4. CASE a \notin gallery[o] /\ b \notin gallery[v]
            BY <1>5, <1>4, <3>4
        <3> QED
            BY <3>1, <3>2, <3>3, <3>4
    <2> QED
        BY <1>1, <2>1, <2>3 DEF RowsDistinct
<1>9. UploadsOwned'
    <2>1. \A q \in Request, i \in Index : Live(q, i)' => q # r /\ Live(q, i) /\ up'[q] = up[q]
        BY <1>6 DEF Live, Free
    <2>2. \A q \in Request \ {r}, i \in Index : Live(q, i) => Unnamed(up[q][i])'
        <3> SUFFICES ASSUME NEW q \in Request \ {r}, NEW i \in Index, Live(q, i)
                     PROVE  Unnamed(up[q][i])'
            OBVIOUS
        <3>1. Unnamed(up[q][i])
            BY DEF UploadsOwned
        <3>2. \A image \in Images(r) : image.path # up[q][i]
            BY <1>3 DEF UploadsOwned
        <3>3. up'[q][i] = up[q][i]
            BY <1>6
        <3> QED
            BY <1>1, <1>5, <3>1, <3>2, <3>3 DEF Unnamed
    <2>3. \A q \in Request, i \in Index, s \in Request : Live(q, i)' => seen'[s] # up'[q][i]
        BY <1>6, <2>1 DEF UploadsOwned, Live, Free
    <2> QED
        BY <1>1, <2>1, <2>2, <2>3 DEF UploadsOwned, Unnamed
<1>10. SeenIsOld'
    BY <1>1, <1>3, <1>5, <1>6 DEF SeenIsOld, UploadsOwned, Free
<1>11. EmptyHanded'
    <2>1. EmptyHanded
        OBVIOUS
    <2> HIDE DEF Types, TypeOK, Paths
    <2> QED
        BY <1>6, <2>1 DEF EmptyHanded, Free
<1> QED
    BY <1>7, <1>8, <1>9, <1>10, <1>11

\* A row that names the first file of a replacement: the owner's old path, if
\* there was one, is no row's any more.
CoverSet(r) ==
    /\ pc[r] = "replace" /\ Live(r, 1) /\ owner[r] \in Owner
    /\ cover' = [cover EXCEPT ![owner[r]] = up[r][1]]
    /\ UNCHANGED <<gallery, files, used>>
    /\ \A q \in Request \ {r} : UNCHANGED <<pc[q], owner[q], up[q], seen[q]>>
    /\ \/ Free(r)'
       \/ pc'[r] = "delete" /\ UNCHANGED <<owner[r], up[r], seen[r]>>

\* It keeps the paths.
LEMMA CoverPaths ==
    ASSUME Types, Types', Paths, NEW r \in Request, CoverSet(r)
    PROVE  Paths'
<1> USE NullAssumption, BoundsAssumption DEF Paths
<1> DEFINE p == up[r][1]
<1>0. 1 \in Index
    BY DEF Index
<1>1. /\ p \in files /\ p # NoPath /\ Unnamed(p) /\ \A q \in Request : seen[q] # p
      /\ \A q \in Request, j \in Index : Live(q, j) /\ up[q][j] = p => q = r
    BY <1>0 DEF CoverSet, UploadsOwned, Live
<1>2. \A o \in Owner : cover'[o] = IF o = owner[r] THEN p ELSE cover[o]
    BY DEF CoverSet, Types, TypeOK
<1>3. UNCHANGED <<gallery, files, used>>
    BY DEF CoverSet
<1>4. \A q \in Request \ {r} : UNCHANGED <<pc[q], owner[q], up[q], seen[q]>>
    BY DEF CoverSet
<1>5. \A i \in Index : ~Live(r, i)'
    BY DEF CoverSet, Live, Free, Uploading
<1> HIDE DEF p
<1>6. RowsHaveFiles'
    BY <1>1, <1>2, <1>3 DEF RowsHaveFiles
<1>7. RowsDistinct'
    BY <1>1, <1>2, <1>3 DEF RowsDistinct, Unnamed
<1>8. \A q \in Request : seen'[q] \in {seen[q], NoPath}
    BY <1>4 DEF CoverSet, Free
<1>9. UploadsOwned'
    <2> SUFFICES ASSUME NEW q \in Request, NEW i \in Index, Live(q, i)'
                 PROVE  /\ up'[q][i] \in files' /\ Unnamed(up[q][i])'
                        /\ \A s \in Request : seen'[s] # up'[q][i]
                        /\ \A s \in Request, j \in Index :
                               Live(s, j)' /\ up'[s][j] = up'[q][i] => s = q /\ j = i
        BY DEF UploadsOwned
    <2>1. \A s \in Request, j \in Index :
              Live(s, j)' => s # r /\ Live(s, j) /\ up'[s][j] = up[s][j]
        BY <1>4, <1>5 DEF Live
    <2>2. q # r /\ Live(q, i) /\ up'[q][i] = up[q][i] /\ up[q][i] # NoPath
        BY <2>1 DEF Live
    <2>3. up[q][i] # p
        BY <1>1, <2>2
    <2>4. Unnamed(up[q][i])'
        BY <1>2, <1>3, <2>2, <2>3 DEF UploadsOwned, Unnamed
    <2>5. up[q][i] \in files' /\ \A s \in Request : seen'[s] # up[q][i]
        BY <1>3, <1>8, <2>2 DEF UploadsOwned
    <2> QED
        BY <2>1, <2>2, <2>4, <2>5 DEF UploadsOwned
<1>10. SeenIsOld'
    <2> SUFFICES ASSUME NEW q \in Request, seen'[q] # NoPath
                 PROVE  /\ pc'[q] \in {"replace", "delete"} /\ seen'[q] \in used'
                        /\ \A o \in Owner : cover'[o] = seen'[q] => o = owner'[q] /\ pc'[q] = "replace"
                        /\ \A o \in Owner : \A image \in gallery'[o] : image.path # seen'[q]
        BY DEF SeenIsOld
    <2>1. /\ seen'[q] = seen[q] /\ owner'[q] = owner[q] /\ seen[q] # p
          /\ IF q = r THEN pc'[q] = "delete" ELSE pc'[q] = pc[q]
        BY <1>1, <1>4 DEF CoverSet, Free
    <2> QED
        BY <1>2, <1>3, <2>1 DEF SeenIsOld
<1>11. EmptyHanded'
    BY <1>4 DEF CoverSet, EmptyHanded, Free
<1> QED
    BY <1>6, <1>7, <1>9, <1>10, <1>11

\* The saves of replaceOne keep the paths.
LEMMA ReplacePaths ==
    ASSUME Types, Types', Paths, NEW r \in Request, Create(r) \/ Merge(r)
    PROVE  Paths'
<1>1. pc[r] = "replace" /\ owner[r] \in Owner /\ Pending(r) = {} /\ 1 \in 1 .. size[r]
    BY BoundsAssumption DEF Create, Merge, Types, Served, Index
<1>2. Live(r, 1)
    BY <1>1 DEF Pending, Live, Uploading
<1>3. CASE Answer(r)
    <2>1. Free(r)' /\ \A q \in Request \ {r} : UNCHANGED <<pc[q], owner[q], up[q], seen[q]>>
        BY <1>3, AnswerFrees
    <2>2. UNCHANGED <<gallery, files, used>> /\ cover' \in {cover, [cover EXCEPT ![owner[r]] = up[r][1]]}
        BY DEF Create, Merge, store
    <2>3. CASE cover' = cover
        BY <2>1, <2>2, <2>3, QuietPaths DEF tables
    <2>4. CASE cover' = [cover EXCEPT ![owner[r]] = up[r][1]]
        BY <1>1, <1>2, <2>1, <2>2, <2>4, CoverPaths DEF CoverSet
    <2> QED
        BY <2>2, <2>3, <2>4
<1>4. CASE Merge(r) /\ discard[r]
    <2>1. /\ pc' = [pc EXCEPT ![r] = "delete"] /\ UNCHANGED <<owner, up, seen, gallery, files, used>>
          /\ cover' = [cover EXCEPT ![owner[r]] = up[r][1]]
        BY <1>4 DEF Merge, store
    <2>2. CoverSet(r)
        BY <1>1, <1>2, <2>1 DEF CoverSet, Types, TypeOK
    <2> QED
        BY <2>2, CoverPaths
<1> QED
    BY <1>3, <1>4 DEF Create, Merge, Finish

\* The path replaceOne deletes is in no row.
LEMMA DeletePaths ==
    ASSUME Types, Types', Paths, NEW r \in Request, DeletePrevious(r)
    PROVE  Paths'
<1> USE DEF Paths
<1>1. /\ pc[r] = "delete" /\ files' = files \ {seen[r]} /\ UNCHANGED <<cover, gallery, used>>
      /\ Free(r)' /\ \A q \in Request \ {r} : UNCHANGED <<pc[q], owner[q], up[q], seen[q]>>
    BY AnswerFrees DEF DeletePrevious, Finish, tables
<1>2. RowsHaveFiles'
    <2>1. CASE seen[r] = NoPath
        <3>1. NoPath \notin files
            BY NullAssumption DEF Types, TypeOK
        <3> QED
            BY <1>1, <2>1, <3>1 DEF RowsHaveFiles
    <2>2. CASE seen[r] # NoPath
        BY <1>1, <2>2 DEF RowsHaveFiles, SeenIsOld
    <2> QED
        BY <2>1, <2>2
<1>3. RowsDistinct'
    BY <1>1 DEF RowsDistinct
<1>4. \A q \in Request, i \in Index : Live(q, i)' => Live(q, i) /\ up'[q][i] = up[q][i]
    BY <1>1 DEF Live, Free
<1>5. UploadsOwned'
    <2>1. \A q \in Request : seen'[q] \in {seen[q], NoPath}
        BY <1>1 DEF Free
    <2> QED
        BY <1>1, <1>4, <2>1 DEF UploadsOwned, Unnamed, Live
<1>6. SeenIsOld'
    BY <1>1 DEF SeenIsOld, Free
<1>7. EmptyHanded'
    BY <1>1 DEF EmptyHanded, Free
<1> QED
    BY <1>2, <1>3, <1>5, <1>6, <1>7

\* A picture that is removed takes a file no other row and no call names.
LEMMA RemovePaths ==
    ASSUME Types, Types', Paths, NEW o \in Owner, NEW image \in gallery[o], RemoveImage(o, image)
    PROVE  Paths'
<1> USE DEF Paths
<1>1. /\ files' = files \ {image.path} /\ UNCHANGED <<cover, used, pc, owner, up, seen>>
      /\ \A v \in Owner : gallery'[v] = IF v = o THEN gallery[o] \ {image} ELSE gallery[v]
    BY DEF RemoveImage, call, Types, TypeOK
<1>2. RowsHaveFiles'
    BY <1>1 DEF RowsHaveFiles, RowsDistinct
<1>3. RowsDistinct'
    BY <1>1 DEF RowsDistinct
<1>4. \A q \in Request, i \in Index : Live(q, i)' <=> Live(q, i)
    BY <1>1 DEF Live
<1>5. UploadsOwned'
    BY <1>1, <1>4 DEF UploadsOwned, Unnamed
<1>6. SeenIsOld' /\ EmptyHanded'
    BY <1>1 DEF SeenIsOld, EmptyHanded
<1> QED
    BY <1>2, <1>3, <1>5, <1>6

-----------------------------------------------------------------------------
\* Every step keeps the two invariants.
LEMMA NextTypesPaths == Types /\ Paths /\ [Next]_vars => Types' /\ Paths'
<1> SUFFICES ASSUME Types, Paths, [Next]_vars PROVE Types' /\ Paths'
    OBVIOUS
<1>1. Types'
    BY NextTypes
<1>2. CASE UNCHANGED vars
    <2>1. UNCHANGED <<tables, files, used, pc, owner, up, seen>>
        BY <1>2 DEF vars, store, call
    <2> QED
        BY <1>1, <2>1, QuietPaths
<1>3. CASE Next
    BY <1>1, <1>3, OtherPaths, FindPaths, UploadPaths, SavePaths, ReplacePaths, DeletePaths,
       RemovePaths
<1> QED
    BY <1>1, <1>2, <1>3

-----------------------------------------------------------------------------
\* A call that uploads fits what it counted, and its owner's gallery has grown by no
\* more than what others have added since.
CountsKept ==
    \A r \in Request : pc[r] = "append" =>
        /\ count[r] + size[r] <= Maximum
        /\ Cardinality(gallery[owner[r]]) <= count[r] + joined[r]

\* While an owner has lost nothing, the order numbers are below the number of its
\* pictures, and no call has counted more than there are.
OrdersKept ==
    \A o \in Owner \ removed :
        /\ \A image \in gallery[o] : image.order < Cardinality(gallery[o])
        /\ \A r \in Request : pc[r] = "append" /\ owner[r] = o => count[r] <= Cardinality(gallery[o])

Counts == CountsKept /\ OrdersKept

\* The rows of a call are as many as its files, and new.
LEMMA ImagesCount ==
    ASSUME Types, Paths, NEW r \in Request, SaveImages(r)
    PROVE  /\ IsFiniteSet(Images(r)) /\ Cardinality(Images(r)) = size[r]
           /\ \A o \in Owner : gallery[o] \cap Images(r) = {}
<1> DEFINE S == 1 .. size[r]
           f == [i \in S |-> [path |-> up[r][i], order |-> count[r] + i - 1]]
<1>1. size[r] \in Nat /\ size[r] <= MaxFiles
    BY BoundsAssumption DEF Types, TypeOK
<1>2. IsFiniteSet(S) /\ Cardinality(S) = size[r]
    BY <1>1, FS_Interval
<1>3. \A i \in S : i \in Index /\ Live(r, i)
    <2>1. \A i \in S : i \in Index /\ up[r][i] # NoPath
        BY <1>1, BoundsAssumption DEF SaveImages, Pending, Index
    <2> QED
        BY <2>1 DEF SaveImages, Live, Uploading
<1>4. \A i, j \in S : up[r][i] = up[r][j] => i = j
    BY <1>3 DEF Paths, UploadsOwned
<1>5. f \in Surjection(S, Images(r))
    BY DEF Surjection, Images
<1>6. \A i \in S : f[i].path = up[r][i]
    OBVIOUS
<1>7. \A image \in Images(r) : \E i \in S : image.path = up[r][i]
    BY DEF Images
<1> HIDE DEF f, S
<1>8. f \in [S -> Images(r)] /\ \A i, j \in S : f[i] = f[j] => i = j
    BY <1>4, <1>5, <1>6 DEF Surjection
<1>9. f \in Injection(S, Images(r))
    BY <1>8 DEF Injection, IsInjective
<1>10. IsFiniteSet(Images(r)) /\ Cardinality(Images(r)) = size[r]
    BY <1>2, <1>5, <1>9, FS_Surjection
<1>11. \A o \in Owner : gallery[o] \cap Images(r) = {}
    BY <1>3, <1>7 DEF Paths, UploadsOwned, Unnamed
<1> QED
    BY <1>10, <1>11

\* What saving makes of the galleries and of the counts.
LEMMA SaveCounts ==
    ASSUME Types, Types', Paths, Counts, NEW r \in Request, SaveImages(r)
    PROVE  /\ owner[r] \in Owner /\ pc[r] = "append"
           /\ \A o \in Owner : gallery'[o] = IF o = owner[r] THEN gallery[o] \cup Images(r) ELSE gallery[o]
           /\ \A o \in Owner : Cardinality(gallery'[o]) =
                  IF o = owner[r] THEN Cardinality(gallery[o]) + size[r] ELSE Cardinality(gallery[o])
<1>1. owner[r] \in Owner /\ pc[r] = "append"
    BY DEF SaveImages, Types, Served
<1>2. \A o \in Owner : gallery'[o] = IF o = owner[r] THEN gallery[o] \cup Images(r) ELSE gallery[o]
    BY DEF SaveImages, Types, TypeOK
<1>3. IsFiniteSet(gallery[owner[r]]) /\ IsFiniteSet(Images(r)) /\ Cardinality(Images(r)) = size[r]
      /\ gallery[owner[r]] \cap Images(r) = {}
    BY <1>1, ImagesCount DEF Types, FiniteGalleries
<1>4. Cardinality(gallery[owner[r]] \cup Images(r)) =
          Cardinality(gallery[owner[r]]) + size[r] - Cardinality({})
    BY <1>3, FS_Union
<1>5. Cardinality({}) = 0 /\ Cardinality(gallery[owner[r]]) \in Nat /\ size[r] \in Nat
    BY <1>3, FS_EmptySet, FS_CardinalityType, BoundsAssumption DEF Types, TypeOK
<1>6. Cardinality(gallery[owner[r]] \cup Images(r)) = Cardinality(gallery[owner[r]]) + size[r]
    BY <1>4, <1>5
<1> QED
    BY <1>1, <1>2, <1>6

\* A step keeps the counts if it leaves the galleries and whoever uploads alone.
LEMMA QuietCounts ==
    ASSUME Types, Counts, UNCHANGED <<gallery, removed>>,
           \A q \in Request : pc'[q] = "append" =>
               pc[q] = "append" /\ UNCHANGED <<owner[q], size[q], count[q], joined[q]>>
    PROVE  Counts'
<1>1. CountsKept'
    BY DEF Counts, CountsKept
<1>2. OrdersKept'
    BY DEF Counts, OrdersKept
<1> QED
    BY <1>1, <1>2 DEF Counts

\* An answer leaves the uploads of the others alone.
LEMMA FinishUploads ==
    ASSUME Types, NEW r \in Request, Finish(r)
    PROVE  \A q \in Request : pc'[q] = "append" =>
               pc[q] = "append" /\ UNCHANGED <<owner[q], size[q], count[q], joined[q]>>
BY DEF Types, TypeOK, Finish, Answer

\* The count and the save of appendMany keep the counts.
LEMMA AppendCounts ==
    ASSUME Types, Types', Paths, Counts, NEW r \in Request, CountImages(r) \/ SaveImages(r)
    PROVE  Counts'
<1>0. \A o \in Owner : Cardinality(gallery[o]) \in Nat
    BY FS_CardinalityType DEF Types, FiniteGalleries
<1>n. \A q \in Request : count[q] \in Nat /\ size[q] \in Nat /\ joined[q] \in Nat
    BY BoundsAssumption DEF Types, TypeOK
<1>o. \A q \in Request : pc[q] = "append" => owner[q] \in Owner
    BY DEF Types, Served
<1>1. CASE CountImages(r)
    <2> DEFINE n == Cardinality(gallery[owner[r]])
    <2>1. pc[r] = "count" /\ owner[r] \in Owner /\ n \in Nat /\ UNCHANGED <<gallery, removed>>
        BY <1>0, <1>1 DEF CountImages, Types, Served, tables
    <2>2. CASE n + size[r] > Maximum
        BY <1>1, <2>1, <2>2, FinishUploads, QuietCounts DEF CountImages
    <2>3. CASE ~(n + size[r] > Maximum)
        <3>1. /\ pc' = [pc EXCEPT ![r] = "append"] /\ count' = [count EXCEPT ![r] = n]
              /\ UNCHANGED <<owner, size, joined>>
            BY <1>1, <2>3 DEF CountImages, BeginUploads
        <3>2. /\ pc'[r] = "append" /\ count'[r] = n
              /\ \A q \in Request \ {r} : pc'[q] = pc[q] /\ count'[q] = count[q]
            BY <3>1 DEF Types, TypeOK
        <3>3. n + size[r] <= Maximum
            BY <1>n, <2>1, <2>3, BoundsAssumption
        <3>4. CountsKept'
            BY <1>n, <2>1, <3>1, <3>2, <3>3 DEF Counts, CountsKept
        <3>5. OrdersKept'
            BY <2>1, <3>1, <3>2 DEF Counts, OrdersKept
        <3> QED
            BY <3>4, <3>5 DEF Counts
    <2> QED
        BY <2>2, <2>3
<1>2. CASE SaveImages(r)
    <2>1. /\ pc'[r] = "idle" /\ removed' = removed
          /\ \A q \in Request \ {r} : UNCHANGED <<pc[q], owner[q], size[q], count[q]>>
          /\ \A q \in Request \ {r} : pc[q] = "append" =>
                joined'[q] = IF owner[q] = owner[r] THEN joined[q] + size[r] ELSE joined[q]
        BY <1>2, AnswerCalls DEF SaveImages, Types
    <2>2. CountsKept'
        <3> SUFFICES ASSUME NEW q \in Request, pc'[q] = "append"
                     PROVE  /\ count'[q] + size'[q] <= Maximum
                            /\ Cardinality(gallery'[owner'[q]]) <= count'[q] + joined'[q]
            BY DEF CountsKept
        <3>1. q # r /\ pc[q] = "append" /\ owner[q] \in Owner
            BY <1>o, <2>1
        <3>2. count[q] + size[q] <= Maximum /\ Cardinality(gallery[owner[q]]) <= count[q] + joined[q]
            BY <3>1 DEF Counts, CountsKept
        <3> QED
            BY <1>0, <1>2, <1>n, <2>1, <3>1, <3>2, SaveCounts
    <2>3. OrdersKept'
        <3> SUFFICES ASSUME NEW o \in Owner, o \notin removed
                     PROVE  /\ \A image \in gallery'[o] : image.order < Cardinality(gallery'[o])
                            /\ \A q \in Request : pc'[q] = "append" /\ owner'[q] = o =>
                                   count'[q] <= Cardinality(gallery'[o])
            BY <2>1 DEF OrdersKept
        <3>1. Cardinality(gallery[o]) <= Cardinality(gallery'[o])
            BY <1>0, <1>2, <1>n, SaveCounts
        <3>2. \A q \in Request : pc'[q] = "append" /\ owner'[q] = o => count'[q] <= Cardinality(gallery'[o])
            <4> SUFFICES ASSUME NEW q \in Request, pc'[q] = "append", owner'[q] = o
                         PROVE  count'[q] <= Cardinality(gallery'[o])
                OBVIOUS
            <4>1. pc[q] = "append" /\ owner[q] = o /\ count'[q] = count[q]
                BY <2>1
            <4>2. count[q] <= Cardinality(gallery[o])
                BY <4>1 DEF Counts, OrdersKept
            <4>3. Cardinality(gallery'[o]) \in Nat
                BY <1>0, <1>2, <1>n, SaveCounts
            <4> QED
                BY <1>0, <1>n, <3>1, <4>1, <4>2, <4>3
        <3>3. \A image \in gallery'[o] : image.order < Cardinality(gallery'[o])
            <4> SUFFICES ASSUME NEW image \in gallery'[o]
                         PROVE  image.order < Cardinality(gallery'[o])
                OBVIOUS
            <4>1. CASE image \in gallery[o]
                <5>1. image.order < Cardinality(gallery[o]) /\ image.order \in Nat
                    BY <4>1 DEF Counts, OrdersKept, Types, TypeOK, Image
                <5>2. Cardinality(gallery'[o]) \in Nat
                    BY <1>0, <1>2, <1>n, SaveCounts
                <5> QED
                    BY <1>0, <3>1, <5>1, <5>2
            <4>2. CASE image \notin gallery[o]
                <5>1. o = owner[r] /\ image \in Images(r)
                    BY <1>2, <4>2, SaveCounts
                <5>2. PICK i \in 1 .. size[r] : image = [path |-> up[r][i], order |-> count[r] + i - 1]
                    BY <5>1 DEF Images
                <5>3. image.order = count[r] + i - 1
                    BY <5>2
                <5>4. count[r] <= Cardinality(gallery[o])
                    BY <1>2, <5>1, SaveCounts DEF Counts, OrdersKept
                <5>5. Cardinality(gallery'[o]) = Cardinality(gallery[o]) + size[r]
                    BY <1>2, <5>1, SaveCounts
                <5> QED
                    BY <1>0, <1>n, <5>3, <5>4, <5>5
            <4> QED
                BY <4>1, <4>2
        <3> QED
            BY <3>2, <3>3
    <2> QED
        BY <2>2, <2>3 DEF Counts
<1> QED
    BY <1>1, <1>2

\* A picture less keeps the counts, and its owner's order numbers out of them.
LEMMA RemoveCounts ==
    ASSUME Types, Counts, NEW o \in Owner, NEW image \in gallery[o], RemoveImage(o, image)
    PROVE  Counts'
<1>1. /\ removed' = removed \cup {o} /\ UNCHANGED <<pc, owner, size, count, joined>>
      /\ \A v \in Owner : gallery'[v] = IF v = o THEN gallery[o] \ {image} ELSE gallery[v]
    BY DEF RemoveImage, call, Types, TypeOK
<1>2. Cardinality(gallery[o]) \in Nat /\ Cardinality(gallery[o] \ {image}) = Cardinality(gallery[o]) - 1
    BY FS_RemoveElement, FS_CardinalityType DEF Types, FiniteGalleries
<1>3. CountsKept'
    <2> SUFFICES ASSUME NEW q \in Request, pc[q] = "append"
                 PROVE  /\ count[q] + size[q] <= Maximum
                        /\ Cardinality(gallery'[owner[q]]) <= count[q] + joined[q]
        BY <1>1 DEF CountsKept
    <2>1. /\ owner[q] \in Owner /\ count[q] + size[q] <= Maximum
          /\ Cardinality(gallery[owner[q]]) <= count[q] + joined[q]
          /\ count[q] \in Nat /\ joined[q] \in Nat
        BY DEF Counts, CountsKept, Types, TypeOK, Served
    <2>2. CASE owner[q] = o
        BY <1>1, <1>2, <2>1, <2>2
    <2>3. CASE owner[q] # o
        BY <1>1, <2>1, <2>3
    <2> QED
        BY <2>2, <2>3
<1>4. OrdersKept'
    BY <1>1 DEF Counts, OrdersKept
<1> QED
    BY <1>3, <1>4 DEF Counts

\* Every step keeps the counts.
LEMMA NextCounts == Types /\ Types' /\ Paths /\ Counts /\ [Next]_vars => Counts'
<1> SUFFICES ASSUME Types, Types', Paths, Counts, [Next]_vars PROVE Counts'
    OBVIOUS
<1>1. ASSUME NEW r \in Request, NEW o, NEW n, NEW stage \in {"count", "find"}, NEW d,
             Start(r, o, stage, n, d)
      PROVE  Counts'
    BY <1>1, QuietCounts DEF Start, Types, TypeOK, tables
<1>2. ASSUME NEW r \in Request, Step(r)
      PROVE  Counts'
    <2>1. CASE CountImages(r) \/ SaveImages(r)
        BY <2>1, AppendCounts
    <2>2. CASE FindExisting(r)
        BY <2>2, QuietCounts DEF FindExisting, BeginUploads, Types, TypeOK, tables, history
    <2>3. CASE \E i \in Index, p \in Path : Upload(r, i, p)
        BY <2>3, QuietCounts DEF Upload, tables, history
    <2>4. CASE Create(r) \/ DeletePrevious(r)
        BY <2>4, QuietCounts, FinishUploads DEF Create, DeletePrevious, tables
    <2>5. CASE Merge(r) /\ discard[r]
        BY <2>5, QuietCounts DEF Merge, Types, TypeOK
    <2>6. CASE Merge(r) /\ ~discard[r]
        BY <2>6, QuietCounts, FinishUploads DEF Merge
    <2> QED
        BY <1>2, <2>1, <2>2, <2>3, <2>4, <2>5, <2>6 DEF Step
<1>3. ASSUME NEW r \in Request, Fail(r) \/ \E left \in Left : UploadFails(r, left)
      PROVE  Counts'
    BY <1>3, QuietCounts, FinishUploads DEF Fail, UploadFails, tables
<1>4. CASE ImportFails
    BY <1>4, QuietCounts DEF ImportFails, Types, TypeOK, tables
<1>5. CASE Restart
    BY <1>5, QuietCounts DEF Restart, Types, TypeOK, tables
<1>6. CASE ImportResolves \/ (\E left \in Left : StrayUpload(left))
           \/ (\E o \in Owner : Snapshot(o)) \/ UNCHANGED vars
    <2>1. UNCHANGED <<tables, call, joined, removed>>
        BY <1>6 DEF ImportResolves, StrayUpload, Snapshot, vars, history
    <2> QED
        BY <2>1, QuietCounts DEF tables, call
<1>7. ASSUME NEW o \in Owner, NEW image \in gallery[o], RemoveImage(o, image)
      PROVE  Counts'
    BY <1>7, RemoveCounts
<1> QED
    BY <1>1, <1>2, <1>3, <1>4, <1>5, <1>6, <1>7 DEF Next, StartAppend, StartReplace

\* The inductive invariant.
IInv == Types /\ Paths /\ Counts

\* It holds at the start and is kept.
LEMMA Inductive == (Init => IInv) /\ (IInv /\ [Next]_vars => IInv')
<1>1. Init => IInv
    <2>1. Init => Counts
        BY DEF Init, Counts, CountsKept, OrdersKept
    <2> QED
        BY <2>1, InitTypesPaths DEF IInv
<1>2. IInv /\ [Next]_vars => IInv'
    BY NextTypesPaths, NextCounts DEF IInv
<1> QED
    BY <1>1, <1>2

\* Only a save of appendMany ends its uploads with the gallery changed.
LEMMA SavesSave ==
    ASSUME IInv, NEW r \in Request, [Next]_vars, Saves(r)
    PROVE  SaveImages(r)
<1>1. CASE UNCHANGED vars
    BY <1>1 DEF Saves, vars, tables
<1>2. CASE Next
    <2>1. ASSUME NEW q \in Request, SaveImages(q)
          PROVE  q = r
        BY <2>1, AnswerCalls DEF Saves, SaveImages, IInv, Types
    <2>2. \A o \in Owner : \A image \in gallery[o] : ~RemoveImage(o, image)
        BY DEF Saves, RemoveImage, call
    <2>3. \E q \in Request : SaveImages(q)
        BY <1>2, <2>2 DEF Saves, Next, Step, StartAppend, StartReplace, Start, CountImages,
           FindExisting, Upload, Create, Merge, DeletePrevious, UploadFails, Fail, ImportResolves,
           ImportFails, StrayUpload, Restart, Snapshot, tables
    <2> QED
        BY <2>1, <2>3
<1> QED
    BY <1>1, <1>2

-----------------------------------------------------------------------------
\* ImageAttachmentService keeps its types, for any bounds.
THEOREM TypeCorrect == Spec => []TypeOK
<1>1. IInv => TypeOK
    BY DEF IInv, Types
<1> QED
    BY Inductive, <1>1, PTL DEF Spec

\* A row names a file that is there, for any number of owners, calls, files and
\* failures: replaceOne and appendMany never delete what a row names.
THEOREM RowsAlwaysHaveFiles == Spec => []RowsHaveFiles
<1>1. IInv => RowsHaveFiles
    BY DEF IInv, Paths
<1> QED
    BY Inductive, <1>1, PTL DEF Spec

\* For any maximum and any number of overlapping calls, a save of appendMany exceeds
\* the maximum by no more than what others added since its count.
THEOREM OverrunsAreOverlaps == Spec => OverrunIsOverlap
<1>1. IInv /\ IInv' /\ [Next]_vars =>
          [\A r \in Request : Saves(r) =>
              Cardinality(gallery'[owner[r]]) <= Maximum + joined[r]]_vars
    <2> SUFFICES ASSUME IInv, IInv', [Next]_vars, NEW r \in Request, Saves(r)
                 PROVE  Cardinality(gallery'[owner[r]]) <= Maximum + joined[r]
        OBVIOUS
    <2>1. SaveImages(r)
        BY SavesSave
    <2>2. owner[r] \in Owner /\ pc[r] = "append"
          /\ Cardinality(gallery'[owner[r]]) = Cardinality(gallery[owner[r]]) + size[r]
        BY <2>1, SaveCounts DEF IInv
    <2>3. Cardinality(gallery[owner[r]]) \in Nat
        BY <2>2, FS_CardinalityType DEF IInv, Types, FiniteGalleries
    <2>4. count[r] \in Nat /\ size[r] \in Nat /\ joined[r] \in Nat
        BY BoundsAssumption DEF IInv, Types, TypeOK
    <2>5. count[r] + size[r] <= Maximum /\ Cardinality(gallery[owner[r]]) <= count[r] + joined[r]
        BY <2>2 DEF IInv, Counts, CountsKept
    <2> QED
        BY <2>2, <2>3, <2>4, <2>5, BoundsAssumption
<1> QED
    BY Inductive, <1>1, PTL DEF Spec, OverrunIsOverlap

\* Undisturbed, new pictures come last, for any number of pictures and calls.
THEOREM AppendedAlwaysLast == Spec => AppendedLast
<1>1. IInv /\ IInv' /\ [Next]_vars =>
          [\A r \in Request : Saves(r) /\ joined[r] = 0 /\ owner[r] \notin removed =>
              \A new \in gallery'[owner[r]] \ gallery[owner[r]], old \in gallery[owner[r]] :
                  old.order < new.order]_vars
    <2> SUFFICES ASSUME IInv, IInv', [Next]_vars, NEW r \in Request, Saves(r), joined[r] = 0,
                        owner[r] \notin removed
                 PROVE  \A new \in gallery'[owner[r]] \ gallery[owner[r]], old \in gallery[owner[r]] :
                            old.order < new.order
        OBVIOUS
    <2> TAKE new \in gallery'[owner[r]] \ gallery[owner[r]], old \in gallery[owner[r]]
    <2>1. SaveImages(r)
        BY SavesSave
    <2>2. /\ owner[r] \in Owner /\ pc[r] = "append"
          /\ gallery'[owner[r]] = gallery[owner[r]] \cup Images(r)
        BY <2>1, SaveCounts DEF IInv
    <2>3. new \in Images(r)
        BY <2>2
    <2>4. PICK i \in 1 .. size[r] : new = [path |-> up[r][i], order |-> count[r] + i - 1]
        BY <2>3 DEF Images
    <2>5. new.order = count[r] + i - 1
        BY <2>4
    <2>6. old.order < Cardinality(gallery[owner[r]]) /\ Cardinality(gallery[owner[r]]) <= count[r] + 0
        BY <2>2 DEF IInv, Counts, CountsKept, OrdersKept
    <2>7. Cardinality(gallery[owner[r]]) \in Nat /\ old.order \in Nat
        BY <2>2, FS_CardinalityType DEF IInv, Types, FiniteGalleries, TypeOK, Image
    <2>8. count[r] \in Nat /\ size[r] \in Nat
        BY BoundsAssumption DEF IInv, Types, TypeOK
    <2> QED
        BY <2>5, <2>6, <2>7, <2>8
<1> QED
    BY Inductive, <1>1, PTL DEF Spec, AppendedLast
-----------------------------------------------------------------------------
(* A snapshot is a promise.                                                 *)

\* What a snapshot left an owner is no more than what remains now.
PromisesHold == \A o \in Owner : promised[o] <= Remaining(Cardinality(gallery[o]))

\* Only a save makes less remain, and it withdraws the promise.
LEMMA NextPromises == Types /\ PromisesHold /\ [Next]_vars => PromisesHold'
<1> SUFFICES ASSUME Types, PromisesHold, [Next]_vars PROVE PromisesHold'
    OBVIOUS
<1>0. \A o \in Owner : promised[o] \in Nat /\ Cardinality(gallery[o]) \in Nat
    BY FS_CardinalityType DEF Types, TypeOK, FiniteGalleries
<1>1. ASSUME NEW r \in Request, SaveImages(r) PROVE PromisesHold'
    <2>1. pc[r] = "append" /\ owner[r] \in Owner
        BY <1>1 DEF SaveImages, Types, Served
    <2>2. /\ promised' = [promised EXCEPT ![owner[r]] = 0]
          /\ \A o \in Owner \ {owner[r]} : gallery'[o] = gallery[o]
        BY <1>1 DEF SaveImages, Types, TypeOK
    <2>3. promised'[owner[r]] = 0 /\ \A o \in Owner \ {owner[r]} : promised'[o] = promised[o]
        BY <2>1, <2>2 DEF Types, TypeOK
    <2>4. 0 <= Remaining(Cardinality(gallery'[owner[r]]))
        <3>1. IsFiniteSet(gallery[owner[r]] \cup Images(r))
            BY <2>1, ImagesFinite, FS_Union DEF Types, FiniteGalleries
        <3>2. gallery'[owner[r]] = gallery[owner[r]] \cup Images(r)
            BY <1>1, <2>1 DEF SaveImages, Types, TypeOK
        <3>3. Cardinality(gallery'[owner[r]]) \in Nat
            BY <3>1, <3>2, FS_CardinalityType
        <3> QED
            BY <3>3, BoundsAssumption DEF Remaining
    <2> QED
        BY <2>2, <2>3, <2>4 DEF PromisesHold
<1>2. ASSUME NEW o \in Owner, Snapshot(o) PROVE PromisesHold'
    <2>1. promised' = [promised EXCEPT ![o] = Remaining(Cardinality(gallery[o]))] /\ gallery' = gallery
        BY <1>2 DEF Snapshot, tables
    <2>2. Remaining(Cardinality(gallery[o])) \in Int
        BY <1>0, BoundsAssumption DEF Remaining
    <2> QED
        BY <2>1, <2>2 DEF PromisesHold, Types, TypeOK
<1>3. ASSUME NEW o \in Owner, NEW image \in gallery[o], RemoveImage(o, image) PROVE PromisesHold'
    <2>1. /\ promised' = promised
          /\ \A v \in Owner : gallery'[v] = IF v = o THEN gallery[o] \ {image} ELSE gallery[v]
        BY <1>3 DEF RemoveImage, Types, TypeOK
    <2>2. Cardinality(gallery[o] \ {image}) = Cardinality(gallery[o]) - 1
        BY FS_RemoveElement DEF Types, FiniteGalleries
    <2>3. Remaining(Cardinality(gallery[o])) <= Remaining(Cardinality(gallery[o]) - 1)
          /\ Remaining(Cardinality(gallery[o])) \in Int /\ Remaining(Cardinality(gallery[o]) - 1) \in Int
        BY <1>0, BoundsAssumption DEF Remaining
    <2>4. promised[o] <= Remaining(Cardinality(gallery[o])) /\ promised[o] \in Int
        BY <1>0 DEF PromisesHold
    <2>5. promised[o] <= Remaining(Cardinality(gallery[o]) - 1)
        BY <2>3, <2>4
    <2> QED
        BY <2>1, <2>2, <2>5 DEF PromisesHold
<1>4. CASE UNCHANGED <<gallery, promised>>
    BY <1>4 DEF PromisesHold
<1> QED
    BY <1>1, <1>2, <1>3, <1>4
    DEF Next, Step, StartAppend, StartReplace, Start, CountImages, FindExisting, Upload, Create,
        Merge, DeletePrevious, UploadFails, Fail, ImportResolves, ImportFails, StrayUpload, Restart,
        vars, tables, history

\* For any maximum, what a snapshot says remains is not refused for the limit as
\* long as nobody else adds pictures.
THEOREM SnapshotsAreKept == Spec => SnapshotKept
<1>1. Init => PromisesHold
    BY BoundsAssumption, FS_EmptySet DEF Init, PromisesHold, Remaining
<1>2. IInv /\ PromisesHold /\ [Next]_vars =>
          [\A r \in refused' \ refused : promised[owner[r]] < size[r]]_vars
    <2> SUFFICES ASSUME IInv, PromisesHold, [Next]_vars, NEW r \in refused' \ refused
                 PROVE  promised[owner[r]] < size[r]
        OBVIOUS
    <2>1. r \in Request /\ CountImages(r)
        <3>1. CASE \E q \in Request : CountImages(q)
            BY <3>1 DEF CountImages
        <3>2. CASE \A q \in Request : ~CountImages(q)
            <4>1. refused' \subseteq refused
                BY <3>2 DEF Next, Step, StartAppend, StartReplace, Start, FindExisting, Upload,
                   SaveImages, Create, Merge, DeletePrevious, UploadFails, Fail, ImportResolves,
                   ImportFails, StrayUpload, Restart, Snapshot, RemoveImage, vars, history
            <4> QED
                BY <4>1
        <3> QED
            BY <3>1, <3>2
    <2>2. pc[r] = "count" /\ owner[r] \in Owner /\ size[r] \in Nat /\ size[r] >= 1
        BY <2>1, BoundsAssumption DEF CountImages, IInv, Types, Served, Index
    <2>3. Cardinality(gallery[owner[r]]) + size[r] > Maximum
        BY <2>1 DEF CountImages
    <2>4. Cardinality(gallery[owner[r]]) \in Nat /\ promised[owner[r]] \in Nat
        BY <2>2, FS_CardinalityType DEF IInv, Types, TypeOK, FiniteGalleries
    <2>5. promised[owner[r]] <= Remaining(Cardinality(gallery[owner[r]]))
        BY <2>2 DEF PromisesHold
    <2> QED
        BY <2>2, <2>3, <2>4, <2>5, BoundsAssumption DEF Remaining
<1>3. IInv /\ PromisesHold /\ [Next]_vars => PromisesHold'
    BY NextPromises DEF IInv
<1> QED
    BY Inductive, <1>1, <1>2, <1>3, PTL DEF Spec, SnapshotKept
-----------------------------------------------------------------------------
(* Files do not pile up.  While it is calm the calls for one owner do not   *)
(* overlap, so the path a replacement has read is still its owner's.        *)

\* No two calls are for the same owner.
Alone == \A r, q \in Request : owner[r] \in Owner /\ owner[r] = owner[q] => r = q

\* A replacement brings one file; what it read of the row is true until it
\* writes the row, and the row holds its file from then on.
Current ==
    \A r \in Request :
        /\ pc[r] \in {"find", "replace", "delete"} => size[r] = 1
        /\ pc[r] = "replace" => cover[owner[r]] = seen[r]
        /\ pc[r] = "delete" => cover[owner[r]] = up[r][1]

\* A row names the file, a call holds it, or it was spared on request.
Held(p) ==
    \/ p \in spared
    \/ \E o \in Owner : cover[o] = p \/ \E image \in gallery[o] : image.path = p
    \/ \E r \in Request : seen[r] = p \/ \E i \in 1 .. size[r] : up[r][i] = p

\* The third part of the invariant, on top of IInv.
CalmInv == calm => stray = 0 /\ Alone /\ Current /\ \A p \in files : Held(p)

\* Who is alone stays so when the owners of the calls stay, or a call ends.
LEMMA AloneKept ==
    ASSUME TypeOK, Alone, NEW r \in Request, UNCHANGED owner \/ Answer(r)
    PROVE  Alone'
BY NullAssumption DEF TypeOK, Alone, Answer

\* When the cover of one owner changes, what the other calls know is true.
LEMMA CurrentForOthers ==
    ASSUME Types, Alone, Current, NEW r \in Request, owner[r] \in Owner,
           \A o \in Owner \ {owner[r]} : cover'[o] = cover[o],
           NEW q \in Request \ {r}, UNCHANGED <<pc[q], owner[q], size[q], up[q], seen[q]>>
    PROVE  /\ pc'[q] \in {"find", "replace", "delete"} => size'[q] = 1
           /\ pc'[q] = "replace" => cover'[owner'[q]] = seen'[q]
           /\ pc'[q] = "delete" => cover'[owner'[q]] = up'[q][1]
<1>1. owner[q] # owner[r]
    BY DEF Alone
<1>2. pc[q] # "idle" => owner[q] \in Owner
    BY DEF Types, Served
<1> QED
    BY <1>1, <1>2 DEF Current

\* What is held stays held when rows and spared files stay and only calls that
\* hold nothing change.
LEMMA HeldStill ==
    ASSUME TypeOK, UNCHANGED tables, spared \subseteq spared', NEW p \in Path, Held(p),
           \A q \in Request : Free(q) \/ UNCHANGED <<up[q], seen[q], size[q]>>
    PROVE  Held(p)'
<1>1. ASSUME NEW r \in Request, seen[r] = p \/ \E i \in 1 .. size[r] : up[r][i] = p
      PROVE  UNCHANGED <<up[r], seen[r], size[r]>>
    <2>1. \A i \in 1 .. size[r] : i \in Index
        BY BoundsAssumption DEF TypeOK, Index
    <2> QED
        BY <1>1, <2>1, NullAssumption DEF Free
<1> QED
    BY <1>1 DEF Held, tables

\* A call holds nothing before its uploads begin.
LEMMA FreeBefore ==
    ASSUME Paths, NEW r \in Request, pc[r] \in {"idle", "count", "find"}
    PROVE  Free(r)
BY DEF Paths, EmptyHanded, SeenIsOld, Free

\* A new call, a count and the reading of a row move no file.
LEMMA CalmControl ==
    ASSUME IInv, CalmInv, calm', NEW r \in Request,
           \/ \E o \in Owner, n \in Index : StartAppend(r, o, n)
           \/ \E o \in Owner, d \in BOOLEAN : StartReplace(r, o, d)
           \/ CountImages(r) \/ FindExisting(r)
    PROVE  CalmInv'
<1> USE DEF IInv
<1>1. /\ calm /\ stray' = 0 /\ Current /\ Alone /\ \A p \in files : Held(p) /\ p \in Path
      /\ files' = files /\ spared' = spared /\ UNCHANGED tables
      /\ pc[r] \in {"idle", "count", "find"}
    BY DEF CalmInv, StartAppend, StartReplace, Start, CountImages, FindExisting, store, tables,
       history, Types, TypeOK
<1>2. /\ pc'[r] \in {"idle", "count", "find", "append", "replace"}
      /\ pc'[r] \in {"find", "replace"} => size'[r] = 1
      /\ pc'[r] = "replace" => cover[owner'[r]] = seen'[r]
      /\ \A q \in Request \ {r} : UNCHANGED <<pc[q], owner[q], size[q], up[q], seen[q]>>
    <2>1. CASE \E o \in Owner, n \in Index : StartAppend(r, o, n)
        BY <2>1 DEF StartAppend, Start, Types, TypeOK
    <2>2. CASE \E o \in Owner, d \in BOOLEAN : StartReplace(r, o, d)
        BY <2>2, BoundsAssumption DEF StartReplace, Start, Types, TypeOK
    <2>3. CASE CountImages(r)
        BY <2>3 DEF CountImages, BeginUploads, Finish, Answer, Types, TypeOK
    <2>4. CASE FindExisting(r)
        BY <1>1, <2>4 DEF FindExisting, BeginUploads, Types, TypeOK, Current
    <2> QED
        BY <2>1, <2>2, <2>3, <2>4
<1>3. Alone'
    <2>1. CASE UNCHANGED owner \/ Answer(r)
        BY <1>1, <2>1, AloneKept DEF Types
    <2>2. CASE \E o \in Owner : owner' = [owner EXCEPT ![r] = o] /\ \A q \in Request : owner[q] # o
        BY <1>1, <2>2 DEF Alone, Types, TypeOK
    <2> QED
        BY <2>1, <2>2 DEF StartAppend, StartReplace, Start, CountImages, FindExisting, Finish
<1>4. Current'
    BY <1>1, <1>2 DEF Current, tables
<1>5. \A p \in files' : Held(p)'
    BY <1>1, <1>2, FreeBefore, HeldStill DEF Types
<1> QED
    BY <1>1, <1>3, <1>4, <1>5 DEF CalmInv

\* An upload is held by its call from the moment the file is there.
LEMMA CalmUpload ==
    ASSUME IInv, CalmInv, NEW r \in Request, NEW i \in Index, NEW p \in Path, Upload(r, i, p)
    PROVE  CalmInv'
<1>1. /\ i \in 1 .. size[r] /\ up[r][i] = NoPath /\ files' = files \cup {p}
      /\ pc[r] \in Uploading /\ up' = [up EXCEPT ![r][i] = p]
      /\ UNCHANGED <<stray, tables, pc, owner, size, seen, spared, calm>>
    BY DEF Upload, history
<1>2. /\ up'[r][i] = p /\ \A j \in Index \ {i} : up'[r][j] = up[r][j]
      /\ \A q \in Request \ {r} : up'[q] = up[q]
    BY <1>1 DEF IInv, Types, TypeOK
<1>3. (Alone => Alone') /\ (Current => Current')
    <2>1. Alone => Alone'
        BY <1>1 DEF Alone
    <2>2. cover' = cover /\ pc[r] # "delete"
        BY <1>1 DEF tables, Uploading
    <2>3. Current => Current'
        BY <1>1, <1>2, <2>2 DEF Current
    <2> QED
        BY <2>1, <2>3
<1>4. Held(p)'
    BY <1>1, <1>2 DEF Held
<1>5. ASSUME NEW f \in files, Held(f) PROVE Held(f)'
    <2>1. f # NoPath
        BY NullAssumption DEF IInv, Types, TypeOK
    <2>2. ASSUME NEW q \in Request, NEW j \in 1 .. size[q], up[q][j] = f PROVE up'[q][j] = f
        <3>1. j \in Index
            BY BoundsAssumption DEF IInv, Types, TypeOK, Index
        <3> QED
            BY <1>1, <1>2, <2>1, <2>2, <3>1
    <2> QED
        BY <1>1, <1>5, <2>2 DEF Held, tables
<1> QED
    BY <1>1, <1>3, <1>4, <1>5 DEF CalmInv
\* What a call held, its rows name when it is done.
LEMMA CalmSave ==
    ASSUME IInv, CalmInv, NEW r \in Request, SaveImages(r)
    PROVE  CalmInv'
<1> USE DEF IInv
<1>1. /\ pc[r] = "append" /\ owner[r] \in Owner /\ Answer(r) /\ seen[r] = NoPath
      /\ gallery' = [gallery EXCEPT ![owner[r]] = @ \cup Images(r)]
      /\ UNCHANGED <<store, cover, spared, calm>>
    BY DEF SaveImages, Types, Served, Paths, SeenIsOld
<1>2. /\ pc'[r] = "idle"
      /\ \A q \in Request \ {r} : UNCHANGED <<pc[q], owner[q], size[q], up[q], seen[q]>>
    BY <1>1, AnswerCalls DEF Types
<1>3. Alone => Alone'
    BY <1>1, AloneKept DEF Types
<1>4. Current => Current'
    BY <1>1, <1>2 DEF Current
<1>5. /\ gallery'[owner[r]] = gallery[owner[r]] \cup Images(r)
      /\ \A o \in Owner \ {owner[r]} : gallery'[o] = gallery[o]
    BY <1>1 DEF Types, TypeOK
<1>6. ASSUME NEW p \in files, Held(p) PROVE Held(p)'
    <2>1. p # NoPath
        BY NullAssumption DEF Types, TypeOK
    <2>2. CASE \E i \in 1 .. size[r] : up[r][i] = p
        <3>1. PICK i \in 1 .. size[r] : up[r][i] = p
            BY <2>2
        <3>2. [path |-> p, order |-> count[r] + i - 1] \in gallery'[owner[r]]
            BY <1>5, <3>1 DEF Images
        <3>3. [path |-> p, order |-> count[r] + i - 1].path = p
            OBVIOUS
        <3> QED
            BY <1>1, <3>2, <3>3 DEF Held
    <2>3. CASE ~ \E i \in 1 .. size[r] : up[r][i] = p
        <3>1. ASSUME NEW o \in Owner, NEW image \in gallery[o] PROVE image \in gallery'[o]
            BY <1>5
        <3>2. ASSUME NEW q \in Request, seen[q] = p \/ \E i \in 1 .. size[q] : up[q][i] = p
              PROVE  seen'[q] = p \/ \E i \in 1 .. size'[q] : up'[q][i] = p
            BY <1>1, <1>2, <2>1, <2>3, <3>2
        <3> QED
            BY <1>1, <1>6, <3>1, <3>2 DEF Held
    <2> QED
        BY <2>2, <2>3
<1> QED
    BY <1>1, <1>3, <1>4, <1>6 DEF CalmInv, store

\* A replacement that writes the row names its file there; the old one is held
\* until it is deleted, or spared.
LEMMA CalmReplace ==
    ASSUME IInv, CalmInv, calm', NEW r \in Request, Create(r) \/ Merge(r)
    PROVE  CalmInv'
<1> USE DEF IInv
<1>1. /\ calm /\ stray' = 0 /\ Current /\ Alone /\ \A p \in files : Held(p)
      /\ files' = files /\ gallery' = gallery /\ spared \subseteq spared'
      /\ pc[r] = "replace" /\ owner[r] \in Owner /\ size[r] = 1 /\ seen[r] = cover[owner[r]]
    BY DEF CalmInv, Create, Merge, store, Types, Served, Current
<1>2. cover' = [cover EXCEPT ![owner[r]] = up[r][1]]
    BY <1>1 DEF Create, Merge
<1>3. \/ /\ Answer(r)
         /\ seen[r] = NoPath \/ seen[r] \in spared'
      \/ /\ pc' = [pc EXCEPT ![r] = "delete"]
         /\ UNCHANGED <<owner, size, up, seen>>
    BY DEF Create, Merge, Finish
<1>4. /\ \A q \in Request \ {r} : UNCHANGED <<pc[q], owner[q], size[q], up[q], seen[q]>>
      /\ \/ pc'[r] = "idle" /\ (seen[r] = NoPath \/ seen[r] \in spared')
         \/ pc'[r] = "delete" /\ UNCHANGED <<size[r], up[r], seen[r]>> /\ owner'[r] = owner[r]
    <2>1. CASE Answer(r) /\ (seen[r] = NoPath \/ seen[r] \in spared')
        BY <2>1, AnswerCalls DEF Types
    <2>2. CASE pc' = [pc EXCEPT ![r] = "delete"] /\ UNCHANGED <<owner, size, up, seen>>
        BY <2>2 DEF Types, TypeOK
    <2> QED
        BY <1>3, <2>1, <2>2
<1>5. /\ cover'[owner[r]] = up[r][1]
      /\ \A o \in Owner \ {owner[r]} : cover'[o] = cover[o]
    BY <1>1, <1>2 DEF Types, TypeOK
<1>6. Alone'
    BY <1>1, <1>3, AloneKept DEF Types
<1>7. Current'
    <2>1. /\ pc'[r] \in {"find", "replace", "delete"} => size'[r] = 1
          /\ pc'[r] = "replace" => cover'[owner'[r]] = seen'[r]
          /\ pc'[r] = "delete" => cover'[owner'[r]] = up'[r][1]
        BY <1>1, <1>4, <1>5
    <2>2. ASSUME NEW q \in Request \ {r}
          PROVE  /\ pc'[q] \in {"find", "replace", "delete"} => size'[q] = 1
                 /\ pc'[q] = "replace" => cover'[owner'[q]] = seen'[q]
                 /\ pc'[q] = "delete" => cover'[owner'[q]] = up'[q][1]
        BY <1>1, <1>4, <1>5, CurrentForOthers
    <2> QED
        BY <2>1, <2>2 DEF Current
<1>8. ASSUME NEW p \in files PROVE Held(p)'
    <2>1. p # NoPath
        BY NullAssumption DEF Types, TypeOK
    <2>2. CASE seen[r] = p
        BY <1>4, <2>1, <2>2 DEF Held
    <2>3. CASE up[r][1] = p
        BY <1>1, <1>5, <2>3 DEF Held
    <2>4. CASE \E q \in Request \ {r} : seen[q] = p \/ \E i \in 1 .. size[q] : up[q][i] = p
        BY <1>4, <2>4 DEF Held
    <2>5. CASE \/ p \in spared
               \/ \E o \in Owner \ {owner[r]} : cover[o] = p
               \/ \E o \in Owner : \E image \in gallery[o] : image.path = p
        BY <1>1, <1>5, <2>5 DEF Held
    <2>6. \A i \in 1 .. size[r] : i = 1
        BY <1>1
    <2> QED
        BY <1>1, <2>2, <2>3, <2>4, <2>5, <2>6 DEF Held
<1> QED
    BY <1>1, <1>6, <1>7, <1>8 DEF CalmInv

\* A deletion takes the file nobody names any more.
LEMMA CalmDelete ==
    ASSUME IInv, CalmInv, calm', NEW r \in Request, DeletePrevious(r)
    PROVE  CalmInv'
<1> USE DEF IInv
<1>1. /\ calm /\ stray' = 0 /\ Current /\ Alone /\ \A p \in files : Held(p)
      /\ pc[r] = "delete" /\ owner[r] \in Owner /\ Answer(r) /\ files' = files \ {seen[r]}
      /\ size[r] = 1 /\ cover[owner[r]] = up[r][1] /\ UNCHANGED <<tables, spared>>
    BY DEF CalmInv, DeletePrevious, Finish, Types, Served, Current
<1>2. /\ pc'[r] = "idle"
      /\ \A q \in Request \ {r} : UNCHANGED <<pc[q], owner[q], size[q], up[q], seen[q]>>
    BY <1>1, AnswerCalls DEF Types
<1>3. Alone'
    BY <1>1, AloneKept DEF Types
<1>4. Current'
    BY <1>1, <1>2 DEF Current, tables
<1>5. ASSUME NEW p \in files \ {seen[r]} PROVE Held(p)'
    <2>1. \A i \in 1 .. size[r] : up[r][i] = p => cover[owner[r]] = p
        BY <1>1
    <2> QED
        BY <1>1, <1>2, <2>1 DEF Held, tables
<1> QED
    BY <1>1, <1>3, <1>4, <1>5 DEF CalmInv

\* A picture that is deleted goes with its file.
LEMMA CalmRemove ==
    ASSUME IInv, CalmInv, NEW o \in Owner, NEW image \in gallery[o], RemoveImage(o, image)
    PROVE  CalmInv'
<1>1. /\ files' = files \ {image.path}
      /\ UNCHANGED <<stray, cover, pc, owner, size, up, seen, spared, calm>>
      /\ \A v \in Owner : gallery'[v] = IF v = o THEN gallery[o] \ {image} ELSE gallery[v]
    BY DEF RemoveImage, call, IInv, Types, TypeOK
<1>2. (Alone => Alone') /\ (Current => Current')
    BY <1>1 DEF Alone, Current
<1>3. ASSUME NEW p \in files \ {image.path}, Held(p) PROVE Held(p)'
    <2>1. ASSUME NEW v \in Owner, NEW i \in gallery[v], i.path = p PROVE i \in gallery'[v]
        BY <1>1, <2>1
    <2> QED
        BY <1>1, <1>3, <2>1 DEF Held
<1> QED
    BY <1>1, <1>2, <1>3 DEF CalmInv

\* The third part of the invariant is kept, on top of the others.
LEMMA NextCalm == IInv /\ CalmInv /\ [Next]_vars => CalmInv'
<1> SUFFICES ASSUME IInv, CalmInv, [Next]_vars, calm' PROVE CalmInv'
    BY DEF CalmInv
<1>1. ASSUME NEW r \in Request, Step(r) PROVE CalmInv'
    BY <1>1, CalmControl, CalmUpload, CalmSave, CalmReplace, CalmDelete DEF Step
<1>2. ASSUME NEW r \in Request,
             \/ \E o \in Owner, n \in Index : StartAppend(r, o, n)
             \/ \E o \in Owner, d \in BOOLEAN : StartReplace(r, o, d)
      PROVE  CalmInv'
    BY <1>2, CalmControl
<1>3. ~ \E r \in Request : Fail(r) \/ \E left \in Left : UploadFails(r, left)
    BY DEF Fail, UploadFails
<1>4. ~ImportFails /\ ~Restart
    BY DEF ImportFails, Restart
<1>5. ~ \E left \in Left : StrayUpload(left)
    <2> SUFFICES ASSUME NEW left \in Left, StrayUpload(left) PROVE FALSE
        OBVIOUS
    <2>1. stray > 0 /\ calm' = calm
        BY DEF StrayUpload, history
    <2> QED
        BY <2>1 DEF CalmInv
<1>6. CASE ImportResolves \/ (\E o \in Owner : Snapshot(o)) \/ UNCHANGED vars
    <2>1. UNCHANGED <<files, stray, tables, call, spared, calm>>
        BY <1>6 DEF ImportResolves, Snapshot, vars, store, history
    <2> QED
        BY <2>1 DEF CalmInv, Alone, Current, Held, tables, call
<1>7. ASSUME NEW o \in Owner, NEW image \in gallery[o], RemoveImage(o, image) PROVE CalmInv'
    BY <1>7, CalmRemove
<1> QED
    BY <1>1, <1>2, <1>3, <1>4, <1>5, <1>6, <1>7 DEF Next

\* For any owners, calls and files: until something fails or two calls for one
\* owner overlap, each stored file belongs to a row or to a call.
THEOREM NothingLeaks == Spec => []NoLeak
<1>1. Init => CalmInv
    BY NullAssumption DEF Init, CalmInv, Alone, Current
<1>2. CalmInv => NoLeak
    <2> DEFINE Covers == { cover[o] : o \in Owner }
               Galleries == UNION { { image.path : image \in gallery[o] } : o \in Owner }
               Uploads == UNION { Uploaded(r) : r \in Request }
               Read == { seen[r] : r \in Request }
    <2>1. ASSUME CalmInv, calm, NEW p \in files
          PROVE  p \in Covers \cup spared \cup Galleries \cup Uploads \cup Read
        <3>1. Held(p)
            BY <2>1 DEF CalmInv
        <3>2. CASE p \in spared \/ \E o \in Owner : cover[o] = p
            BY <3>2
        <3>3. CASE \E o \in Owner : \E image \in gallery[o] : image.path = p
            BY <3>3
        <3>4. CASE \E r \in Request : seen[r] = p
            BY <3>4
        <3>5. CASE \E r \in Request : \E i \in 1 .. size[r] : up[r][i] = p
            BY <3>5 DEF Uploaded
        <3> QED
            BY <3>1, <3>2, <3>3, <3>4, <3>5 DEF Held
    <2>2. CalmInv /\ calm => files \subseteq Covers \cup spared \cup Galleries \cup Uploads \cup Read
        BY <2>1
    <2> QED
        BY <2>2 DEF NoLeak
<1>3. IInv /\ CalmInv /\ [Next]_vars => CalmInv'
    BY NextCalm
<1> QED
    BY Inductive, <1>1, <1>2, <1>3, PTL DEF Spec
=============================================================================
