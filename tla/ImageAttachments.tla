-------------------------- MODULE ImageAttachments --------------------------
(***************************************************************************)
(* ImageAttachmentService gives an owner pictures: replaceOne keeps one    *)
(* (a cover, unique per owner as in user_avatars), appendMany adds several *)
(* to a gallery up to a maximum, findLimitSnapshot tells how many more fit.*)
(* Each reads the table, uploads through the storage driver and writes the *)
(* table later, with no transaction around them.                           *)
(*                                                                         *)
(* A request may be suspended before each of these steps; any of them may  *)
(* fail, the process may restart, and a handler may delete a picture.      *)
(***************************************************************************)
EXTENDS Integers, FiniteSets

CONSTANTS
    Owner,    \* ids of the entities that have pictures
    Request,  \* slots for the calls in flight
    Path,     \* bound: the random file names there are, each used once
    Maximum,  \* pictures in a gallery
    MaxFiles, \* bound: files in one call, STORAGE_FILE_MAX_FILES_PER_REQUEST
    NoPath, NoOwner

ASSUME BoundsAssumption == Maximum \in Nat /\ MaxFiles \in Nat \ {0}
ASSUME NullAssumption == NoPath \notin Path /\ NoOwner \notin Owner

VARIABLES
    driver,   \* "local" or "s3", chosen once from the configuration
    sdk,      \* the cached import of the S3 client: none yet, pending, resolved
    cover,    \* the path in each owner's only row
    gallery,  \* the rows of each owner: path and order number
    files,    \* the files, or objects, in the store
    used,     \* names randomUUID has returned
    pc,       \* where each call stands
    owner,    \* whom it is for
    size,     \* how many files it brings; 0 while it brings none
    up,       \* where its files were stored, by position
    seen,     \* existing?.path, for replaceOne
    count,    \* the count it took, for appendMany
    discard,  \* deletePreviousFile
    stray,    \* uploads that go on after their call was answered
    joined,   \* history: pictures its owner got from others since it counted
    removed,  \* history: owners who lost a picture
    promised, \* history: what the last snapshot left each owner, until a save
    refused,  \* history: the calls whose last answer was "limit reached"
    spared,   \* history: old files kept on request
    calm      \* history: no failure, restart or overlap for one owner yet

store == <<driver, sdk, files, used, stray>>
tables == <<cover, gallery>>
call == <<pc, owner, size, up, seen, count, discard>>
history == <<joined, removed, promised, refused, spared, calm>>
vars == <<store, tables, call, history>>

Index == 1 .. MaxFiles
Empty == [i \in Index |-> NoPath]
Image == [path : Path, order : Nat]

Stage == {"idle", "count", "append", "find", "replace", "delete"}
Uploading == {"append", "replace"}

TypeOK ==
    /\ driver \in {"local", "s3"}
    /\ sdk \in {"none", "pending", "resolved"}
    /\ cover \in [Owner -> Path \cup {NoPath}]
    /\ gallery \in [Owner -> SUBSET Image]
    /\ files \subseteq used /\ used \subseteq Path
    /\ pc \in [Request -> Stage]
    /\ owner \in [Request -> Owner \cup {NoOwner}]
    /\ size \in [Request -> 0 .. MaxFiles]
    /\ up \in [Request -> [Index -> Path \cup {NoPath}]]
    /\ seen \in [Request -> Path \cup {NoPath}]
    /\ count \in [Request -> Nat]
    /\ discard \in [Request -> BOOLEAN]
    /\ stray \in Nat
    /\ joined \in [Request -> Nat]
    /\ removed \subseteq Owner
    /\ promised \in [Owner -> Nat]
    /\ refused \subseteq Request
    /\ spared \subseteq Path
    /\ calm \in BOOLEAN

\* MediaStorageDriverProvider picks the driver; nothing is loaded yet.
Init ==
    /\ driver \in {"local", "s3"}
    /\ sdk = "none"
    /\ cover = [o \in Owner |-> NoPath]
    /\ gallery = [o \in Owner |-> {}]
    /\ files = {} /\ used = {} /\ stray = 0
    /\ pc = [r \in Request |-> "idle"]
    /\ owner = [r \in Request |-> NoOwner]
    /\ size = [r \in Request |-> 0]
    /\ up = [r \in Request |-> Empty]
    /\ seen = [r \in Request |-> NoPath]
    /\ count = [r \in Request |-> 0]
    /\ discard = [r \in Request |-> TRUE]
    /\ joined = [r \in Request |-> 0]
    /\ removed = {} /\ refused = {} /\ spared = {}
    /\ promised = [o \in Owner |-> 0]
    /\ calm = TRUE

-----------------------------------------------------------------------------
(* Calls and their answers.                                                *)

\* The bounds: names are left for all files of the call, and uploads nobody
\* waits for end before many new ones begin.  The pipes and the
\* service refuse a call without files before it does anything.
Start(r, o, stage, n, d) ==
    /\ pc[r] = "idle"
    /\ stray + n <= MaxFiles /\ Cardinality(Path \ used) >= n
    /\ pc' = [pc EXCEPT ![r] = stage]
    /\ owner' = [owner EXCEPT ![r] = o]
    /\ size' = [size EXCEPT ![r] = n]
    /\ discard' = [discard EXCEPT ![r] = d]
    /\ refused' = refused \ {r}
    /\ calm' = (calm /\ \A q \in Request : owner[q] # o)
    /\ UNCHANGED <<store, tables, up, seen, count, joined, removed, promised, spared>>

StartAppend(r, o, n) == Start(r, o, "count", n, TRUE)
StartReplace(r, o, d) == Start(r, o, "find", 1, d)

\* The call is answered, or throws.
Answer(r) ==
    /\ pc' = [pc EXCEPT ![r] = "idle"]
    /\ owner' = [owner EXCEPT ![r] = NoOwner]
    /\ size' = [size EXCEPT ![r] = 0]
    /\ up' = [up EXCEPT ![r] = Empty]
    /\ seen' = [seen EXCEPT ![r] = NoPath]
    /\ count' = [count EXCEPT ![r] = 0]
    /\ discard' = [discard EXCEPT ![r] = TRUE]

Finish(r) ==
    /\ Answer(r)
    /\ joined' = [joined EXCEPT ![r] = 0]

Remaining(n) == IF n < Maximum THEN Maximum - n ELSE 0

\* findLimitSnapshot: one query, one answer.
Snapshot(o) ==
    /\ promised' = [promised EXCEPT ![o] = Remaining(Cardinality(gallery[o]))]
    /\ UNCHANGED <<store, tables, call, joined, removed, refused, spared, calm>>

-----------------------------------------------------------------------------
(* The storage drivers.                                                    *)

\* A call enters the uploads: with S3 the first one starts the import.
BeginUploads(r, stage) ==
    /\ pc' = [pc EXCEPT ![r] = stage]
    /\ sdk' = IF driver = "s3" /\ sdk = "none" THEN "pending" ELSE sdk

Ready == driver = "local" \/ sdk = "resolved"

ImportResolves ==
    /\ sdk = "pending"
    /\ sdk' = "resolved"
    /\ UNCHANGED <<driver, files, used, stray, tables, call, history>>

\* Every upload awaits the one promise, so every call that uploads fails; the
\* cache is emptied, and the next call imports again.
ImportFails ==
    /\ sdk = "pending"
    /\ sdk' = "none"
    /\ LET hit == { r \in Request : pc[r] \in Uploading }
           kept(f, none) == [r \in Request |-> IF r \in hit THEN none ELSE f[r]] IN
       /\ pc' = kept(pc, "idle") /\ owner' = kept(owner, NoOwner)
       /\ size' = kept(size, 0) /\ up' = kept(up, Empty)
       /\ seen' = kept(seen, NoPath) /\ count' = kept(count, 0)
       /\ discard' = kept(discard, TRUE) /\ joined' = kept(joined, 0)
    /\ calm' = FALSE
    /\ UNCHANGED <<driver, files, used, stray, tables, removed, promised, refused, spared>>

Fresh(p) == p \notin used

\* persistUpload of the i-th file.
Upload(r, i, p) ==
    /\ pc[r] \in Uploading /\ i \in 1 .. size[r] /\ up[r][i] = NoPath
    /\ Ready /\ Fresh(p)
    /\ used' = used \cup {p}
    /\ files' = files \cup {p}
    /\ up' = [up EXCEPT ![r][i] = p]
    /\ UNCHANGED <<driver, sdk, stray, tables, pc, owner, size, seen, count,
                   discard, history>>

Pending(r) == { i \in 1 .. size[r] : up[r][i] = NoPath }

\* A file is too large, or its write fails, whole or half done: Promise.all
\* rejects at once, and the other uploads of the call go on without it.
UploadFails(r, left) ==
    /\ pc[r] \in Uploading /\ Pending(r) # {}
    /\ Ready \/ left = {}
    /\ left \cap used = {}
    /\ used' = used \cup left
    /\ files' = files \cup left
    /\ stray' = stray + Cardinality(Pending(r)) - 1
    /\ Finish(r)
    /\ calm' = FALSE
    /\ UNCHANGED <<driver, sdk, tables, removed, promised, refused, spared>>

\* An upload nobody waits for ends, and leaves a file or not.
StrayUpload(left) ==
    /\ stray > 0 /\ Ready /\ left \cap used = {}
    /\ stray' = stray - 1
    /\ used' = used \cup left
    /\ files' = files \cup left
    /\ UNCHANGED <<driver, sdk, tables, call, history>>

Uploaded(r) == { up[r][i] : i \in 1 .. size[r] }

-----------------------------------------------------------------------------
(* appendMany.                                                             *)

\* Mistake, for mutation: the limit is tested without the incoming files.
CountImages_Late(r) ==
    /\ pc[r] = "count"
    /\ LET n == Cardinality(gallery[owner[r]]) IN
       IF n >= Maximum
       THEN Finish(r) /\ refused' = refused \cup {r} /\ sdk' = sdk
       ELSE /\ BeginUploads(r, "append")
            /\ count' = [count EXCEPT ![r] = n]
            /\ UNCHANGED <<owner, size, up, seen, discard, joined, refused>>
    /\ UNCHANGED <<driver, files, used, stray, tables, removed, promised, spared, calm>>

\* Mistake, for mutation: a gallery may not become full.
CountImages_Strict(r) ==
    /\ pc[r] = "count"
    /\ LET n == Cardinality(gallery[owner[r]]) IN
       IF n + size[r] >= Maximum
       THEN Finish(r) /\ refused' = refused \cup {r} /\ sdk' = sdk
       ELSE /\ BeginUploads(r, "append")
            /\ count' = [count EXCEPT ![r] = n]
            /\ UNCHANGED <<owner, size, up, seen, discard, joined, refused>>
    /\ UNCHANGED <<driver, files, used, stray, tables, removed, promised, spared, calm>>

CountImages(r) ==
    /\ pc[r] = "count"
    /\ LET n == Cardinality(gallery[owner[r]]) IN
       IF n + size[r] > Maximum
       THEN Finish(r) /\ refused' = refused \cup {r} /\ sdk' = sdk
       ELSE /\ BeginUploads(r, "append")
            /\ count' = [count EXCEPT ![r] = n]
            /\ UNCHANGED <<owner, size, up, seen, discard, joined, refused>>
    /\ UNCHANGED <<driver, files, used, stray, tables, removed, promised, spared, calm>>

\* Mistake, for mutation: every call numbers its pictures from zero.
Images_Restarted(r) == { [path |-> up[r][i], order |-> i - 1] : i \in 1 .. size[r] }

\* buildUploadedImagePayloads: the order numbers go on from the count.
Images(r) == { [path |-> up[r][i], order |-> count[r] + i - 1] : i \in 1 .. size[r] }

\* save(entities): one transaction for all rows.
SaveImages(r) ==
    /\ pc[r] = "append" /\ Pending(r) = {}
    /\ gallery' = [gallery EXCEPT ![owner[r]] = @ \cup Images(r)]
    /\ Answer(r)
    /\ joined' = [q \in Request |-> IF q # r /\ owner[q] = owner[r] /\ pc[q] = "append"
                                    THEN joined[q] + size[r]
                                    ELSE IF q = r THEN 0 ELSE joined[q]]
    /\ promised' = [promised EXCEPT ![owner[r]] = 0]
    /\ UNCHANGED <<store, cover, removed, refused, spared, calm>>

-----------------------------------------------------------------------------
(* replaceOne.                                                             *)

FindExisting(r) ==
    /\ pc[r] = "find"
    /\ BeginUploads(r, "replace")
    /\ seen' = [seen EXCEPT ![r] = cover[owner[r]]]
    /\ UNCHANGED <<driver, files, used, stray, tables, owner, size, up, count, discard, history>>

\* create and save: the unique index refuses a second row.
Create(r) ==
    /\ pc[r] = "replace" /\ Pending(r) = {} /\ seen[r] = NoPath
    /\ cover' = IF cover[owner[r]] = NoPath
                THEN [cover EXCEPT ![owner[r]] = up[r][1]]
                ELSE cover
    /\ Finish(r)
    /\ UNCHANGED <<store, gallery, removed, promised, refused, spared, calm>>

\* Mistake, for mutation: the old file goes before the row is saved.
Merge_DeletesFirst(r) ==
    /\ pc[r] = "replace" /\ Pending(r) = {} /\ seen[r] # NoPath
    /\ files' = files \ {seen[r]}
    /\ pc' = [pc EXCEPT ![r] = "delete"]
    /\ UNCHANGED <<driver, sdk, used, stray, tables, owner, size, up, seen, count, discard,
                   history>>

\* Mistake, for mutation: the old file is never deleted.
Merge_Forgetful(r) ==
    /\ pc[r] = "replace" /\ Pending(r) = {} /\ seen[r] # NoPath
    /\ cover' = [cover EXCEPT ![owner[r]] = up[r][1]]
    /\ Finish(r)
    /\ spared' = IF discard[r] THEN spared ELSE spared \cup {seen[r]}
    /\ UNCHANGED <<store, gallery, removed, promised, refused, calm>>

\* merge(existing, payload) and save: the row gets the new path, whatever it
\* holds by now; the path to delete is the one read before the upload.
Merge(r) ==
    /\ pc[r] = "replace" /\ Pending(r) = {} /\ seen[r] # NoPath
    /\ cover' = [cover EXCEPT ![owner[r]] = up[r][1]]
    /\ IF discard[r]
       THEN /\ pc' = [pc EXCEPT ![r] = "delete"]
            /\ UNCHANGED <<owner, size, up, seen, count, discard, joined, spared>>
       ELSE /\ Finish(r)
            /\ spared' = spared \cup {seen[r]}
    /\ UNCHANGED <<store, gallery, removed, promised, refused, calm>>

\* deleteMany([previousPath]); a file that is gone is not an error.
DeletePrevious(r) ==
    /\ pc[r] = "delete"
    /\ files' = files \ {seen[r]}
    /\ Finish(r)
    /\ UNCHANGED <<driver, sdk, used, stray, tables, removed, promised, refused, spared, calm>>

-----------------------------------------------------------------------------
(* The environment.                                                        *)

\* A query, the save or the deletion fails, and the call throws.
Fail(r) ==
    /\ pc[r] # "idle" /\ (pc[r] \in Uploading => Pending(r) = {})
    /\ Finish(r)
    /\ calm' = FALSE
    /\ UNCHANGED <<store, tables, removed, promised, refused, spared>>

\* The process and its cache go, the store and the tables stay.
Restart ==
    /\ stray > 0 \/ \E r \in Request : pc[r] # "idle"
    /\ sdk' = "none" /\ stray' = 0
    /\ pc' = [r \in Request |-> "idle"]
    /\ owner' = [r \in Request |-> NoOwner]
    /\ size' = [r \in Request |-> 0]
    /\ up' = [r \in Request |-> Empty]
    /\ seen' = [r \in Request |-> NoPath]
    /\ count' = [r \in Request |-> 0]
    /\ discard' = [r \in Request |-> TRUE]
    /\ joined' = [r \in Request |-> 0]
    /\ calm' = FALSE
    /\ UNCHANGED <<driver, files, used, tables, removed, promised, refused, spared>>

\* A handler outside this service deletes a picture and its file.
RemoveImage(o, image) ==
    /\ gallery' = [gallery EXCEPT ![o] = @ \ {image}]
    /\ files' = files \ {image.path}
    /\ removed' = removed \cup {o}
    /\ UNCHANGED <<driver, sdk, used, stray, cover, call, joined, promised, refused,
                   spared, calm>>

-----------------------------------------------------------------------------
Left == {{}} \cup { {p} : p \in Path }

Step(r) ==
    \/ CountImages(r)
    \/ FindExisting(r)
    \/ \E i \in Index, p \in Path : Upload(r, i, p)
    \/ SaveImages(r)
    \/ Create(r)
    \/ Merge(r)
    \/ DeletePrevious(r)

Next ==
    \/ \E r \in Request :
        \/ \E o \in Owner, n \in Index : StartAppend(r, o, n)
        \/ \E o \in Owner, d \in BOOLEAN : StartReplace(r, o, d)
        \/ Step(r)
        \/ \E left \in Left : UploadFails(r, left)
        \/ Fail(r)
    \/ ImportResolves
    \/ ImportFails
    \/ \E left \in Left : StrayUpload(left)
    \/ Restart
    \/ \E o \in Owner : Snapshot(o) \/ \E image \in gallery[o] : RemoveImage(o, image)

Spec == Init /\ [][Next]_vars

-----------------------------------------------------------------------------
(* Properties.                                                             *)

\* Every row names a file that is there, whatever fails and however calls for
\* one owner overlap: replaceOne deletes the path it read before its upload,
\* which by then may be two replacements old.
RowsHaveFiles ==
    \A o \in Owner :
        /\ cover[o] # NoPath => cover[o] \in files
        /\ \A image \in gallery[o] : image.path \in files

\* Files do not pile up: until something fails or two calls for one owner
\* overlap, each file belongs to a row or to a call that will deal with it.
\* Calls that overlap do leave files: both delete the path both have read.
NoLeak ==
    calm =>
        files \subseteq { cover[o] : o \in Owner } \cup spared
                       \cup (UNION { { image.path : image \in gallery[o] } : o \in Owner })
                       \cup (UNION { Uploaded(r) : r \in Request })
                       \cup { seen[r] : r \in Request }

Saves(r) == pc[r] = "append" /\ pc'[r] = "idle" /\ gallery' # gallery

\* appendMany counts before it uploads: a gallery grows beyond its maximum by
\* no more than others added to it between the count and the save.
OverrunIsOverlap ==
    [][\A r \in Request : Saves(r) =>
          Cardinality(gallery'[owner[r]]) <= Maximum + joined[r]]_vars

\* The order numbers are handed out by that count, too: new pictures come after
\* all others, unless a call overlapped or a picture was deleted before.
AppendedLast ==
    [][\A r \in Request : Saves(r) /\ joined[r] = 0 /\ owner[r] \notin removed =>
          \A new \in gallery'[owner[r]] \ gallery[owner[r]], old \in gallery[owner[r]] :
              old.order < new.order]_vars

\* findLimitSnapshot and appendMany agree: what a snapshot says remains is not
\* refused for the limit as long as nobody else adds pictures.
SnapshotKept ==
    [][\A r \in refused' \ refused : promised[owner[r]] < size[r]]_vars
=============================================================================
