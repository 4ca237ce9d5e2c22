---------------------------- MODULE UserAvatars ----------------------------
(***************************************************************************)
(* A user's avatar is a row of accounts.user_avatars and a file in the     *)
(* media folder, written by different steps with no transaction around     *)
(* them: setRemoteAvatar downloads the picture of a Google profile to the  *)
(* temp folder, copies it to the media folder, drops the temp file,        *)
(* deletes the old row, inserts the new one and deletes the old file.      *)
(*                                                                         *)
(* A request may be suspended before each of these steps; any of them may  *)
(* fail, the process may restart and the user may be hard-deleted.  The    *)
(* media driver is the local one.                                          *)
(***************************************************************************)
EXTENDS Naturals

CONSTANTS
    User,     \* user ids
    Request,  \* slots for the calls in flight
    Path,     \* bound: the random file names there are, each used once
    NoUser, NoPath

ASSUME NullAssumption == NoUser \notin User /\ NoPath \notin Path

VARIABLES
    users,  \* users with a row in accounts.users, soft-deleted ones included
    row,    \* the path in each user's avatar row; userId is unique
    media,  \* files in the media folder
    temp,   \* files in the temp folder
    used,   \* names randomUUID has returned
    pc,     \* where each call stands
    owner,  \* the user it is for
    old,    \* existingAvatar.path
    file,   \* the name of the picture being ingested, in both folders
    kept,   \* history: users who were given an avatar nothing has taken away
    calm    \* history: no failure, restart, deletion or overlapping calls yet

call == <<pc, owner, old, file>>
vars == <<users, row, media, temp, used, call, kept, calm>>

\* "stalled" is a call whose download broke off: nothing resumes it.
Stage ==
    {"idle", "findExisting", "download", "stalled", "persist", "dropTemp",
     "dropTempFailed", "deleteRow", "insert", "deleteOld",
     "findForRemoval", "deleteForRemoval", "deleteRemoved"}

TypeOK ==
    /\ users \subseteq User
    /\ row \in [User -> Path \cup {NoPath}]
    /\ media \subseteq Path
    /\ temp \subseteq Path
    /\ used \subseteq Path
    /\ pc \in [Request -> Stage]
    /\ owner \in [Request -> User \cup {NoUser}]
    /\ old \in [Request -> Path \cup {NoPath}]
    /\ file \in [Request -> Path \cup {NoPath}]
    /\ kept \subseteq User
    /\ calm \in BOOLEAN

Init ==
    /\ users = User
    /\ row = [u \in User |-> NoPath]
    /\ media = {}
    /\ temp = {}
    /\ used = {}
    /\ pc = [r \in Request |-> "idle"]
    /\ owner = [r \in Request |-> NoUser]
    /\ old = [r \in Request |-> NoPath]
    /\ file = [r \in Request |-> NoPath]
    /\ kept = {}
    /\ calm = TRUE

-----------------------------------------------------------------------------
Start(r, u, stage) ==
    /\ pc[r] = "idle"
    /\ pc' = [pc EXCEPT ![r] = stage]
    /\ owner' = [owner EXCEPT ![r] = u]
    /\ calm' = (calm /\ \A q \in Request : owner[q] # u)
    /\ UNCHANGED <<users, row, media, temp, used, old, file, kept>>

Advance(r, from, to) ==
    /\ pc[r] = from
    /\ pc' = [pc EXCEPT ![r] = to]

\* The call returns, or throws and trySetRemoteAvatar swallows the error.
Finish(r) ==
    /\ pc' = [pc EXCEPT ![r] = "idle"]
    /\ owner' = [owner EXCEPT ![r] = NoUser]
    /\ old' = [old EXCEPT ![r] = NoPath]
    /\ file' = [file EXCEPT ![r] = NoPath]

-----------------------------------------------------------------------------
(* setRemoteAvatar.                                                        *)

\* validateGoogleUser calls it for the user it has just found or created.
\* used # Path is the bound: there is a name left to draw.
StartSet(r, u) == u \in users /\ used # Path /\ Start(r, u, "findExisting")

\* Mistake, for mutation: the row goes before the new picture is there.
FindExisting_DeletesFirst(r) ==
    /\ Advance(r, "findExisting", "download")
    /\ old' = [old EXCEPT ![r] = row[owner[r]]]
    /\ row' = [row EXCEPT ![owner[r]] = NoPath]
    /\ UNCHANGED <<users, media, temp, used, owner, file, kept, calm>>

FindExisting(r) ==
    /\ Advance(r, "findExisting", "download")
    /\ old' = [old EXCEPT ![r] = row[owner[r]]]
    /\ UNCHANGED <<users, row, media, temp, used, owner, file, kept, calm>>

\* The temp file and its copy get two random names; one stands for both.
Download(r, p) ==
    /\ Advance(r, "download", "persist")
    /\ p \notin used
    /\ used' = used \cup {p}
    /\ temp' = temp \cup {p}
    /\ file' = [file EXCEPT ![r] = p]
    /\ UNCHANGED <<users, row, media, owner, old, kept, calm>>

\* The writer fails, or stat does: the temp file stays, outside the try block.
DownloadFails(r, p) ==
    /\ pc[r] = "download"
    /\ p \notin used
    /\ used' = used \cup {p}
    /\ temp' = temp \cup {p}
    /\ Finish(r)
    /\ calm' = FALSE
    /\ UNCHANGED <<users, row, media, kept>>

\* The response breaks off: pipe does not end the writer, and nothing bounds
\* the wait for it, since the timeout given to axios covers the headers only.
Stall(r, p) ==
    /\ Advance(r, "download", "stalled")
    /\ p \notin used
    /\ used' = used \cup {p}
    /\ temp' = temp \cup {p}
    /\ calm' = FALSE
    /\ UNCHANGED <<users, row, media, owner, old, file, kept>>

Persist(r) ==
    /\ Advance(r, "persist", "dropTemp")
    /\ media' = media \cup {file[r]}
    /\ UNCHANGED <<users, row, temp, used, owner, old, file, kept, calm>>

\* The copy fails, whole or half done, or the checksum does after the copy.
PersistFails(r) ==
    /\ Advance(r, "persist", "dropTempFailed")
    /\ media' \in {media, media \cup {file[r]}}
    /\ calm' = FALSE
    /\ UNCHANGED <<users, row, temp, used, owner, old, file, kept>>

\* The finally block of ingestRemote, and the branch on existingAvatar.
DropTemp(r) ==
    /\ Advance(r, "dropTemp", IF old[r] = NoPath THEN "insert" ELSE "deleteRow")
    /\ temp' = temp \ {file[r]}
    /\ UNCHANGED <<users, row, media, used, owner, old, file, kept, calm>>

DropTempFailed(r) ==
    /\ pc[r] = "dropTempFailed"
    /\ temp' = temp \ {file[r]}
    /\ Finish(r)
    /\ UNCHANGED <<users, row, media, used, kept, calm>>

\* delete({ userId }): whatever row the user has by now.
DeleteRow(r) ==
    /\ Advance(r, "deleteRow", "insert")
    /\ row' = [row EXCEPT ![owner[r]] = NoPath]
    /\ UNCHANGED <<users, media, temp, used, owner, old, file, kept, calm>>

\* save: the foreign key wants the user, the unique index no other row.
Insert(r) ==
    /\ owner[r] \in users /\ row[owner[r]] = NoPath
    /\ pc[r] = "insert"
    /\ row' = [row EXCEPT ![owner[r]] = file[r]]
    /\ kept' = kept \cup {owner[r]}
    /\ IF old[r] = NoPath
       THEN Finish(r)
       ELSE Advance(r, "insert", "deleteOld") /\ UNCHANGED <<owner, old, file>>
    /\ UNCHANGED <<users, media, temp, used, calm>>

InsertRejected(r) ==
    /\ pc[r] = "insert"
    /\ owner[r] \notin users \/ row[owner[r]] # NoPath
    /\ Finish(r)
    /\ UNCHANGED <<users, row, media, temp, used, kept, calm>>

\* Mistake, for mutation: the path is read again after the save.
DeleteOld_Reread(r) ==
    /\ pc[r] = "deleteOld"
    /\ media' = media \ {row[owner[r]]}
    /\ Finish(r)
    /\ UNCHANGED <<users, row, temp, used, kept, calm>>

\* Mistake, for mutation: the old path is not deleted.
DeleteOld_Skipped(r) ==
    /\ pc[r] = "deleteOld"
    /\ Finish(r)
    /\ UNCHANGED <<users, row, media, temp, used, kept, calm>>

\* A file that is already gone is not an error.
DeleteOld(r) ==
    /\ pc[r] = "deleteOld"
    /\ media' = media \ {old[r]}
    /\ Finish(r)
    /\ UNCHANGED <<users, row, temp, used, kept, calm>>

-----------------------------------------------------------------------------
(* removeAvatar.                                                           *)

StartRemove(r, u) == Start(r, u, "findForRemoval")

FindForRemoval(r) ==
    /\ pc[r] = "findForRemoval"
    /\ IF row[owner[r]] = NoPath
       THEN Finish(r)
       ELSE /\ Advance(r, "findForRemoval", "deleteForRemoval")
            /\ old' = [old EXCEPT ![r] = row[owner[r]]]
            /\ UNCHANGED <<owner, file>>
    /\ UNCHANGED <<users, row, media, temp, used, kept, calm>>

DeleteForRemoval(r) ==
    /\ Advance(r, "deleteForRemoval", "deleteRemoved")
    /\ row' = [row EXCEPT ![owner[r]] = NoPath]
    /\ kept' = kept \ {owner[r]}
    /\ UNCHANGED <<users, media, temp, used, owner, old, file, calm>>

DeleteRemoved(r) ==
    /\ pc[r] = "deleteRemoved"
    /\ media' = media \ {old[r]}
    /\ Finish(r)
    /\ UNCHANGED <<users, row, temp, used, kept, calm>>

-----------------------------------------------------------------------------
(* The environment.                                                        *)

\* A statement or a file operation fails and the call throws.  In "persist"
\* that is PersistFails, with the finally block still to run.
Fail(r) ==
    /\ pc[r] \notin {"idle", "stalled", "persist"}
    /\ kept' = IF pc[r] = "insert" THEN kept \ {owner[r]} ELSE kept
    /\ calm' = FALSE
    /\ Finish(r)
    /\ UNCHANGED <<users, row, media, temp, used>>

Restart ==
    /\ \E r \in Request : pc[r] # "idle"
    /\ pc' = [r \in Request |-> "idle"]
    /\ owner' = [r \in Request |-> NoUser]
    /\ old' = [r \in Request |-> NoPath]
    /\ file' = [r \in Request |-> NoPath]
    /\ kept' = kept \ { owner[r] : r \in { q \in Request : pc[q] = "insert" } }
    /\ calm' = FALSE
    /\ UNCHANGED <<users, row, media, temp, used>>

\* hardDeleteById; the avatar row goes with it (ON DELETE CASCADE).
HardDelete(u) ==
    /\ u \in users
    /\ users' = users \ {u}
    /\ row' = [row EXCEPT ![u] = NoPath]
    /\ kept' = kept \ {u}
    /\ calm' = FALSE
    /\ UNCHANGED <<media, temp, used, call>>

-----------------------------------------------------------------------------
Step(r) ==
    \/ FindExisting(r)
    \/ \E p \in Path : Download(r, p)
    \/ Persist(r)
    \/ DropTemp(r)
    \/ DropTempFailed(r)
    \/ DeleteRow(r)
    \/ Insert(r)
    \/ InsertRejected(r)
    \/ DeleteOld(r)
    \/ FindForRemoval(r)
    \/ DeleteForRemoval(r)
    \/ DeleteRemoved(r)

Next ==
    \/ \E r \in Request :
        \/ \E u \in User : StartSet(r, u) \/ StartRemove(r, u)
        \/ Step(r)
        \/ \E p \in Path : DownloadFails(r, p) \/ Stall(r, p)
        \/ PersistFails(r)
        \/ Fail(r)
    \/ Restart
    \/ \E u \in User : HardDelete(u)

Spec == Init /\ [][Next]_vars

\* The event loop resumes every call the database or the disk has answered.
FairSpec == Spec /\ \A r \in Request : WF_vars(Step(r))

-----------------------------------------------------------------------------
(* Properties.                                                             *)

\* An avatar row always names a file that is there, whatever fails and however
\* calls for the same user overlap: a row is gone before its file is.
NoDanglingAvatar ==
    \A u \in User : row[u] # NoPath => row[u] \in media

\* Replacing an avatar does not lose it: a user who was given one has one, or a
\* call is about to insert it, unless it was removed, the user was deleted, or
\* a call failed between its delete and its insert.
AvatarKept ==
    \A u \in kept :
        row[u] # NoPath \/ \E r \in Request : pc[r] = "insert" /\ owner[r] = u

\* Files do not pile up: until something fails or two calls for one user
\* overlap, each file belongs to a row or to a call that will deal with it.
InFlight == { r \in Request : pc[r] \in {"dropTemp", "deleteRow", "insert"} }
Leaving == { r \in Request : pc[r] \in {"insert", "deleteOld", "deleteRemoved"} }
Fetched == { r \in Request : pc[r] \in {"persist", "dropTemp", "dropTempFailed"} }

NoLeak ==
    calm =>
        /\ media \subseteq { row[u] : u \in User }
                           \cup { file[r] : r \in InFlight } \cup { old[r] : r \in Leaving }
        /\ temp \subseteq { file[r] : r \in Fetched }

\* "Remote avatars are optional. Authentication must not fail because of a media
\* failure": the Google login that waits for the avatar goes on.  It fails when
\* the download breaks off after the headers.
AuthenticationReturns ==
    \A r \in Request : pc[r] # "idle" ~> pc[r] = "idle"
=============================================================================
