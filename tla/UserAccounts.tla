---------------------------- MODULE UserAccounts ----------------------------
(***************************************************************************)
(* The table accounts.users and the requests that read and write it:       *)
(* creation (registration, administration, first Google sign-in), update,  *)
(* soft and hard removal, password change, local and Google sign-in.       *)
(*                                                                         *)
(* A handler reads, awaits and writes with no transaction: what it checked *)
(* may have changed when it writes.  An action is one statement sent to    *)
(* the database together with what the handler makes of the result before  *)
(* it sends the next one; that part, bcrypt included, sees only what was   *)
(* read.  A stored password is written as the password it is the hash of.  *)
(***************************************************************************)
EXTENDS Integers, FiniteSets

CONSTANTS
    Id,        \* bound: the uuids there are, each given to one account
    Email, Username, Password,
    Request,   \* slots for the requests in flight
    Body,      \* bound: the request bodies clients send
    Attempts,  \* rounds of generateUniqueUsername
    None       \* null, undefined

Provider == {"local", "google"}

Row == [email : Email, username : Username, password : Password \cup {None},
        provider : Provider, active : BOOLEAN, deleted : BOOLEAN]

\* The fields of all request bodies; a missing one is None.  password is the old
\* password of a password change, next the new one.
Dto == [email : Email \cup {None}, username : Username \cup {None},
        password : Password \cup {None}, next : Password \cup {None},
        provider : Provider \cup {None}, active : BOOLEAN \cup {None}]

NoBody == [email |-> None, username |-> None, password |-> None, next |-> None,
           provider |-> None, active |-> None]

Op == {"create", "update", "softRemove", "hardRemove", "password", "login", "google"}

ASSUME NoneAssumption ==
    /\ None \notin Id \cup Email \cup Username \cup Password
    /\ None \notin Op /\ None \notin Provider /\ None \notin BOOLEAN /\ None \notin Row
ASSUME BodyAssumption == Body \subseteq Dto
ASSUME AttemptsAssumption == Attempts \in Nat \ {0}

VARIABLES
    rows,     \* the row of each account, None where there is none
    used,     \* ids that were given to an account
    pc,       \* where each request stands, or what it was answered
    op,       \* what it asks for
    dto,      \* its body; for a creation the resolved payload
    user,     \* the account it is about, once it is known
    tries,    \* names tried by generateUniqueUsername
    wrote,    \* history: the request has changed the table
    grounds,  \* history: accounts it was entitled to at one moment at least
    clashed   \* history: another account had its email or username at one moment

table == <<rows, used>>
request == <<pc, op, dto, user, tries>>
vars == <<table, request, wrote, grounds, clashed>>

Stage ==
    {"checkEmail", "checkUsername", "insert", "findCreated",
     "assertExists", "applyUpdate", "findUpdated",
     "findForRemoval", "delete", "findPassword", "savePassword",
     "readCredentials", "findGoogle", "tryName", "findSignedIn"}
\* "duplicate" is the unique index refusing a row: like "error" a 500, since
\* the exception filter knows no database errors.
Refusal == {"conflict", "notFound", "unauthorized", "badRequest"}
Result == Refusal \cup {"ok", "signedIn", "duplicate", "error"}

TypeOK ==
    /\ rows \in [Id -> Row \cup {None}]
    /\ used \subseteq Id
    /\ pc \in [Request -> {"idle"} \cup Stage \cup Result]
    /\ op \in [Request -> Op \cup {None}]
    /\ dto \in [Request -> Dto]
    /\ user \in [Request -> Id \cup {None}]
    /\ tries \in [Request -> 0..Attempts]
    /\ wrote \in [Request -> BOOLEAN]
    /\ grounds \in [Request -> SUBSET Id]
    /\ clashed \in [Request -> BOOLEAN]

Init ==
    /\ rows = [i \in Id |-> None]
    /\ used = {}
    /\ pc = [r \in Request |-> "idle"]
    /\ op = [r \in Request |-> None]
    /\ dto = [r \in Request |-> NoBody]
    /\ user = [r \in Request |-> None]
    /\ tries = [r \in Request |-> 0]
    /\ wrote = [r \in Request |-> FALSE]
    /\ grounds = [r \in Request |-> {}]
    /\ clashed = [r \in Request |-> FALSE]

-----------------------------------------------------------------------------
(* Queries and unique indexes.                                             *)

Accounts == { i \in Id : rows[i] # None }
Visible == { i \in Accounts : ~rows[i].deleted }

\* Both find soft-deleted users too.  A missing key is nobody's.
WithEmail(e) == { i \in Accounts : rows[i].email = e }
WithUsername(n) == { i \in Accounts : rows[i].username = n }

Others(i, e, n) == (WithEmail(e) \cup WithUsername(n)) \ {i}

\* Mistake, for mutation: no unique index on the user names.
IndexRefuses_EmailOnly(i, e, n) == WithEmail(e) \ {i} # {}

IndexRefuses(i, e, n) == Others(i, e, n) # {}

-----------------------------------------------------------------------------
(* Requests come and go.                                                   *)

\* What validation lets through.
Valid(o, b) ==
    \/ /\ o = "create"
       /\ b.email # None /\ b.username # None /\ b.next = None
       /\ b.provider # "google" => b.password # None
    \/ /\ o = "update"
       /\ b.password = None /\ b.next = None
    \/ /\ o = "password"
       /\ b.password # None /\ b.next # None
       /\ b = [NoBody EXCEPT !.password = b.password, !.next = b.next]
    \/ /\ o = "login"
       /\ b.password # None /\ b.next = None
       /\ b \in { [NoBody EXCEPT !.email = b.email, !.password = b.password],
                  [NoBody EXCEPT !.username = b.username, !.password = b.password] }
       /\ b.email # None \/ b.username # None
    \/ /\ o = "google"
       /\ b.email # None
       /\ b = [NoBody EXCEPT !.email = b.email]
    \/ /\ o \in {"softRemove", "hardRemove"}
       /\ b = NoBody

Start(r, o, i, b, stage) ==
    /\ pc[r] = "idle"
    /\ Valid(o, b)
    /\ pc' = [pc EXCEPT ![r] = stage]
    /\ op' = [op EXCEPT ![r] = o]
    /\ dto' = [dto EXCEPT ![r] = b]
    /\ user' = [user EXCEPT ![r] = i]
    /\ UNCHANGED <<table, tries, wrote>>

Move(r, to) ==
    /\ pc' = [pc EXCEPT ![r] = to]
    /\ UNCHANGED <<op, dto, user, tries>>

Answer(r, result) ==
    /\ pc' = [pc EXCEPT ![r] = result]
    /\ op' = [op EXCEPT ![r] = None]
    /\ dto' = [dto EXCEPT ![r] = NoBody]
    /\ tries' = [tries EXCEPT ![r] = 0]
    /\ UNCHANGED user

Write(r, i, row) ==
    /\ rows' = [rows EXCEPT ![i] = row]
    /\ wrote' = [wrote EXCEPT ![r] = TRUE]

ReadOnly == UNCHANGED <<table, wrote>>

\* The answer goes out, and the slot is free.
Respond(r) ==
    /\ pc[r] \in Result
    /\ pc' = [pc EXCEPT ![r] = "idle"]
    /\ user' = [user EXCEPT ![r] = None]
    /\ wrote' = [wrote EXCEPT ![r] = FALSE]
    /\ UNCHANGED <<table, op, dto, tries>>

\* A statement fails; LocalStrategy turns every error into a 401.
Fail(r) ==
    /\ pc[r] \in Stage
    /\ Answer(r, IF op[r] = "login" THEN "unauthorized" ELSE "error")
    /\ ReadOnly

-----------------------------------------------------------------------------
(* create, for POST /users, for the registration and for Google.           *)

\* The bound: there is an id left for every creation in flight.
IdLeft ==
    Cardinality({ q \in Request : op[q] \in {"create", "google"} })
        < Cardinality(Id \ used)

\* resolveCreatePayload
Create(r, b) ==
    /\ IdLeft
    /\ Valid("create", b)
    /\ Start(r, "create", None,
             [b EXCEPT !.provider = IF @ = None THEN "local" ELSE @,
                       !.active = IF @ = None THEN TRUE ELSE @],
             "checkEmail")

\* Mistake, for mutation: the account itself counts as another one.
CheckEmail_Own(r) ==
    /\ pc[r] = "checkEmail"
    /\ IF WithEmail(dto[r].email) # {}
       THEN Answer(r, "conflict")
       ELSE Move(r, "checkUsername")
    /\ ReadOnly

\* An update leaves both checks out for a missing key, which is nobody's.
CheckEmail(r) ==
    /\ pc[r] = "checkEmail"
    /\ IF WithEmail(dto[r].email) \ {user[r]} # {}
       THEN Answer(r, "conflict")
       ELSE Move(r, "checkUsername")
    /\ ReadOnly

CheckUsername(r) ==
    /\ pc[r] = "checkUsername"
    /\ IF WithUsername(dto[r].username) \ {user[r]} # {}
       THEN Answer(r, "conflict")
       ELSE Move(r, IF op[r] = "update" THEN "applyUpdate" ELSE "insert")
    /\ ReadOnly

Insert(r, i) ==
    /\ pc[r] = "insert"
    /\ i \notin used
    /\ ~IndexRefuses(None, dto[r].email, dto[r].username)
    /\ Write(r, i, [email |-> dto[r].email, username |-> dto[r].username,
                    password |-> dto[r].password, provider |-> dto[r].provider,
                    active |-> dto[r].active, deleted |-> FALSE])
    /\ used' = used \cup {i}
    /\ user' = [user EXCEPT ![r] = i]
    /\ pc' = [pc EXCEPT ![r] = "findCreated"]
    /\ UNCHANGED <<op, dto, tries>>

InsertRefused(r) ==
    /\ pc[r] = "insert"
    /\ IndexRefuses(None, dto[r].email, dto[r].username)
    /\ Answer(r, "duplicate")
    /\ ReadOnly

\* findOne does not see soft-deleted users.
FindCreated(r) ==
    /\ pc[r] = "findCreated"
    /\ \/ user[r] \notin Visible /\ Answer(r, "notFound")
       \/ user[r] \in Visible /\ op[r] = "google" /\ Move(r, "findSignedIn")
       \/ user[r] \in Visible /\ op[r] # "google" /\ Answer(r, "ok")
    /\ ReadOnly

-----------------------------------------------------------------------------
(* update, remove, updatePassword.                                         *)

AssertExists(r) ==
    /\ pc[r] = "assertExists"
    /\ IF user[r] \in Accounts THEN Move(r, "checkEmail") ELSE Answer(r, "notFound")
    /\ ReadOnly

Set(value, old) == IF value = None THEN old ELSE value

\* updateById touches soft-deleted users too, and reports one affected row.
ApplyUpdate(r) ==
    LET i == user[r] IN
    /\ pc[r] = "applyUpdate"
    /\ i \in Accounts
    /\ ~IndexRefuses(i, dto[r].email, dto[r].username)
    /\ Write(r, i, [rows[i] EXCEPT !.email = Set(dto[r].email, @),
                                   !.username = Set(dto[r].username, @),
                                   !.provider = Set(dto[r].provider, @),
                                   !.active = Set(dto[r].active, @)])
    /\ Move(r, "findUpdated")
    /\ UNCHANGED used

UpdateRefused(r) ==
    /\ pc[r] = "applyUpdate"
    /\ \/ user[r] \notin Accounts /\ Answer(r, "notFound")
       \/ /\ user[r] \in Accounts
          /\ IndexRefuses(user[r], dto[r].email, dto[r].username)
          /\ Answer(r, "duplicate")
    /\ ReadOnly

FindUpdated(r) ==
    /\ pc[r] = "findUpdated"
    /\ Answer(r, IF user[r] \in Visible THEN "ok" ELSE "notFound")
    /\ ReadOnly

FindForRemoval(r) ==
    /\ pc[r] = "findForRemoval"
    /\ IF user[r] \in Accounts THEN Move(r, "delete") ELSE Answer(r, "notFound")
    /\ ReadOnly

HardDelete(r) ==
    /\ pc[r] = "delete" /\ op[r] = "hardRemove"
    /\ Write(r, user[r], None)
    /\ Answer(r, "ok")
    /\ UNCHANGED used

\* The user is read once more, for the answer only.
SoftDelete(r) ==
    /\ pc[r] = "delete" /\ op[r] = "softRemove"
    /\ \/ /\ user[r] \in Accounts
          /\ Write(r, user[r], [rows[user[r]] EXCEPT !.deleted = TRUE])
          /\ Answer(r, "ok")
          /\ UNCHANGED used
       \/ user[r] \notin Accounts /\ Answer(r, "notFound") /\ ReadOnly

\* Mistake, for mutation: any old password will do.
FindPassword_Unchecked(r) ==
    /\ pc[r] = "findPassword"
    /\ \/ user[r] \notin Accounts /\ Answer(r, "notFound")
       \/ user[r] \in Accounts /\ (Answer(r, "badRequest") \/ Move(r, "savePassword"))
    /\ ReadOnly

\* 400 for an account without a password, for a wrong one, and for a new one that
\* differs from its confirmation.
FindPassword(r) ==
    /\ pc[r] = "findPassword"
    /\ \/ user[r] \notin Accounts /\ Answer(r, "notFound")
       \/ user[r] \in Accounts /\ Answer(r, "badRequest")
       \/ /\ user[r] \in Accounts /\ rows[user[r]].password = dto[r].password
          /\ Move(r, "savePassword")
    /\ ReadOnly

\* Mistake, for mutation: the confirmation is compared after the write.
SavePassword_ChecksLate(r) ==
    /\ pc[r] = "savePassword"
    /\ user[r] \in Accounts
    /\ Write(r, user[r], [rows[user[r]] EXCEPT !.password = dto[r].next])
    /\ Answer(r, "ok") \/ Answer(r, "badRequest")
    /\ UNCHANGED used

\* Whether a row was affected is not looked at.
SavePassword(r) ==
    /\ pc[r] = "savePassword"
    /\ \/ /\ user[r] \in Accounts
          /\ Write(r, user[r], [rows[user[r]] EXCEPT !.password = dto[r].next])
          /\ UNCHANGED used
       \/ user[r] \notin Accounts /\ ReadOnly
    /\ Answer(r, "ok")

-----------------------------------------------------------------------------
(* Local and Google sign-in.                                               *)

\* Mistake, for mutation: a locked account is let through.
ReadCredentials_Locked(r) ==
    LET found == (WithEmail(dto[r].email) \cup WithUsername(dto[r].username)) \cap Visible
        matching == { i \in found : /\ rows[i].provider = "local"
                                    /\ rows[i].password = dto[r].password }
    IN  /\ pc[r] = "readCredentials"
        /\ \/ matching = {} /\ Answer(r, "unauthorized")
           \/ \E i \in matching :
                /\ user' = [user EXCEPT ![r] = i]
                /\ pc' = [pc EXCEPT ![r] = "findSignedIn"]
                /\ UNCHANGED <<op, dto, tries>>
        /\ ReadOnly

ReadCredentials(r) ==
    LET found == (WithEmail(dto[r].email) \cup WithUsername(dto[r].username)) \cap Visible
        matching == { i \in found : /\ rows[i].active /\ rows[i].provider = "local"
                                    /\ rows[i].password = dto[r].password }
    IN  /\ pc[r] = "readCredentials"
        /\ \/ matching = {} /\ Answer(r, "unauthorized")
           \/ \E i \in matching :
                /\ user' = [user EXCEPT ![r] = i]
                /\ pc' = [pc EXCEPT ![r] = "findSignedIn"]
                /\ UNCHANGED <<op, dto, tries>>
        /\ ReadOnly

GooglePayload(e, n) ==
    [NoBody EXCEPT !.email = e, !.username = n, !.provider = "google", !.active = TRUE]

\* findByEmail sees soft-deleted users.  Nothing looks at the provider.
FindGoogle(r) ==
    /\ pc[r] = "findGoogle"
    /\ \/ /\ WithEmail(dto[r].email) = {}
          /\ \E n \in Username : dto' = [dto EXCEPT ![r] = GooglePayload(@.email, n)]
          /\ pc' = [pc EXCEPT ![r] = "tryName"]
          /\ UNCHANGED <<op, user, tries>>
       \/ \E i \in WithEmail(dto[r].email) :
            \/ ~rows[i].active /\ Answer(r, "unauthorized")
            \/ /\ rows[i].active
               /\ user' = [user EXCEPT ![r] = i]
               /\ pc' = [pc EXCEPT ![r] = "findSignedIn"]
               /\ UNCHANGED <<op, dto, tries>>
    /\ ReadOnly

NameFree(r) ==
    /\ pc[r] = "tryName"
    /\ WithUsername(dto[r].username) = {}
    /\ Move(r, "checkEmail")
    /\ ReadOnly

\* Mistake, for mutation: it tries until it finds a free name.
NameTaken_Forever(r) ==
    /\ pc[r] = "tryName"
    /\ WithUsername(dto[r].username) # {}
    /\ \E n \in Username : dto' = [dto EXCEPT ![r] = GooglePayload(@.email, n)]
    /\ UNCHANGED <<pc, op, user, tries>>
    /\ ReadOnly

\* A random suffix; the last name, made from the time, is not looked up.
NameTaken(r) ==
    /\ pc[r] = "tryName"
    /\ WithUsername(dto[r].username) # {}
    /\ \E n \in Username : dto' = [dto EXCEPT ![r] = GooglePayload(@.email, n)]
    /\ tries' = [tries EXCEPT ![r] = @ + 1]
    /\ pc' = [pc EXCEPT ![r] = IF tries[r] + 1 = Attempts THEN "checkEmail" ELSE "tryName"]
    /\ UNCHANGED <<op, user>>
    /\ ReadOnly

\* The avatar of a Google profile is set before: UserAvatars.
FindSignedIn(r) ==
    /\ pc[r] = "findSignedIn"
    /\ Answer(r, IF user[r] \in Visible THEN "signedIn"
                 ELSE IF op[r] = "login" THEN "unauthorized" ELSE "notFound")
    /\ ReadOnly

-----------------------------------------------------------------------------
(* History.                                                                *)

\* The accounts a request has a right to now.
Entitled(r) ==
    { i \in Accounts :
        \/ /\ op[r] = "login" /\ i \in Visible
           /\ rows[i].active /\ rows[i].provider = "local"
           /\ rows[i].password = dto[r].password
           /\ rows[i].email = dto[r].email \/ rows[i].username = dto[r].username
        \/ /\ op[r] = "google" /\ i \in Visible
           /\ rows[i].active /\ rows[i].email = dto[r].email
        \/ /\ op[r] = "password" /\ i = user[r]
           /\ rows[i].password = dto[r].password }

Clash(r) ==
    /\ op[r] \in {"create", "update", "google"}
    /\ Others(user[r], dto[r].email, dto[r].username) # {}

Observe ==
    /\ grounds' = [r \in Request |->
                      IF pc'[r] = "idle" THEN {} ELSE grounds[r] \cup Entitled(r)']
    /\ clashed' = [r \in Request |-> pc'[r] # "idle" /\ (clashed[r] \/ Clash(r)')]

-----------------------------------------------------------------------------
Arrive(r) ==
    \/ \E b \in Body : Create(r, b)
    \/ \E i \in Id, b \in Body : Start(r, "update", i, b, "assertExists")
    \/ \E i \in Id : Start(r, "softRemove", i, NoBody, "findForRemoval")
    \/ \E i \in Id : Start(r, "hardRemove", i, NoBody, "findForRemoval")
    \/ \E i \in Id, b \in Body : Start(r, "password", i, b, "findPassword")
    \/ \E b \in Body : Start(r, "login", None, b, "readCredentials")
    \/ IdLeft /\ \E b \in Body : Start(r, "google", None, b, "findGoogle")

Step(r) ==
    \/ CheckEmail(r) \/ CheckUsername(r)
    \/ \E i \in Id : Insert(r, i)
    \/ InsertRefused(r) \/ FindCreated(r)
    \/ AssertExists(r) \/ ApplyUpdate(r) \/ UpdateRefused(r) \/ FindUpdated(r)
    \/ FindForRemoval(r) \/ HardDelete(r) \/ SoftDelete(r)
    \/ FindPassword(r) \/ SavePassword(r)
    \/ ReadCredentials(r) \/ FindGoogle(r) \/ NameFree(r) \/ NameTaken(r)
    \/ FindSignedIn(r)
    \/ Respond(r)

Next == (\E r \in Request : Arrive(r) \/ Step(r) \/ Fail(r)) /\ Observe

Spec == Init /\ [][Next]_vars

\* The event loop resumes every handler the database has answered.
FairSpec == Spec /\ \A r \in Request : WF_vars(Step(r) /\ Observe)

-----------------------------------------------------------------------------
(* Properties.                                                             *)

\* No two accounts, deleted ones included, share an email or a username, however
\* the checks of overlapping creations and updates interleave with their writes.
UniqueKeys ==
    \A i \in Accounts : Others(i, rows[i].email, rows[i].username) = {}

\* A sign-in is justified by one moment of the request: at that moment the
\* account was visible, active and had the email or username presented and, for a
\* local one, the password, whatever changes between the reads of the handler.
SignInJustified ==
    \A r \in Request : pc[r] = "signedIn" => user[r] \in grounds[r]

\* The password of an account changes only by a request that presented one the
\* account had while the request was being served.
PasswordsProved ==
    [][\A i \in Accounts :
        rows'[i] # None /\ rows'[i].password # rows[i].password =>
            \E r \in Request : /\ op[r] = "password" /\ user[r] = i
                               /\ i \in grounds[r]
                               /\ rows'[i].password = dto[r].next]_vars

\* A request is refused for a taken email or username only if another account
\* had it at some moment: an account is never in its own way.
ClashesAreReal ==
    \A r \in Request : pc[r] \in {"conflict", "duplicate"} => clashed[r]

\* A refused request has changed nothing, unless its account is deleted by now:
\* an update of a soft-deleted user is stored and answered with a 404.
RefusalsChangeNothing ==
    \A r \in Request : pc[r] \in Refusal /\ wrote[r] => user[r] \notin Visible

\* Every request is answered, also when there is no free name for an account.
RequestsAnswered ==
    \A r \in Request : pc[r] # "idle" ~> pc[r] = "idle"

\* "rejects duplicated email", with a 400 or a 409: a key that is taken is
\* never answered with a 500.  Overlapping registrations are.
DuplicatesAreConflicts ==
    \A r \in Request : pc[r] # "duplicate"
=============================================================================
