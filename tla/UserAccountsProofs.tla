------------------------- MODULE UserAccountsProofs -------------------------
(***************************************************************************)
(* Theorems about UserAccounts, for any accounts, keys, bodies and any     *)
(* number of requests in flight.                                           *)
(***************************************************************************)
EXTENDS UserAccounts, TLAPS

\* The operation a handler is in the middle of.
Serving(r) ==
    /\ pc[r] \notin Stage => op[r] = None
    /\ pc[r] \in {"checkEmail", "checkUsername"} => op[r] \in {"create", "google", "update"}
    /\ pc[r] \in {"insert", "findCreated"} => op[r] \in {"create", "google"}
    /\ pc[r] \in {"findGoogle", "tryName"} => op[r] = "google"
    /\ pc[r] \in {"assertExists", "applyUpdate", "findUpdated"} => op[r] = "update"
    /\ pc[r] \in {"findForRemoval", "delete"} => op[r] \in {"softRemove", "hardRemove"}
    /\ pc[r] \in {"findPassword", "savePassword"} => op[r] = "password"
    /\ pc[r] = "readCredentials" => op[r] = "login"
    /\ pc[r] = "findSignedIn" => op[r] \in {"login", "google"}

\* A Google sign-in that creates its account.
NewGoogle(r) == op[r] = "google" /\ pc[r] \notin {"findGoogle", "findSignedIn"}

\* A creation has its whole payload, a Google one that of an active account.
PayloadOK(r) ==
    /\ (op[r] = "create" \/ NewGoogle(r)) =>
        /\ dto[r].email \in Email /\ dto[r].username \in Username
        /\ dto[r].provider \in Provider /\ dto[r].active \in BOOLEAN
    /\ NewGoogle(r) => dto[r].active = TRUE
    /\ op[r] = "google" => dto[r].email \in Email
    /\ op[r] = "password" => dto[r].next \in Password

\* The account of a request is known, or is not yet.
UserOK(r) ==
    /\ op[r] \in {"update", "softRemove", "hardRemove", "password"} => user[r] \in Id
    /\ pc[r] \in {"findGoogle", "tryName", "insert"} => user[r] = None
    /\ pc[r] \in {"checkEmail", "checkUsername"} /\ op[r] # "update" => user[r] = None
    /\ pc[r] \in {"findCreated", "findSignedIn", "findUpdated", "delete"} => user[r] \in used

\* There is a name left to try.
TriesOK(r) ==
    /\ pc[r] \notin Stage => tries[r] = 0
    /\ pc[r] \in {"findGoogle", "tryName"} => tries[r] < Attempts

\* What a request has seen at each stage: what it is entitled to is recorded, and
\* an account it is about to be signed in as is one of those, or gone.
HistoryOK(r) ==
    /\ op[r] # None => Entitled(r) \subseteq grounds[r] /\ (Clash(r) => clashed[r])
    /\ (pc[r] = "findSignedIn" \/ (pc[r] = "findCreated" /\ op[r] = "google")) =>
        user[r] \in grounds[r] \/ user[r] \notin Visible
    /\ pc[r] \in {"savePassword", "signedIn"} => user[r] \in grounds[r]
    /\ pc[r] \in {"conflict", "duplicate"} => clashed[r]

\* Who has written, and what that means for a refusal.
WroteOK(r) ==
    /\ wrote[r] => pc[r] \in {"findCreated", "findSignedIn", "findUpdated"} \cup Result
    /\ op[r] = "login" => ~wrote[r]
    /\ pc[r] \in Refusal /\ wrote[r] => user[r] \in used /\ user[r] \notin Visible

RequestOK(r) ==
    Serving(r) /\ PayloadOK(r) /\ UserOK(r) /\ TriesOK(r) /\ HistoryOK(r) /\ WroteOK(r)

\* The inductive invariant.
IInv ==
    /\ TypeOK
    /\ Accounts \subseteq used
    /\ UniqueKeys
    /\ \A r \in Request : RequestOK(r)

-----------------------------------------------------------------------------
\* The initial state satisfies the inductive invariant.
LEMMA InitIInv == Init => IInv
<1> SUFFICES ASSUME Init PROVE IInv
    OBVIOUS
<1>1. Accounts = {}
    BY DEF Init, Accounts
<1>2. TypeOK
    BY NoneAssumption, AttemptsAssumption DEF Init, TypeOK, Dto, NoBody
<1>3. UniqueKeys
    BY <1>1 DEF UniqueKeys
<1>4. ASSUME NEW r \in Request PROVE RequestOK(r)
    BY NoneAssumption DEF Init, RequestOK, Serving, PayloadOK, NewGoogle, UserOK, TriesOK,
       HistoryOK, WroteOK, Stage, Op, Refusal
<1> QED
    BY <1>1, <1>2, <1>3, <1>4 DEF IInv

-----------------------------------------------------------------------------
(* What every step does to the requests.                                   *)

\* The other requests stand where they stood.
Frame(r) ==
    \A q \in Request \ {r} :
        /\ pc'[q] = pc[q] /\ op'[q] = op[q] /\ dto'[q] = dto[q]
        /\ user'[q] = user[q] /\ tries'[q] = tries[q] /\ wrote'[q] = wrote[q]

\* Ids are not given twice, and an account that is gone or deleted stays so.
Mono ==
    /\ used \subseteq used' /\ Accounts' \subseteq used'
    /\ \A i \in used : i \notin Visible => i \notin Visible'

\* Everything but the history of what a request has seen.
PlainTypeOK ==
    /\ rows \in [Id -> Row \cup {None}]
    /\ used \subseteq Id
    /\ pc \in [Request -> {"idle"} \cup Stage \cup Result]
    /\ op \in [Request -> Op \cup {None}]
    /\ dto \in [Request -> Dto]
    /\ user \in [Request -> Id \cup {None}]
    /\ tries \in [Request -> 0..Attempts]
    /\ wrote \in [Request -> BOOLEAN]

\* What Observe records of a request in flight.
LEMMA Observed ==
    ASSUME Observe, NEW q \in Request, pc'[q] # "idle"
    PROVE  /\ grounds'[q] = grounds[q] \cup Entitled(q)'
           /\ clashed'[q] = (clashed[q] \/ Clash(q)')
BY DEF Observe

\* The history is well-typed after a step that records it.
LEMMA ObserveType ==
    ASSUME TypeOK, Observe, PlainTypeOK'
    PROVE  TypeOK'
<1>1. \A q \in Request : Entitled(q)' \subseteq Id
    BY DEF Entitled, Accounts
<1>2. grounds' \in [Request -> SUBSET Id]
    BY <1>1 DEF Observe, TypeOK
<1>3. clashed' \in [Request -> BOOLEAN]
    <2>1. ASSUME NEW q \in Request
          PROVE  (pc'[q] # "idle" /\ (clashed[q] \/ Clash(q)')) \in BOOLEAN
        OBVIOUS
    <2> QED
        BY <2>1 DEF Observe
<1> QED
    BY <1>2, <1>3 DEF TypeOK, PlainTypeOK

\* A request that did not move is as good as before.
LEMMA OthersOK ==
    ASSUME IInv, NEW r \in Request, Frame(r), Mono, Observe, TypeOK',
           NEW q \in Request \ {r}
    PROVE  RequestOK(q)'
<1>1. /\ pc'[q] = pc[q] /\ op'[q] = op[q] /\ dto'[q] = dto[q]
      /\ user'[q] = user[q] /\ tries'[q] = tries[q] /\ wrote'[q] = wrote[q]
    BY DEF Frame
<1>2. RequestOK(q)
    BY DEF IInv
<1>3. Serving(q)' /\ PayloadOK(q)' /\ TriesOK(q)'
    BY <1>1, <1>2 DEF RequestOK, Serving, PayloadOK, NewGoogle, TriesOK
<1>4. UserOK(q)'
    BY <1>1, <1>2 DEF RequestOK, UserOK, Mono
<1>5. WroteOK(q)'
    BY <1>1, <1>2 DEF RequestOK, WroteOK, Mono
<1>6. HistoryOK(q)'
    <2>1. CASE pc[q] = "idle"
        BY <1>1, <1>2, <2>1 DEF RequestOK, Serving, HistoryOK, Stage
    <2>2. CASE pc[q] # "idle"
        <3>1. /\ grounds'[q] = grounds[q] \cup Entitled(q)'
              /\ clashed'[q] = (clashed[q] \/ Clash(q)')
            BY <1>1, <2>2, Observed
        <3>2. pc[q] \in {"findSignedIn", "findCreated"} => user[q] \in used
            BY <1>2 DEF RequestOK, UserOK
        <3> QED
            BY <1>1, <1>2, <3>1, <3>2 DEF RequestOK, HistoryOK, Mono
    <2> QED
        BY <2>1, <2>2
<1> QED
    BY <1>3, <1>4, <1>5, <1>6 DEF RequestOK

\* So a step keeps the invariant if it does for its own request and the table.
LEMMA OneRequest ==
    ASSUME IInv, NEW r \in Request, Frame(r), Mono, Observe, PlainTypeOK',
           UniqueKeys', RequestOK(r)'
    PROVE  IInv'
<1>1. TypeOK'
    BY ObserveType DEF IInv
<1>2. \A q \in Request : RequestOK(q)'
    BY <1>1, OthersOK
<1> QED
    BY <1>1, <1>2 DEF IInv, Mono

\* A step that only reads leaves the table as good as it was.
LEMMA ReadOnlyTable ==
    ASSUME IInv, ReadOnly
    PROVE  Mono /\ UniqueKeys' /\ Accounts' = Accounts /\ Visible' = Visible
BY DEF IInv, ReadOnly, table, Mono, UniqueKeys, Accounts, Visible, Others,
   WithEmail, WithUsername

-----------------------------------------------------------------------------
(* Steps that only read.                                                   *)

\* A step that only reads keeps the invariant if it does for its own request.
LEMMA ReadStep ==
    ASSUME IInv, NEW r \in Request, ReadOnly, Frame(r), Observe, PlainTypeOK', RequestOK(r)'
    PROVE  IInv'
BY ReadOnlyTable, OneRequest

\* A request that is answered: what the answer needs for the invariant.
LEMMA AnswerOK ==
    ASSUME IInv, NEW r \in Request, pc[r] \in Stage, NEW result \in Result,
           Answer(r, result), ReadOnly, Observe,
           result = "signedIn" => user[r] \in grounds[r],
           result \in {"conflict", "duplicate"} => clashed[r],
           result \in Refusal /\ wrote[r] => user[r] \in used /\ user[r] \notin Visible
    PROVE  IInv'
<1>1. /\ pc'[r] = result /\ op'[r] = None /\ dto'[r] = NoBody
      /\ user'[r] = user[r] /\ tries'[r] = 0 /\ wrote'[r] = wrote[r] /\ used' = used
    BY DEF IInv, TypeOK, Answer, ReadOnly, table
<1>2. Visible' = Visible
    BY ReadOnlyTable
<1>3. result \notin Stage \cup {"idle"}
    BY DEF Result, Refusal, Stage
<1>4. Frame(r)
    BY DEF IInv, TypeOK, Answer, ReadOnly, Frame
<1>5. PlainTypeOK'
    BY NoneAssumption, AttemptsAssumption
       DEF IInv, TypeOK, PlainTypeOK, Answer, ReadOnly, table, NoBody, Dto
<1>6. RequestOK(r)'
    <2>1. Serving(r)' /\ TriesOK(r)'
        BY <1>1, <1>3 DEF Serving, TriesOK, Stage
    <2>2. PayloadOK(r)' /\ UserOK(r)'
        BY <1>1, <1>3, NoneAssumption DEF PayloadOK, NewGoogle, UserOK, Op, Stage
    <2>3. HistoryOK(r)'
        <3>1. grounds[r] \subseteq grounds'[r] /\ (clashed[r] => clashed'[r])
            BY <1>1, <1>3, Observed
        <3> QED
            BY <1>1, <1>3, <3>1 DEF HistoryOK, Stage
    <2>4. WroteOK(r)'
        BY <1>1, <1>2, NoneAssumption DEF WroteOK, Op
    <2> QED
        BY <2>1, <2>2, <2>3, <2>4 DEF RequestOK
<1> QED
    BY <1>4, <1>5, <1>6, ReadStep

\* A request that goes on to its next statement and has written nothing yet.
LEMMA MoveOK ==
    ASSUME IInv, NEW r \in Request, pc[r] \in Stage, NEW to \in Stage,
           Move(r, to), ReadOnly, Observe, ~wrote[r],
           Serving(r)', UserOK(r)', PayloadOK(r)',
           to \notin {"findCreated", "findSignedIn", "findGoogle", "tryName"},
           to = "savePassword" => user[r] \in grounds[r]
    PROVE  IInv'
<1>1. /\ pc'[r] = to /\ op'[r] = op[r] /\ dto'[r] = dto[r]
      /\ user'[r] = user[r] /\ wrote'[r] = wrote[r]
    BY DEF IInv, TypeOK, Move, ReadOnly
<1>2. Frame(r)
    BY DEF IInv, TypeOK, Move, ReadOnly, Frame
<1>3. PlainTypeOK'
    BY DEF IInv, TypeOK, PlainTypeOK, Move, ReadOnly, table
<1>4. to \notin Result \cup {"idle"}
    BY DEF Result, Refusal, Stage
<1>5. HistoryOK(r)'
    BY <1>1, <1>4, Observed DEF HistoryOK, Result, Refusal
<1>6. TriesOK(r)' /\ WroteOK(r)'
    BY <1>1 DEF TriesOK, WroteOK
<1> QED
    BY <1>2, <1>3, <1>5, <1>6, ReadStep DEF RequestOK

\* How each operation begins.
FirstStage == {"checkEmail", "assertExists", "findForRemoval", "findPassword",
               "readCredentials", "findGoogle"}
Opens(o, i, b, stage) ==
    /\ stage = "checkEmail" =>
        o = "create" /\ i = None /\ b.provider \in Provider /\ b.active \in BOOLEAN
    /\ stage = "assertExists" => o = "update" /\ i \in Id
    /\ stage = "findForRemoval" => o \in {"softRemove", "hardRemove"} /\ i \in Id
    /\ stage = "findPassword" => o = "password" /\ i \in Id
    /\ stage = "readCredentials" => o = "login" /\ i = None
    /\ stage = "findGoogle" => o = "google" /\ i = None

\* An arriving request, whose slot was idle.
LEMMA ArriveOK ==
    ASSUME IInv, NEW r \in Request, Arrive(r), Observe
    PROVE  IInv'
<1>1. PICK o \in Op, i \in Id \cup {None}, b \in Dto, stage \in FirstStage :
        Start(r, o, i, b, stage) /\ Opens(o, i, b, stage)
    <2> DEFINE Arrived == \E o \in Op, i \in Id \cup {None}, b \in Dto, stage \in FirstStage :
                            Start(r, o, i, b, stage) /\ Opens(o, i, b, stage)
    <2>1. NoBody \in Dto
        BY DEF NoBody, Dto
    <2>2. ASSUME NEW b \in Body, Create(r, b) PROVE Arrived
        <3> DEFINE c == [b EXCEPT !.provider = IF @ = None THEN "local" ELSE @,
                                  !.active = IF @ = None THEN TRUE ELSE @]
        <3>1. b \in Dto
            BY BodyAssumption
        <3>2. c \in Dto /\ c.provider \in Provider /\ c.active \in BOOLEAN
            BY <3>1 DEF Dto, Provider
        <3>3. Start(r, "create", None, c, "checkEmail")
            BY <2>2 DEF Create
        <3>4. "create" \in Op
            BY DEF Op
        <3> QED
            BY <3>2, <3>3, <3>4 DEF Opens, FirstStage
    <2>3. ASSUME NEW i \in Id, NEW b \in Body, Start(r, "update", i, b, "assertExists")
          PROVE  Arrived
        BY <2>3, BodyAssumption DEF Op, Opens, FirstStage
    <2>4. ASSUME NEW i \in Id, NEW o \in {"softRemove", "hardRemove"},
                 Start(r, o, i, NoBody, "findForRemoval")
          PROVE  Arrived
        BY <2>1, <2>4 DEF Op, Opens, FirstStage
    <2>5. ASSUME NEW i \in Id, NEW b \in Body, Start(r, "password", i, b, "findPassword")
          PROVE  Arrived
        BY <2>5, BodyAssumption DEF Op, Opens, FirstStage
    <2>6. ASSUME NEW b \in Body, Start(r, "login", None, b, "readCredentials")
          PROVE  Arrived
        BY <2>6, BodyAssumption DEF Op, Opens, FirstStage
    <2>7. ASSUME NEW b \in Body, Start(r, "google", None, b, "findGoogle")
          PROVE  Arrived
        BY <2>7, BodyAssumption DEF Op, Opens, FirstStage
    <2> QED
        BY <2>2, <2>3, <2>4, <2>5, <2>6, <2>7 DEF Arrive
<1>2. /\ pc[r] = "idle" /\ pc'[r] = stage /\ op'[r] = o /\ dto'[r] = b
      /\ user'[r] = i /\ tries'[r] = tries[r] /\ wrote'[r] = wrote[r] /\ Valid(o, b)
    BY <1>1 DEF IInv, TypeOK, Start
<1>3. ReadOnly /\ Frame(r)
    BY <1>1 DEF IInv, TypeOK, Start, ReadOnly, Frame
<1>4. PlainTypeOK'
    BY <1>1 DEF IInv, TypeOK, PlainTypeOK, Start, table, Stage, Opens, FirstStage
<1>5. Serving(r)'
    BY <1>1, <1>2 DEF Serving, Stage, Opens, FirstStage
<1>6. PayloadOK(r)'
    BY <1>1, <1>2, NoneAssumption DEF PayloadOK, NewGoogle, Valid, Dto, Op, Opens, FirstStage
<1>7. UserOK(r)'
    BY <1>1, <1>2 DEF UserOK, Opens, FirstStage
<1>8. HistoryOK(r)'
    BY <1>1, <1>2, Observed DEF HistoryOK, FirstStage
<1>9. WroteOK(r)'
    <2>1. ~wrote[r]
        BY <1>2 DEF IInv, RequestOK, WroteOK, Result, Refusal
    <2> QED
        BY <1>2, <2>1 DEF WroteOK, Refusal, FirstStage
<1>10. TriesOK(r)'
    <2>1. tries[r] = 0
        BY <1>2 DEF IInv, RequestOK, TriesOK, Stage
    <2> QED
        BY <1>2, <2>1, AttemptsAssumption DEF TriesOK, Stage, FirstStage
<1> QED
    BY <1>3, <1>4, <1>5, <1>6, <1>7, <1>8, <1>9, <1>10, ReadStep DEF RequestOK

\* The answer goes out.
LEMMA RespondOK ==
    ASSUME IInv, NEW r \in Request, Respond(r), Observe
    PROVE  IInv'
<1>1. /\ pc'[r] = "idle" /\ op'[r] = op[r] /\ dto'[r] = dto[r]
      /\ user'[r] = None /\ wrote'[r] = FALSE /\ op[r] = None /\ tries'[r] = 0
    BY DEF IInv, TypeOK, Respond, RequestOK, Serving, TriesOK, Result, Refusal, Stage
<1>2. Frame(r)
    BY DEF IInv, TypeOK, Respond, Frame
<1>3. PlainTypeOK'
    BY DEF IInv, TypeOK, Respond, PlainTypeOK, table
<1>4. RequestOK(r)'
    BY <1>1, NoneAssumption
       DEF RequestOK, Serving, PayloadOK, NewGoogle, UserOK, TriesOK, HistoryOK, WroteOK, Op,
           Stage, Refusal
<1>5. Mono /\ UniqueKeys'
    BY DEF IInv, Respond, table, Mono, UniqueKeys, Accounts, Visible, Others,
       WithEmail, WithUsername
<1> QED
    BY <1>2, <1>3, <1>4, <1>5, OneRequest

\* A failing statement.
LEMMA FailOK ==
    ASSUME IInv, NEW r \in Request, Fail(r), Observe
    PROVE  IInv'
<1>1. pc[r] \in Stage /\ ReadOnly
    BY DEF Fail
<1>2. CASE op[r] = "login"
    BY <1>1, <1>2, AnswerOK DEF Fail, IInv, RequestOK, WroteOK, Result, Refusal
<1>3. CASE op[r] # "login"
    BY <1>1, <1>3, AnswerOK DEF Fail, Result, Refusal
<1> QED
    BY <1>2, <1>3

\* The two checks of the unique keys: who is refused saw another account's key.
LEMMA ChecksOK ==
    ASSUME IInv, NEW r \in Request, CheckEmail(r) \/ CheckUsername(r), Observe
    PROVE  IInv'
<1>1. /\ pc[r] \in {"checkEmail", "checkUsername"} /\ pc[r] \in Stage /\ ReadOnly
      /\ RequestOK(r) /\ ~wrote[r] /\ op[r] # None
    BY NoneAssumption
       DEF CheckEmail, CheckUsername, IInv, RequestOK, Serving, WroteOK, Stage, Result,
           Refusal, Op
<1>2. CASE Answer(r, "conflict") /\ ( \/ WithEmail(dto[r].email) \ {user[r]} # {}
                                      \/ WithUsername(dto[r].username) \ {user[r]} # {})
    <2>1. Clash(r)
        BY <1>1, <1>2 DEF Clash, Others, RequestOK, Serving
    <2>2. clashed[r]
        BY <1>1, <2>1 DEF RequestOK, HistoryOK
    <2> QED
        BY <1>1, <1>2, <2>2, AnswerOK DEF Result, Refusal
<1>3. ASSUME NEW to \in {"checkUsername", "applyUpdate", "insert"}, Move(r, to),
             to = "applyUpdate" => op[r] = "update",
             to = "insert" => op[r] \in {"create", "google"} /\ user[r] = None
      PROVE  IInv'
    <2>1. pc'[r] = to /\ op'[r] = op[r] /\ dto'[r] = dto[r] /\ user'[r] = user[r]
        BY <1>3 DEF IInv, TypeOK, Move
    <2>2. Serving(r)' /\ UserOK(r)' /\ PayloadOK(r)'
        BY <1>1, <1>3, <2>1
           DEF RequestOK, Serving, UserOK, PayloadOK, NewGoogle, Stage
    <2> QED
        BY <1>1, <1>3, <2>2, MoveOK DEF Stage
<1>4. CASE CheckEmail(r)
    BY <1>2, <1>3, <1>4 DEF CheckEmail
<1>5. CASE CheckUsername(r)
    <2>1. op[r] # "update" => op[r] \in {"create", "google"} /\ user[r] = None
        BY <1>1 DEF RequestOK, Serving, UserOK
    <2> QED
        BY <1>2, <1>3, <1>5, <2>1 DEF CheckUsername
<1> QED
    BY <1>4, <1>5

\* What the unique indexes refuse, and updates of accounts that are gone.
LEMMA RefusedOK ==
    ASSUME IInv, NEW r \in Request, InsertRefused(r) \/ UpdateRefused(r), Observe
    PROVE  IInv'
<1>1. /\ pc[r] \in {"insert", "applyUpdate"} /\ pc[r] \in Stage /\ ReadOnly
      /\ RequestOK(r) /\ ~wrote[r] /\ op[r] # None
    BY NoneAssumption
       DEF InsertRefused, UpdateRefused, IInv, RequestOK, Serving, WroteOK, Stage, Result,
           Refusal, Op
<1>2. CASE Answer(r, "notFound")
    BY <1>1, <1>2, AnswerOK DEF Result, Refusal
<1>3. CASE Answer(r, "duplicate") /\ IndexRefuses(user[r], dto[r].email, dto[r].username)
    <2>1. Clash(r)
        BY <1>1, <1>3 DEF Clash, IndexRefuses, RequestOK, Serving
    <2>2. clashed[r]
        BY <1>1, <2>1 DEF RequestOK, HistoryOK
    <2> QED
        BY <1>1, <1>3, <2>2, AnswerOK DEF Result, Refusal
<1>4. pc[r] = "insert" => user[r] = None
    BY <1>1 DEF RequestOK, UserOK
<1> QED
    BY <1>2, <1>3, <1>4 DEF InsertRefused, UpdateRefused

\* The reads that assert that an account exists.
LEMMA FindersOK ==
    ASSUME IInv, NEW r \in Request, AssertExists(r) \/ FindForRemoval(r), Observe
    PROVE  IInv'
<1>1. /\ pc[r] \in {"assertExists", "findForRemoval"} /\ pc[r] \in Stage /\ ReadOnly
      /\ RequestOK(r) /\ ~wrote[r]
    BY DEF AssertExists, FindForRemoval, IInv, RequestOK, WroteOK, Stage, Result, Refusal
<1>2. CASE Answer(r, "notFound")
    BY <1>1, <1>2, AnswerOK DEF Result, Refusal
<1>3. ASSUME NEW to \in {"checkEmail", "delete"}, Move(r, to), user[r] \in Accounts,
             (to = "checkEmail") = (pc[r] = "assertExists")
      PROVE  IInv'
    <2>1. pc'[r] = to /\ op'[r] = op[r] /\ dto'[r] = dto[r] /\ user'[r] = user[r]
          /\ used' = used /\ user[r] \in used
        BY <1>1, <1>3 DEF IInv, TypeOK, Move, ReadOnly, table
    <2>2. Serving(r)' /\ UserOK(r)' /\ PayloadOK(r)'
        BY <1>1, <1>3, <2>1
           DEF RequestOK, Serving, UserOK, PayloadOK, NewGoogle, Stage
    <2> QED
        BY <1>1, <1>3, <2>2, MoveOK DEF Stage
<1> QED
    BY <1>2, <1>3 DEF AssertExists, FindForRemoval

\* The reads after the writes.
LEMMA FoundOK ==
    ASSUME IInv, NEW r \in Request,
           FindCreated(r) \/ FindUpdated(r) \/ FindSignedIn(r), Observe
    PROVE  IInv'
<1>1. /\ pc[r] \in {"findCreated", "findUpdated", "findSignedIn"} /\ pc[r] \in Stage
      /\ ReadOnly /\ RequestOK(r) /\ user[r] \in used
    BY DEF FindCreated, FindUpdated, FindSignedIn, IInv, RequestOK, UserOK, Stage
<1>2. ASSUME NEW result \in {"ok", "notFound"}, Answer(r, result),
             result = "notFound" => user[r] \notin Visible
      PROVE  IInv'
    BY <1>1, <1>2, AnswerOK DEF Result, Refusal
<1>3. CASE FindUpdated(r)
    BY <1>2, <1>3 DEF FindUpdated
<1>4. CASE FindSignedIn(r)
    <2>1. CASE user[r] \in Visible
        <3>1. Answer(r, "signedIn") /\ user[r] \in grounds[r]
            BY <1>1, <1>4, <2>1 DEF FindSignedIn, RequestOK, HistoryOK
        <3> QED
            BY <1>1, <3>1, AnswerOK DEF Result, Refusal
    <2>2. CASE user[r] \notin Visible /\ op[r] = "login"
        <3>1. Answer(r, "unauthorized") /\ ~wrote[r]
            BY <1>1, <1>4, <2>2 DEF FindSignedIn, RequestOK, WroteOK
        <3> QED
            BY <1>1, <3>1, AnswerOK DEF Result, Refusal
    <2>3. CASE user[r] \notin Visible /\ op[r] # "login"
        BY <1>2, <1>4, <2>3 DEF FindSignedIn
    <2> QED
        BY <2>1, <2>2, <2>3
<1>5. CASE FindCreated(r) /\ Move(r, "findSignedIn") /\ op[r] = "google"
    <2>1. /\ pc'[r] = "findSignedIn" /\ op'[r] = op[r] /\ dto'[r] = dto[r]
          /\ user'[r] = user[r] /\ wrote'[r] = wrote[r] /\ used' = used
        BY <1>1, <1>5 DEF IInv, TypeOK, Move, ReadOnly, table
    <2>2. Frame(r)
        BY <1>1, <1>5 DEF IInv, TypeOK, Move, ReadOnly, Frame
    <2>3. PlainTypeOK'
        BY <1>1, <1>5 DEF IInv, TypeOK, PlainTypeOK, Move, ReadOnly, table, Stage
    <2>4. Serving(r)' /\ PayloadOK(r)' /\ UserOK(r)' /\ TriesOK(r)' /\ WroteOK(r)'
        BY <1>1, <1>5, <2>1
           DEF RequestOK, Serving, PayloadOK, NewGoogle, UserOK, TriesOK, WroteOK, Stage, Refusal
    <2>5. HistoryOK(r)'
        <3>1. Visible' = Visible
            BY <1>1, ReadOnlyTable
        <3>2. user[r] \in grounds[r] \/ user[r] \notin Visible
            BY <1>1, <1>5 DEF RequestOK, HistoryOK, FindCreated
        <3> QED
            BY <2>1, <3>1, <3>2, Observed DEF HistoryOK
    <2> QED
        BY <1>1, <2>2, <2>3, <2>4, <2>5, ReadStep DEF RequestOK
<1>6. CASE Answer(r, "ok")
    BY <1>2, <1>6
<1>7. CASE Answer(r, "notFound") /\ user[r] \notin Visible
    BY <1>2, <1>7
<1>8. CASE FindCreated(r)
    BY <1>5, <1>6, <1>7, <1>8 DEF FindCreated
<1> QED
    BY <1>3, <1>4, <1>8

\* The account a sign-in has read, at the moment it has read it.
LEMMA SignInReadOK ==
    ASSUME IInv, NEW r \in Request, NEW i \in Accounts, ReadOnly, Observe,
           pc[r] \in {"readCredentials", "findGoogle"},
           i \in Entitled(r) \/ i \notin Visible,
           pc' = [pc EXCEPT ![r] = "findSignedIn"],
           user' = [user EXCEPT ![r] = i],
           UNCHANGED <<op, dto, tries>>
    PROVE  IInv'
<1>1. /\ pc'[r] = "findSignedIn" /\ op'[r] = op[r] /\ dto'[r] = dto[r]
      /\ user'[r] = i /\ wrote'[r] = wrote[r] /\ used' = used
    BY DEF IInv, TypeOK, ReadOnly, table
<1>2. RequestOK(r) /\ ~wrote[r] /\ op[r] \in {"login", "google"} /\ i \in used
    BY DEF IInv, RequestOK, Serving, WroteOK, Result, Refusal
<1>3. Frame(r)
    BY DEF IInv, TypeOK, ReadOnly, Frame
<1>4. PlainTypeOK'
    BY DEF IInv, TypeOK, PlainTypeOK, ReadOnly, table, Stage, Accounts
<1>5. Serving(r)' /\ PayloadOK(r)' /\ UserOK(r)' /\ TriesOK(r)' /\ WroteOK(r)'
    BY <1>1, <1>2
       DEF RequestOK, Serving, PayloadOK, NewGoogle, UserOK, TriesOK, WroteOK, Stage, Refusal
<1>6. HistoryOK(r)'
    <2>1. Visible' = Visible
        BY ReadOnlyTable
    <2>2. Entitled(r) \subseteq grounds[r]
        BY <1>2, NoneAssumption DEF RequestOK, HistoryOK, Op
    <2>3. /\ grounds'[r] = grounds[r] \cup Entitled(r)'
          /\ clashed'[r] = (clashed[r] \/ Clash(r)')
        BY <1>1, Observed
    <2>4. user'[r] \in grounds'[r] \/ user'[r] \notin Visible'
        BY <1>1, <2>1, <2>2, <2>3
    <2> QED
        BY <1>1, <2>3, <2>4 DEF HistoryOK
<1> QED
    BY <1>3, <1>4, <1>5, <1>6, ReadStep DEF RequestOK

\* The reads a sign-in begins with, but for the payload of a new Google account.
LEMMA CredentialsOK ==
    ASSUME IInv, NEW r \in Request, ReadCredentials(r), Observe
    PROVE  IInv'
<1>1. pc[r] \in Stage /\ ReadOnly /\ pc[r] = "readCredentials" /\ op[r] = "login"
      /\ ~wrote[r]
    BY DEF ReadCredentials, IInv, RequestOK, Serving, WroteOK, Stage, Result, Refusal
<1>2. CASE Answer(r, "unauthorized")
    BY <1>1, <1>2, AnswerOK DEF Result, Refusal
<1>3. ASSUME NEW i \in WithEmail(dto[r].email) \cup WithUsername(dto[r].username),
             i \in Visible, rows[i].active, rows[i].provider = "local",
             rows[i].password = dto[r].password,
             pc' = [pc EXCEPT ![r] = "findSignedIn"],
             user' = [user EXCEPT ![r] = i],
             UNCHANGED <<op, dto, tries>>
      PROVE  IInv'
    <2>1. i \in Accounts /\ i \in Entitled(r)
        BY <1>1, <1>3 DEF Entitled, Visible, WithEmail, WithUsername
    <2> QED
        BY <1>1, <1>3, <2>1, SignInReadOK
<1> QED
    BY <1>2, <1>3 DEF ReadCredentials

\* The read a password change begins with.
LEMMA FindPasswordOK ==
    ASSUME IInv, NEW r \in Request, FindPassword(r), Observe
    PROVE  IInv'
<1>1. /\ pc[r] = "findPassword" /\ pc[r] \in Stage /\ ReadOnly
      /\ RequestOK(r) /\ ~wrote[r] /\ op[r] = "password"
    BY DEF FindPassword, IInv, RequestOK, Serving, WroteOK, Stage, Result, Refusal
<1>2. ASSUME NEW result \in {"notFound", "badRequest"}, Answer(r, result)
      PROVE  IInv'
    BY <1>1, <1>2, AnswerOK DEF Result, Refusal
<1>3. CASE user[r] \in Accounts /\ rows[user[r]].password = dto[r].password
           /\ Move(r, "savePassword")
    <2>1. /\ pc'[r] = "savePassword" /\ op'[r] = op[r] /\ dto'[r] = dto[r]
          /\ user'[r] = user[r]
        BY <1>3 DEF IInv, TypeOK, Move
    <2>2. Serving(r)' /\ UserOK(r)' /\ PayloadOK(r)'
        BY <1>1, <2>1 DEF RequestOK, Serving, UserOK, PayloadOK, NewGoogle, Stage
    <2>3. user[r] \in grounds[r]
        BY <1>1, <1>3, NoneAssumption DEF Entitled, RequestOK, HistoryOK, Op
    <2> QED
        BY <1>1, <1>3, <2>2, <2>3, MoveOK DEF Stage
<1> QED
    BY <1>2, <1>3 DEF FindPassword

\* A Google sign-in that tries a name for a new account.
LEMMA TryNameOK ==
    ASSUME IInv, NEW r \in Request, NEW n \in Username, ReadOnly, Observe,
           pc[r] \in {"findGoogle", "tryName"},
           dto' = [dto EXCEPT ![r] = GooglePayload(@.email, n)],
           NEW to \in {"tryName", "checkEmail"}, pc' = [pc EXCEPT ![r] = to],
           NEW k \in 0..Attempts, tries' = [tries EXCEPT ![r] = k],
           to = "tryName" => k < Attempts,
           UNCHANGED <<op, user>>
    PROVE  IInv'
<1>1. /\ op[r] = "google" /\ user[r] = None /\ ~wrote[r] /\ dto[r].email \in Email
    BY DEF IInv, RequestOK, Serving, UserOK, PayloadOK, WroteOK, Result, Refusal
<1>2. /\ pc'[r] = to /\ op'[r] = "google" /\ dto'[r] = GooglePayload(dto[r].email, n)
      /\ user'[r] = None /\ wrote'[r] = wrote[r]
    BY <1>1 DEF IInv, TypeOK, ReadOnly
<1>3. Frame(r)
    BY DEF IInv, TypeOK, ReadOnly, Frame
<1>4. PlainTypeOK'
    <2>1. GooglePayload(dto[r].email, n) \in Dto
        BY <1>1 DEF GooglePayload, NoBody, Dto, Provider
    <2> QED
        BY <2>1 DEF IInv, TypeOK, PlainTypeOK, ReadOnly, table, Stage
<1>5. PayloadOK(r)'
    <2> DEFINE g == GooglePayload(dto[r].email, n)
    <2>1. g.email = dto[r].email /\ g.username = n /\ g.provider = "google" /\ g.active = TRUE
        BY DEF GooglePayload, NoBody
    <2> HIDE DEF g
    <2>2. dto'[r] = g
        BY <1>2 DEF g
    <2> QED
        BY <1>1, <1>2, <2>1, <2>2 DEF PayloadOK, NewGoogle, Provider
<1>6. Serving(r)' /\ UserOK(r)' /\ WroteOK(r)'
    BY <1>1, <1>2 DEF Serving, UserOK, WroteOK, Stage
<1>7. TriesOK(r)'
    BY <1>2 DEF IInv, TypeOK, TriesOK, Stage
<1>8. HistoryOK(r)'
    BY <1>2, Observed DEF HistoryOK
<1> QED
    BY <1>3, <1>4, <1>5, <1>6, <1>7, <1>8, ReadStep DEF RequestOK

\* The names of a new Google account.
LEMMA NamesOK ==
    ASSUME IInv, NEW r \in Request, NameFree(r) \/ NameTaken(r), Observe
    PROVE  IInv'
<1>1. /\ pc[r] = "tryName" /\ pc[r] \in Stage /\ ReadOnly
      /\ RequestOK(r) /\ ~wrote[r] /\ op[r] = "google" /\ user[r] = None
    BY DEF NameFree, NameTaken, IInv, RequestOK, Serving, UserOK, WroteOK, Stage, Result, Refusal
<1>2. CASE NameFree(r)
    <2>1. /\ pc'[r] = "checkEmail" /\ op'[r] = op[r] /\ dto'[r] = dto[r]
          /\ user'[r] = user[r] /\ Move(r, "checkEmail")
        BY <1>2 DEF IInv, TypeOK, Move, NameFree
    <2>2. Serving(r)' /\ UserOK(r)' /\ PayloadOK(r)'
        BY <1>1, <2>1 DEF RequestOK, Serving, UserOK, PayloadOK, NewGoogle, Stage
    <2> QED
        BY <1>1, <2>1, <2>2, MoveOK DEF Stage
<1>3. CASE NameTaken(r)
    <2>1. tries[r] + 1 \in 0..Attempts /\ (tries[r] + 1 # Attempts => tries[r] + 1 < Attempts)
        BY <1>1, AttemptsAssumption DEF IInv, TypeOK, RequestOK, TriesOK
    <2>2. tries' = [tries EXCEPT ![r] = tries[r] + 1]
        BY <1>3 DEF NameTaken
    <2>3. PICK n \in Username : dto' = [dto EXCEPT ![r] = GooglePayload(@.email, n)]
        BY <1>3 DEF NameTaken
    <2> DEFINE to == IF tries[r] + 1 = Attempts THEN "checkEmail" ELSE "tryName"
    <2>4. pc' = [pc EXCEPT ![r] = to] /\ UNCHANGED <<op, user>>
        BY <1>3 DEF NameTaken
    <2>5. to \in {"tryName", "checkEmail"} /\ (to = "tryName" => tries[r] + 1 < Attempts)
        BY <2>1
    <2> HIDE DEF to
    <2> QED
        BY <1>1, <2>1, <2>2, <2>3, <2>4, <2>5, TryNameOK
<1> QED
    BY <1>2, <1>3

\* Sign-in with Google: a new account, a known one, or a locked one.
LEMMA FindGoogleOK ==
    ASSUME IInv, NEW r \in Request, FindGoogle(r), Observe
    PROVE  IInv'
<1>1. /\ pc[r] = "findGoogle" /\ pc[r] \in Stage /\ ReadOnly
      /\ RequestOK(r) /\ ~wrote[r] /\ op[r] = "google"
    BY DEF FindGoogle, IInv, RequestOK, Serving, WroteOK, Stage, Result, Refusal
<1>2. ASSUME NEW n \in Username,
             dto' = [dto EXCEPT ![r] = GooglePayload(@.email, n)],
             pc' = [pc EXCEPT ![r] = "tryName"],
             UNCHANGED <<op, user, tries>>
      PROVE  IInv'
    <2>1. tries[r] \in 0..Attempts /\ tries[r] < Attempts
        BY <1>1 DEF IInv, TypeOK, RequestOK, TriesOK
    <2>2. tries' = [tries EXCEPT ![r] = tries[r]]
        BY <1>2 DEF IInv, TypeOK
    <2> QED
        BY <1>1, <1>2, <2>1, <2>2, TryNameOK
<1>3. CASE Answer(r, "unauthorized")
    BY <1>1, <1>3, AnswerOK DEF Result, Refusal
<1>4. ASSUME NEW i \in WithEmail(dto[r].email), rows[i].active,
             user' = [user EXCEPT ![r] = i],
             pc' = [pc EXCEPT ![r] = "findSignedIn"],
             UNCHANGED <<op, dto, tries>>
      PROVE  IInv'
    <2>1. i \in Accounts /\ (i \in Entitled(r) \/ i \notin Visible)
        BY <1>1, <1>4 DEF Entitled, WithEmail
    <2> QED
        BY <1>1, <1>4, <2>1, SignInReadOK
<1> QED
    BY <1>2, <1>3, <1>4 DEF FindGoogle

-----------------------------------------------------------------------------
(* Steps that write.                                                       *)

\* A row may be written for a new account, or for one there is, if no other account
\* has its keys and it does not bring a deleted account back.
LEMMA WriteTable ==
    ASSUME IInv, NEW i \in Id, NEW row \in Row,
           rows' = [rows EXCEPT ![i] = row],
           used' = used \cup {i},
           i \notin used \/ (i \in Accounts /\ (rows[i].deleted => row.deleted)),
           \A j \in Accounts \ {i} : rows[j].email # row.email /\ rows[j].username # row.username
    PROVE  /\ rows' \in [Id -> Row \cup {None}] /\ used' \subseteq Id
           /\ Mono /\ UniqueKeys'
           /\ i \in Accounts' /\ (i \in Visible' <=> ~row.deleted)
<1>1. /\ rows \in [Id -> Row \cup {None}] /\ used \subseteq Id /\ Accounts \subseteq used
      /\ rows' \in [Id -> Row \cup {None}] /\ row # None
    BY NoneAssumption DEF IInv, TypeOK
<1>2. rows'[i] = row /\ \A j \in Id \ {i} : rows'[j] = rows[j]
    BY <1>1
<1>3. Accounts' = Accounts \cup {i}
    BY <1>1, <1>2 DEF Accounts
<1>4. \A j \in Id \ {i} : j \in Visible' <=> j \in Visible
    BY <1>2, <1>3 DEF Visible
<1>5. i \in Visible' <=> ~row.deleted
    BY <1>2, <1>3 DEF Visible
<1>6. Mono
    BY <1>1, <1>3, <1>4, <1>5 DEF Mono, Visible
<1>7. UniqueKeys'
    <2> SUFFICES ASSUME NEW j \in Accounts', NEW k \in Accounts', k # j
                 PROVE  rows'[k].email # rows'[j].email /\ rows'[k].username # rows'[j].username
        BY DEF UniqueKeys, Others, WithEmail, WithUsername
    <2>1. CASE j = i \/ k = i
        BY <1>2, <1>3, <2>1 DEF Accounts
    <2>2. CASE j # i /\ k # i
        BY <1>2, <1>3, <2>2
           DEF IInv, UniqueKeys, Others, WithEmail, WithUsername, Accounts
    <2> QED
        BY <2>1, <2>2
<1> QED
    BY <1>1, <1>3, <1>5, <1>6, <1>7

\* A new account.  A Google sign-in is entitled to the one it has made.
LEMMA InsertOK ==
    ASSUME IInv, NEW r \in Request, NEW i \in Id, Insert(r, i), Observe
    PROVE  IInv'
<1> DEFINE row == [email |-> dto[r].email, username |-> dto[r].username,
                   password |-> dto[r].password, provider |-> dto[r].provider,
                   active |-> dto[r].active, deleted |-> FALSE]
<1>1. /\ pc[r] = "insert" /\ RequestOK(r) /\ op[r] \in {"create", "google"}
      /\ dto[r] \in Dto /\ i \notin used
    BY DEF Insert, IInv, TypeOK, RequestOK, Serving
<1>2. row \in Row
    <2>1. /\ dto[r].email \in Email /\ dto[r].username \in Username
          /\ dto[r].provider \in Provider /\ dto[r].active \in BOOLEAN
        BY <1>1 DEF RequestOK, PayloadOK, NewGoogle
    <2>2. dto[r].password \in Password \cup {None}
        BY <1>1 DEF Dto
    <2> QED
        BY <2>1, <2>2 DEF Row
<1>3. /\ row.email = dto[r].email /\ row.username = dto[r].username /\ ~row.deleted
      /\ row.active = dto[r].active
    OBVIOUS
<1>4. rows' = [rows EXCEPT ![i] = row] /\ used' = used \cup {i}
    BY DEF Insert, Write
<1> HIDE DEF row
<1>5. \A j \in Accounts \ {i} : rows[j].email # row.email /\ rows[j].username # row.username
    <2>1. Others(None, dto[r].email, dto[r].username) = {}
        BY DEF Insert, IndexRefuses
    <2>2. \A j \in Accounts : j # None
        BY NoneAssumption DEF Accounts
    <2> QED
        BY <1>3, <2>1, <2>2 DEF Others, WithEmail, WithUsername
<1>6. /\ rows' \in [Id -> Row \cup {None}] /\ used' \subseteq Id
      /\ Mono /\ UniqueKeys' /\ i \in Accounts' /\ i \in Visible'
    BY <1>1, <1>2, <1>3, <1>4, <1>5, WriteTable
<1>7. /\ pc'[r] = "findCreated" /\ op'[r] = op[r] /\ dto'[r] = dto[r]
      /\ user'[r] = i /\ tries'[r] = tries[r]
    BY DEF IInv, TypeOK, Insert
<1>8. Frame(r)
    BY DEF IInv, TypeOK, Insert, Write, Frame
<1>9. PlainTypeOK'
    BY <1>6 DEF IInv, TypeOK, PlainTypeOK, Insert, Write, Stage
<1>10. Serving(r)' /\ PayloadOK(r)' /\ UserOK(r)' /\ TriesOK(r)' /\ WroteOK(r)'
    BY <1>1, <1>4, <1>7
       DEF RequestOK, Serving, PayloadOK, NewGoogle, UserOK, TriesOK, WroteOK, Stage, Refusal
<1>11. HistoryOK(r)'
    <2>1. /\ grounds'[r] = grounds[r] \cup Entitled(r)'
          /\ clashed'[r] = (clashed[r] \/ Clash(r)')
        BY <1>7, Observed
    <2>2. op[r] = "google" => i \in Entitled(r)'
        <3>1. rows'[i] = row
            BY <1>4 DEF IInv, TypeOK
        <3>2. op[r] = "google" => row.active
            BY <1>1, <1>3 DEF RequestOK, PayloadOK, NewGoogle
        <3> QED
            BY <1>3, <1>6, <1>7, <3>1, <3>2 DEF Entitled
    <2> QED
        BY <1>7, <2>1, <2>2 DEF HistoryOK
<1> QED
    BY <1>6, <1>8, <1>9, <1>10, <1>11, OneRequest DEF RequestOK

\* A write that is the last statement of its request.
LEMMA LastWrite ==
    ASSUME IInv, NEW r \in Request, pc[r] \in {"delete", "savePassword"}, Answer(r, "ok"),
           Observe, Mono, UniqueKeys', rows' \in [Id -> Row \cup {None}], used' = used,
           wrote' = [wrote EXCEPT ![r] = TRUE]
    PROVE  IInv'
<1>1. /\ pc'[r] = "ok" /\ op'[r] = None /\ dto'[r] = NoBody
      /\ user'[r] = user[r] /\ tries'[r] = 0
    BY DEF IInv, TypeOK, Answer
<1>2. Frame(r)
    BY DEF IInv, TypeOK, Answer, Frame
<1>3. PlainTypeOK'
    BY NoneAssumption, AttemptsAssumption
       DEF IInv, TypeOK, PlainTypeOK, Answer, NoBody, Dto, Result
<1>4. RequestOK(r)'
    BY <1>1, NoneAssumption
       DEF RequestOK, Serving, PayloadOK, NewGoogle, UserOK, TriesOK, HistoryOK, WroteOK, Op,
           Stage, Result, Refusal
<1> QED
    BY <1>2, <1>3, <1>4, OneRequest

\* Removal for good.
LEMMA HardDeleteOK ==
    ASSUME IInv, NEW r \in Request, HardDelete(r), Observe
    PROVE  IInv'
<1>1. /\ pc[r] = "delete" /\ rows' = [rows EXCEPT ![user[r]] = None] /\ used' = used
      /\ Answer(r, "ok") /\ wrote' = [wrote EXCEPT ![r] = TRUE]
    BY DEF HardDelete, Write
<1>2. rows' \in [Id -> Row \cup {None}]
    BY <1>1 DEF IInv, TypeOK
<1>3. \A j \in Accounts' : j \in Accounts /\ rows'[j] = rows[j]
    BY <1>1, NoneAssumption DEF IInv, TypeOK, Accounts
<1>4. Mono
    BY <1>1, <1>3 DEF IInv, Mono, Visible
<1>5. UniqueKeys'
    <2> SUFFICES ASSUME NEW j \in Accounts'
                 PROVE  Others(j, rows[j].email, rows[j].username)' = {}
        BY <1>3 DEF UniqueKeys
    <2> QED
        BY <1>3 DEF IInv, UniqueKeys, Others, WithEmail, WithUsername
<1> QED
    BY <1>1, <1>2, <1>4, <1>5, LastWrite

\* A write that leaves the keys of its account alone disturbs nobody.
LEMMA KeepsKeys ==
    ASSUME IInv, NEW i \in Accounts, NEW row \in Row,
           rows' = [rows EXCEPT ![i] = row], used' = used,
           row.email = rows[i].email, row.username = rows[i].username,
           rows[i].deleted => row.deleted
    PROVE  rows' \in [Id -> Row \cup {None}] /\ Mono /\ UniqueKeys'
<1>1. i \in Id /\ used' = used \cup {i}
    BY DEF IInv, Accounts
<1>2. \A j \in Accounts \ {i} : rows[j].email # row.email /\ rows[j].username # row.username
    BY DEF IInv, UniqueKeys, Others, WithEmail, WithUsername
<1> QED
    BY <1>1, <1>2, WriteTable

\* Removal that keeps the row.
LEMMA SoftDeleteOK ==
    ASSUME IInv, NEW r \in Request, SoftDelete(r), Observe
    PROVE  IInv'
<1>1. pc[r] = "delete" /\ pc[r] \in Stage /\ ~wrote[r]
    BY DEF SoftDelete, Stage, IInv, RequestOK, WroteOK, Result, Refusal
<1>2. CASE Answer(r, "notFound") /\ ReadOnly
    BY <1>1, <1>2, AnswerOK DEF Result, Refusal
<1>3. CASE user[r] \in Accounts /\ Write(r, user[r], [rows[user[r]] EXCEPT !.deleted = TRUE])
           /\ Answer(r, "ok") /\ UNCHANGED used
    <2> DEFINE row == [rows[user[r]] EXCEPT !.deleted = TRUE]
    <2>1. rows[user[r]] \in Row
        BY <1>3 DEF IInv, TypeOK, Accounts
    <2>2. /\ row \in Row /\ row.deleted
          /\ row.email = rows[user[r]].email /\ row.username = rows[user[r]].username
        BY <2>1 DEF Row
    <2>3. rows' = [rows EXCEPT ![user[r]] = row] /\ wrote' = [wrote EXCEPT ![r] = TRUE]
        BY <1>3 DEF Write
    <2> HIDE DEF row
    <2>4. rows' \in [Id -> Row \cup {None}] /\ Mono /\ UniqueKeys'
        BY <1>3, <2>2, <2>3, KeepsKeys
    <2> QED
        BY <1>1, <1>3, <2>3, <2>4, LastWrite
<1> QED
    BY <1>2, <1>3 DEF SoftDelete

\* The write of a password change.
LEMMA SavePasswordOK ==
    ASSUME IInv, NEW r \in Request, SavePassword(r), Observe
    PROVE  IInv'
<1>1. /\ pc[r] = "savePassword" /\ pc[r] \in Stage /\ Answer(r, "ok")
      /\ op[r] = "password" /\ dto[r].next \in Password
    BY NoneAssumption
       DEF SavePassword, Stage, IInv, RequestOK, Serving, PayloadOK
<1>2. CASE ReadOnly
    BY <1>1, <1>2, AnswerOK DEF Result, Refusal
<1>3. CASE user[r] \in Accounts /\ UNCHANGED used
           /\ Write(r, user[r], [rows[user[r]] EXCEPT !.password = dto[r].next])
    <2> DEFINE row == [rows[user[r]] EXCEPT !.password = dto[r].next]
    <2>1. rows[user[r]] \in Row
        BY <1>3 DEF IInv, TypeOK, Accounts
    <2>2. /\ row \in Row /\ row.deleted = rows[user[r]].deleted
          /\ row.email = rows[user[r]].email /\ row.username = rows[user[r]].username
        BY <1>1, <2>1 DEF Row
    <2>3. rows' = [rows EXCEPT ![user[r]] = row] /\ wrote' = [wrote EXCEPT ![r] = TRUE]
        BY <1>3 DEF Write
    <2> HIDE DEF row
    <2>4. rows' \in [Id -> Row \cup {None}] /\ Mono /\ UniqueKeys'
        BY <1>3, <2>2, <2>3, KeepsKeys
    <2> QED
        BY <1>1, <1>3, <2>3, <2>4, LastWrite
<1> QED
    BY <1>2, <1>3 DEF SavePassword

\* The write of an update.
LEMMA ApplyUpdateOK ==
    ASSUME IInv, NEW r \in Request, ApplyUpdate(r), Observe
    PROVE  IInv'
<1> DEFINE i == user[r]
           row == [rows[i] EXCEPT !.email = Set(dto[r].email, @),
                                  !.username = Set(dto[r].username, @),
                                  !.provider = Set(dto[r].provider, @),
                                  !.active = Set(dto[r].active, @)]
<1>1. /\ pc[r] = "applyUpdate" /\ RequestOK(r) /\ op[r] = "update" /\ dto[r] \in Dto
      /\ i \in Accounts /\ i \in Id /\ rows[i] \in Row /\ i \in used
    BY DEF ApplyUpdate, IInv, TypeOK, RequestOK, Serving, Accounts
<1>2. /\ row.email = Set(dto[r].email, rows[i].email)
      /\ row.username = Set(dto[r].username, rows[i].username)
      /\ row.deleted = rows[i].deleted
    <2> HIDE DEF i
    <2> QED
        BY <1>1 DEF Row
<1>3. row \in Row
    <2>1. /\ dto[r].email \in Email \cup {None} /\ dto[r].username \in Username \cup {None}
          /\ dto[r].provider \in Provider \cup {None} /\ dto[r].active \in BOOLEAN \cup {None}
        BY <1>1 DEF Dto
    <2>2. /\ Set(dto[r].email, rows[i].email) \in Email
          /\ Set(dto[r].username, rows[i].username) \in Username
          /\ Set(dto[r].provider, rows[i].provider) \in Provider
          /\ Set(dto[r].active, rows[i].active) \in BOOLEAN
        BY <1>1, <2>1 DEF Row, Set
    <2> QED
        BY <1>1, <2>2 DEF Row
<1>4. /\ rows' = [rows EXCEPT ![i] = row] /\ used' = used /\ Move(r, "findUpdated")
      /\ wrote' = [wrote EXCEPT ![r] = TRUE]
    BY DEF ApplyUpdate, Write
<1> HIDE DEF row
<1>5. \A j \in Accounts \ {i} : rows[j].email # row.email /\ rows[j].username # row.username
    <2>1. \A j \in Accounts \ {i} : rows[j].email # dto[r].email /\ rows[j].username # dto[r].username
        BY DEF ApplyUpdate, IndexRefuses, Others, WithEmail, WithUsername
    <2>2. \A j \in Accounts \ {i} :
            rows[j].email # rows[i].email /\ rows[j].username # rows[i].username
        BY <1>1 DEF IInv, UniqueKeys, Others, WithEmail, WithUsername
    <2> QED
        BY <1>2, <2>1, <2>2 DEF Set
<1>6. rows' \in [Id -> Row \cup {None}] /\ Mono /\ UniqueKeys'
    <2>1. used' = used \cup {i}
        BY <1>1, <1>4
    <2>2. rows[i].deleted => row.deleted
        BY <1>2
    <2> HIDE DEF i
    <2> QED
        BY <1>1, <1>3, <1>4, <1>5, <2>1, <2>2, WriteTable
<1>7. /\ pc'[r] = "findUpdated" /\ op'[r] = op[r] /\ dto'[r] = dto[r]
      /\ user'[r] = user[r] /\ tries'[r] = tries[r]
    BY <1>4 DEF IInv, TypeOK, Move
<1>8. Frame(r)
    BY <1>4 DEF IInv, TypeOK, Move, Frame
<1>9. PlainTypeOK'
    BY <1>4, <1>6 DEF IInv, TypeOK, PlainTypeOK, Move, Stage
<1>10. Serving(r)' /\ PayloadOK(r)' /\ UserOK(r)' /\ TriesOK(r)' /\ WroteOK(r)'
    BY <1>1, <1>4, <1>7
       DEF RequestOK, Serving, PayloadOK, NewGoogle, UserOK, TriesOK, WroteOK, Stage, Refusal
<1>11. HistoryOK(r)'
    BY <1>7, Observed DEF HistoryOK
<1> QED
    BY <1>6, <1>8, <1>9, <1>10, <1>11, OneRequest DEF RequestOK

-----------------------------------------------------------------------------
(* The theorems.                                                           *)

\* Every step keeps the inductive invariant.
LEMMA NextIInv == IInv /\ [Next]_vars => IInv'
<1> SUFFICES ASSUME IInv, [Next]_vars PROVE IInv'
    OBVIOUS
<1>1. CASE UNCHANGED vars
    BY <1>1
       DEF vars, table, request, IInv, TypeOK, UniqueKeys, RequestOK, Serving, PayloadOK,
           NewGoogle, UserOK, TriesOK, HistoryOK, WroteOK, Entitled, Clash, Accounts, Visible,
           Others, WithEmail, WithUsername
<1>2. ASSUME NEW r \in Request, Observe, Step(r) PROVE IInv'
    <2>1. CASE CheckEmail(r) \/ CheckUsername(r)
        BY <1>2, <2>1, ChecksOK
    <2>2. CASE \E i \in Id : Insert(r, i)
        BY <1>2, <2>2, InsertOK
    <2>3. CASE InsertRefused(r) \/ UpdateRefused(r)
        BY <1>2, <2>3, RefusedOK
    <2>4. CASE FindCreated(r) \/ FindUpdated(r) \/ FindSignedIn(r)
        BY <1>2, <2>4, FoundOK
    <2>5. CASE AssertExists(r) \/ FindForRemoval(r)
        BY <1>2, <2>5, FindersOK
    <2>6. CASE ApplyUpdate(r)
        BY <1>2, <2>6, ApplyUpdateOK
    <2>7. CASE HardDelete(r)
        BY <1>2, <2>7, HardDeleteOK
    <2>8. CASE SoftDelete(r)
        BY <1>2, <2>8, SoftDeleteOK
    <2>9. CASE FindPassword(r)
        BY <1>2, <2>9, FindPasswordOK
    <2>10. CASE SavePassword(r)
        BY <1>2, <2>10, SavePasswordOK
    <2>11. CASE ReadCredentials(r)
        BY <1>2, <2>11, CredentialsOK
    <2>12. CASE FindGoogle(r)
        BY <1>2, <2>12, FindGoogleOK
    <2>13. CASE NameFree(r) \/ NameTaken(r)
        BY <1>2, <2>13, NamesOK
    <2>14. CASE Respond(r)
        BY <1>2, <2>14, RespondOK
    <2> QED
        BY <1>2, <2>1, <2>2, <2>3, <2>4, <2>5, <2>6, <2>7, <2>8, <2>9, <2>10, <2>11, <2>12,
           <2>13, <2>14 DEF Step
<1>3. ASSUME NEW r \in Request, Observe, Arrive(r) PROVE IInv'
    BY <1>3, ArriveOK
<1>4. ASSUME NEW r \in Request, Observe, Fail(r) PROVE IInv'
    BY <1>4, FailOK
<1> QED
    BY <1>1, <1>2, <1>3, <1>4 DEF Next

\* The inductive invariant holds in every reachable state.
THEOREM Invariance == Spec => []IInv
BY InitIInv, NextIInv, PTL DEF Spec

\* Every variable keeps its type.
THEOREM TypeCorrect == Spec => []TypeOK
<1>1. IInv => TypeOK
    BY DEF IInv
<1> QED
    BY <1>1, Invariance, PTL

\* No email and no username is ever that of two accounts, for any number of
\* overlapping registrations, Google sign-ins and updates.
THEOREM KeysAlwaysUnique == Spec => []UniqueKeys
<1>1. IInv => UniqueKeys
    BY DEF IInv
<1> QED
    BY <1>1, Invariance, PTL

\* Nobody is signed in to an account that he was not entitled to at one moment of
\* his request.
THEOREM SignInsJustified == Spec => []SignInJustified
<1>1. IInv => SignInJustified
    BY DEF IInv, SignInJustified, RequestOK, HistoryOK
<1> QED
    BY <1>1, Invariance, PTL

\* No request is refused for a key that nobody else had.
THEOREM ClashesAlwaysReal == Spec => []ClashesAreReal
<1>1. IInv => ClashesAreReal
    BY DEF IInv, ClashesAreReal, RequestOK, HistoryOK
<1> QED
    BY <1>1, Invariance, PTL

\* A refused request has left no trace, but for an update of a deleted account.
THEOREM RefusalsHarmless == Spec => []RefusalsChangeNothing
<1>1. IInv => RefusalsChangeNothing
    BY DEF IInv, RefusalsChangeNothing, RequestOK, WroteOK
<1> QED
    BY <1>1, Invariance, PTL

\* Only who knew a password of the account while being served changes it, and to
\* the one he asked for.
THEOREM PasswordsAlwaysProved == Spec => PasswordsProved
<1> DEFINE Proved ==
        \A i \in Accounts :
            rows'[i] # None /\ rows'[i].password # rows[i].password =>
                \E r \in Request : /\ op[r] = "password" /\ user[r] = i
                                   /\ i \in grounds[r]
                                   /\ rows'[i].password = dto[r].next
<1>1. ASSUME IInv, [Next]_vars PROVE Proved
    <2> SUFFICES ASSUME NEW i \in Accounts, rows'[i] # None,
                        rows'[i].password # rows[i].password
                 PROVE  \E r \in Request : /\ op[r] = "password" /\ user[r] = i
                                           /\ i \in grounds[r]
                                           /\ rows'[i].password = dto[r].next
        OBVIOUS
    <2>1. i \in Id /\ rows[i] \in Row /\ rows \in [Id -> Row \cup {None}] /\ i \in used
        BY <1>1 DEF IInv, TypeOK, Accounts
    <2>2. PICK r \in Request : rows' # rows /\ (Arrive(r) \/ Step(r) \/ Fail(r))
        BY <1>1 DEF Next, vars, table
    <2>3. PICK q \in Request :
             \/ \E j \in Id : Insert(q, j)
             \/ ApplyUpdate(q) \/ HardDelete(q) \/ SoftDelete(q) \/ SavePassword(q)
        BY <2>2
           DEF Arrive, Create, Start, Step, Fail, Respond, ReadOnly, table, CheckEmail,
               CheckUsername, InsertRefused, FindCreated, AssertExists, UpdateRefused,
               FindUpdated, FindForRemoval, FindPassword, ReadCredentials, FindGoogle,
               NameFree, NameTaken, FindSignedIn
    <2>4. ASSUME NEW j \in Id, Insert(q, j) PROVE FALSE
        BY <2>1, <2>4 DEF Insert, Write
    <2>5. ASSUME ApplyUpdate(q) PROVE FALSE
        <3> DEFINE row == [rows[user[q]] EXCEPT !.email = Set(dto[q].email, @),
                                                !.username = Set(dto[q].username, @),
                                                !.provider = Set(dto[q].provider, @),
                                                !.active = Set(dto[q].active, @)]
        <3>1. rows[user[q]] \in Row
            BY <1>1, <2>5 DEF IInv, TypeOK, ApplyUpdate, Accounts
        <3>2. row.password = rows[user[q]].password
            BY <3>1 DEF Row
        <3>3. rows' = [rows EXCEPT ![user[q]] = row]
            BY <2>5 DEF ApplyUpdate, Write
        <3> HIDE DEF row
        <3> QED
            BY <2>1, <3>2, <3>3
    <2>6. ~HardDelete(q)
        BY <2>1 DEF HardDelete, Write
    <2>7. ~SoftDelete(q)
        BY <2>1, <2>2 DEF SoftDelete, Write, Row, ReadOnly, table
    <2>8. CASE SavePassword(q)
        <3>1. /\ op[q] = "password" /\ user[q] \in grounds[q] /\ user[q] \in Id
            BY <1>1, <2>8 DEF IInv, TypeOK, RequestOK, Serving, UserOK, HistoryOK, SavePassword, Stage
        <3>2. rows' = [rows EXCEPT ![user[q]] = [rows[user[q]] EXCEPT !.password = dto[q].next]]
            BY <2>2, <2>8 DEF SavePassword, Write, ReadOnly, table
        <3>3. user[q] = i
            BY <2>1, <3>1, <3>2
        <3>4. rows'[i].password = dto[q].next
            BY <2>1, <3>2, <3>3 DEF Row
        <3> QED
            BY <3>1, <3>3, <3>4
    <2> QED
        BY <2>3, <2>4, <2>5, <2>6, <2>7, <2>8
<1>2. IInv /\ [Next]_vars => [Proved]_vars
    BY <1>1
<1> QED
    BY <1>2, Invariance, PTL DEF Spec, PasswordsProved
=============================================================================
