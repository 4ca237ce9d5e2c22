--------------------------- MODULE TokenLifecycle ---------------------------
(***************************************************************************)
(* The life of the access and refresh tokens of the accounts API: signing, *)
(* the guard of protected routes, refresh, logout, the blacklist table and *)
(* its clean-up, with requests that interleave at every await.             *)
(*                                                                         *)
(* Time is counted in seconds, the unit of the iat and exp claims.  A      *)
(* token is the triple that decides its bytes: the secret it was signed    *)
(* with (its kind), the signed payload and iat.  The service adds no jti   *)
(* claim, so two tokens equal in all three are the same string and have    *)
(* the same row key (tokenHash) in the blacklist.                          *)
(***************************************************************************)
EXTENDS Naturals

CONSTANTS
    Payload,     \* signed payloads {sub, email, role}
    Request,     \* slots for the requests in flight
    AccessTtl,   \* JWT_ACCESS_TOKEN_EXPIRES_IN, in seconds
    RefreshTtl,  \* JWT_REFRESH_TOKEN_EXPIRES_IN, in seconds
    MaxTime,     \* bound: the clock stops here
    NoToken, NoPayload

\* Both lifetimes are positive, as the JWT library requires of expiresIn.
ASSUME TtlAssumption ==
    /\ AccessTtl \in Nat \ {0}
    /\ RefreshTtl \in Nat \ {0}
    /\ MaxTime \in Nat

ASSUME NullAssumption ==
    /\ NoPayload \notin Payload
    /\ NoToken \notin [kind : {"access", "refresh"}, payload : Payload, iat : Nat]

VARIABLES
    now,        \* wall clock, in seconds
    held,       \* tokens that reached a client
    blacklist,  \* tokens with a row in accounts.token_blacklist
    revoked,    \* history: every token ever written to the table
    pc,         \* where each request stands
    token,      \* the token the request carries
    payload,    \* the payload the request will sign
    asOf,       \* the date bound to the request's blacklist query
    late,       \* history: the token was already revoked on arrival
    waiting     \* the client has not been answered yet (408 or otherwise)

request == <<pc, token, payload, asOf, late, waiting>>
vars == <<now, held, blacklist, revoked, request>>

Kind == {"access", "refresh"}
Time == 0 .. MaxTime
Token == [kind : Kind, payload : Payload, iat : Time]

Ttl(k) == IF k = "access" THEN AccessTtl ELSE RefreshTtl

\* The exp claim; getJwtExpirationDate makes it the row's expiresAt.
Exp(t) == t.iat + Ttl(t.kind)

\* The pair generateTokens signs: both signatures start in one turn.
Tokens(p, t) == { [kind |-> k, payload |-> p, iat |-> t] : k \in Kind }

\* Where a request can be suspended: "idle" is a free slot; "signLogin" waits
\* for generateTokens; "validate" and "checkAccess" are the two halves of the
\* guard, "authorized" the handler behind it; the rest is refreshTokens.
Stage ==
    {"idle", "signLogin", "validate", "checkAccess", "authorized",
     "checkRefresh", "verifyRefresh", "consume", "signRefreshed"}

TypeOK ==
    /\ now \in Time
    /\ held \subseteq Token
    /\ blacklist \subseteq Token
    /\ revoked \subseteq Token
    /\ pc \in [Request -> Stage]
    /\ token \in [Request -> Token \cup {NoToken}]
    /\ payload \in [Request -> Payload \cup {NoPayload}]
    /\ asOf \in [Request -> Time]
    /\ late \in [Request -> BOOLEAN]
    /\ waiting \in [Request -> BOOLEAN]

Init ==
    /\ now = 0
    /\ held = {}
    /\ blacklist = {}
    /\ revoked = {}
    /\ pc = [r \in Request |-> "idle"]
    /\ token = [r \in Request |-> NoToken]
    /\ payload = [r \in Request |-> NoPayload]
    /\ asOf = [r \in Request |-> 0]
    /\ late = [r \in Request |-> FALSE]
    /\ waiting = [r \in Request |-> FALSE]

-----------------------------------------------------------------------------
(* Steps every handler is made of.                                         *)

\* A request takes a free slot.
Arrive(r, stage) ==
    /\ pc[r] = "idle"
    /\ pc' = [pc EXCEPT ![r] = stage]
    /\ waiting' = [waiting EXCEPT ![r] = TRUE]

\* The request carries t; whether t was revoked by then is remembered.
Present(r, t) ==
    /\ t \in held
    /\ token' = [token EXCEPT ![r] = t]
    /\ late' = [late EXCEPT ![r] = t \in revoked]

Advance(r, from, to) ==
    /\ pc[r] = from
    /\ pc' = [pc EXCEPT ![r] = to]

\* The handler returns or throws and the slot is free again.
Finish(r) ==
    /\ pc' = [pc EXCEPT ![r] = "idle"]
    /\ token' = [token EXCEPT ![r] = NoToken]
    /\ payload' = [payload EXCEPT ![r] = NoPayload]
    /\ asOf' = [asOf EXCEPT ![r] = 0]
    /\ late' = [late EXCEPT ![r] = FALSE]
    /\ waiting' = [waiting EXCEPT ![r] = FALSE]

\* jsonwebtoken: a token is expired from the second its exp names.
Unexpired(t) == now < Exp(t)

\* Mistake, for mutation: the comparison with the date the wrong way round.
IsTokenBlacklisted_Flipped(t, date) == t \in blacklist /\ Exp(t) <= date

\* findOne({ tokenHash, expiresAt: MoreThan(date) }).
IsTokenBlacklisted(t, date) == t \in blacklist /\ Exp(t) > date

\* The upsert on tokenHash commits.  exp is always readable: t was verified.
AddToBlacklist(t) ==
    /\ blacklist' = blacklist \cup {t}
    /\ revoked' = revoked \cup {t}

\* The pair is signed now; it reaches the client unless it was answered 408.
GenerateTokens(r) ==
    held' = IF waiting[r] THEN held \cup Tokens(payload[r], now) ELSE held

-----------------------------------------------------------------------------
(* Login, registration and the Google callback: the account is validated   *)
(* (or created) and generateTokens signs its payload.                      *)

StartLogin(r, p) ==
    /\ Arrive(r, "signLogin")
    /\ payload' = [payload EXCEPT ![r] = p]
    /\ UNCHANGED <<now, held, blacklist, revoked, token, asOf, late>>

SignLogin(r) ==
    /\ pc[r] = "signLogin"
    /\ GenerateTokens(r)
    /\ Finish(r)
    /\ UNCHANGED <<now, blacklist, revoked>>

-----------------------------------------------------------------------------
(* The guard of protected routes: passport verifies the signature and exp, *)
(* then validate asks the blacklist.  A rejection is a 401 and changes     *)
(* nothing, so a token that fails at once needs no action.                 *)

StartGuard(r, t) ==
    /\ Arrive(r, "validate")
    /\ Present(r, t)
    /\ t.kind = "access"
    /\ Unexpired(t)
    /\ UNCHANGED <<now, held, blacklist, revoked, payload, asOf>>

\* Mistake, for mutation: a second of leeway in the date of the query.
Validate_Leeway(r) ==
    /\ Advance(r, "validate", "checkAccess")
    /\ asOf' = [asOf EXCEPT ![r] = now + 1]
    /\ UNCHANGED <<now, held, blacklist, revoked, token, payload, late, waiting>>

\* validate binds new Date() to the query, which the database runs later.
Validate(r) ==
    /\ Advance(r, "validate", "checkAccess")
    /\ asOf' = [asOf EXCEPT ![r] = now]
    /\ UNCHANGED <<now, held, blacklist, revoked, token, payload, late, waiting>>

CheckAccess(r) ==
    /\ pc[r] = "checkAccess"
    /\ IF IsTokenBlacklisted(token[r], asOf[r])
       THEN Finish(r)
       ELSE /\ Advance(r, "checkAccess", "authorized")
            /\ UNCHANGED <<token, payload, asOf, late, waiting>>
    /\ UNCHANGED <<now, held, blacklist, revoked>>

\* Any handler that writes no token state: profile, the users routes.
Serve(r) ==
    /\ pc[r] = "authorized"
    /\ Finish(r)
    /\ UNCHANGED <<now, held, blacklist, revoked>>

Logout(r) ==
    /\ pc[r] = "authorized"
    /\ AddToBlacklist(token[r])
    /\ Finish(r)
    /\ UNCHANGED <<now, held>>

-----------------------------------------------------------------------------
(* refreshTokens: look the token up, verify it, blacklist it, sign a pair. *)

StartRefresh(r, t) ==
    /\ Arrive(r, "checkRefresh")
    /\ Present(r, t)
    /\ asOf' = [asOf EXCEPT ![r] = now]
    /\ UNCHANGED <<now, held, blacklist, revoked, payload>>

CheckRefresh(r) ==
    /\ pc[r] = "checkRefresh"
    /\ IF IsTokenBlacklisted(token[r], asOf[r])
       THEN Finish(r)
       ELSE /\ Advance(r, "checkRefresh", "verifyRefresh")
            /\ UNCHANGED <<token, payload, asOf, late, waiting>>
    /\ UNCHANGED <<now, held, blacklist, revoked>>

\* Mistake, for mutation: verification ignores exp.
VerifyRefresh_IgnoreExpiration(r) ==
    /\ pc[r] = "verifyRefresh"
    /\ IF token[r].kind = "refresh"
       THEN /\ Advance(r, "verifyRefresh", "consume")
            /\ payload' = [payload EXCEPT ![r] = token[r].payload]
            /\ UNCHANGED <<token, asOf, late, waiting>>
       ELSE Finish(r)
    /\ UNCHANGED <<now, held, blacklist, revoked>>

\* Mistake, for mutation: a token that fails verification gets no answer.
VerifyRefresh_NoRejection(r) ==
    /\ Advance(r, "verifyRefresh", "consume")
    /\ token[r].kind = "refresh" /\ Unexpired(token[r])
    /\ payload' = [payload EXCEPT ![r] = token[r].payload]
    /\ UNCHANGED <<now, held, blacklist, revoked, token, asOf, late, waiting>>

\* The next payload is copied from the verified one; the user is not reloaded.
VerifyRefresh(r) ==
    /\ pc[r] = "verifyRefresh"
    /\ IF token[r].kind = "refresh" /\ Unexpired(token[r])
       THEN /\ Advance(r, "verifyRefresh", "consume")
            /\ payload' = [payload EXCEPT ![r] = token[r].payload]
            /\ UNCHANGED <<token, asOf, late, waiting>>
       ELSE Finish(r)
    /\ UNCHANGED <<now, held, blacklist, revoked>>

\* Mistake, for mutation: an upsert that fails is ignored.
Consume_Swallowing(r) ==
    /\ Advance(r, "consume", "signRefreshed")
    /\ UNCHANGED <<now, held, blacklist, revoked, token, payload, asOf, late, waiting>>

Consume(r) ==
    /\ Advance(r, "consume", "signRefreshed")
    /\ AddToBlacklist(token[r])
    /\ UNCHANGED <<now, held, token, payload, asOf, late, waiting>>

SignRefreshed(r) ==
    /\ pc[r] = "signRefreshed"
    /\ GenerateTokens(r)
    /\ Finish(r)
    /\ UNCHANGED <<now, blacklist, revoked>>

-----------------------------------------------------------------------------
\* A look-up fails, or the upsert of a refresh or a logout: the request ends with
\* a 500, nothing is written and no pair is signed.
QueryFails(r) ==
    /\ pc[r] \in {"checkAccess", "authorized", "checkRefresh", "consume"}
    /\ Finish(r)
    /\ UNCHANGED <<now, held, blacklist, revoked>>

-----------------------------------------------------------------------------
(* The environment.                                                        *)

\* TimeoutInterceptor answers 408; the handler it wraps keeps running.
\* Guards run before the interceptor: they are not timed out.
TimeOut(r) ==
    /\ pc[r] \notin {"idle", "validate", "checkAccess"}
    /\ waiting[r]
    /\ waiting' = [waiting EXCEPT ![r] = FALSE]
    /\ UNCHANGED <<now, held, blacklist, revoked, pc, token, payload, asOf, late>>

\* The process restarts: requests in flight are gone, the table stays.
Restart ==
    /\ \E r \in Request : pc[r] # "idle"
    /\ pc' = [r \in Request |-> "idle"]
    /\ token' = [r \in Request |-> NoToken]
    /\ payload' = [r \in Request |-> NoPayload]
    /\ asOf' = [r \in Request |-> 0]
    /\ late' = [r \in Request |-> FALSE]
    /\ waiting' = [r \in Request |-> FALSE]
    /\ UNCHANGED <<now, held, blacklist, revoked>>

Tick ==
    /\ now < MaxTime
    /\ now' = now + 1
    /\ UNCHANGED <<held, blacklist, revoked, request>>

\* Mistake, for mutation: rows go a second before their token expires.
CleanupExpiredTokens_Early(date) ==
    /\ date \in 0 .. now
    /\ blacklist' = { t \in blacklist : Exp(t) > date + 1 }
    /\ UNCHANGED <<now, held, revoked, request>>

\* delete({ expiresAt: LessThanOrEqual(date) }), date bound when it was called.
CleanupExpiredTokens(date) ==
    /\ date \in 0 .. now
    /\ blacklist' = { t \in blacklist : Exp(t) > date }
    /\ UNCHANGED <<now, held, revoked, request>>

-----------------------------------------------------------------------------
Step(r) ==
    \/ SignLogin(r)
    \/ Validate(r)
    \/ CheckAccess(r)
    \/ Serve(r)
    \/ Logout(r)
    \/ CheckRefresh(r)
    \/ VerifyRefresh(r)
    \/ Consume(r)
    \/ SignRefreshed(r)
    \/ QueryFails(r)

Next ==
    \/ \E r \in Request :
        \/ \E p \in Payload : StartLogin(r, p)
        \/ \E t \in held : StartGuard(r, t) \/ StartRefresh(r, t)
        \/ Step(r)
        \/ TimeOut(r)
    \/ Restart
    \/ Tick
    \/ \E date \in Time : CleanupExpiredTokens(date)

Spec == Init /\ [][Next]_vars

\* The event loop resumes every suspended handler and the database answers, with
\* a result or an error.
FairSpec == Spec /\ \A r \in Request : WF_vars(Step(r))

-----------------------------------------------------------------------------
(* Properties.                                                             *)

\* The blacklist keeps every revocation for as long as it matters: a token
\* written to the table by a logout or a refresh has its row until it expires,
\* whatever clean-ups, restarts and other requests do meanwhile.
RevocationLasts ==
    \A t \in revoked : Unexpired(t) => t \in blacklist

\* The guard does not let a handler run for an access token that was revoked
\* before the request arrived, unless the token expired while the request was
\* being checked: passport reads the clock before validate reads the table.
RevokedNotHonoured ==
    \A r \in Request :
        pc[r] = "authorized" /\ late[r] => ~Unexpired(token[r])

\* A refresh token that was exchanged once is never exchanged by a request
\* that arrives later: refreshTokens reads the table before the clock, so the
\* race the guard has with expiry and clean-up does not exist here.
ReplayRejected ==
    \A r \in Request : pc[r] \in {"consume", "signRefreshed"} => ~late[r]

\* When the new pair is signed, the token it replaces cannot be used any more.
ExchangedTokenIsDead ==
    \A r \in Request :
        pc[r] = "signRefreshed" => token[r] \in blacklist \/ ~Unexpired(token[r])

\* Every request leaves the service: no rejection or late answer strands it.
RequestsFinish ==
    \A r \in Request : pc[r] # "idle" ~> pc[r] = "idle"

\* The service keeps the promise of RevocationContract: each step of a request
\* presents, honours, revokes or ends, or the contract does not see it.
Verdict(stage) ==
    CASE stage \in {"idle", "signLogin"} -> "none"
      [] stage \in {"authorized", "consume", "signRefreshed"} -> "honoured"
      [] OTHER -> "pending"

\* What the contract calls expired: every token whose exp has come.
Expired == { t \in Token : ~Unexpired(t) }

Contract == INSTANCE RevocationContract WITH
    expired <- Expired,
    verdict <- [r \in Request |-> Verdict(pc[r])],
    subject <- token

KeepsContract == Contract!Spec

\* The tokens a refresh answers with are usable, as the end-to-end tests expect
\* ("returns valid auth tokens").  It fails within the second in which the old
\* refresh token was signed: the new one is the same string.
RefreshYieldsLiveTokens ==
    [][\A r \in Request : SignRefreshed(r) => Tokens(payload[r], now) \cap revoked = {}]_vars
=============================================================================
