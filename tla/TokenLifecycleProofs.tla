------------------------ MODULE TokenLifecycleProofs ------------------------
(***************************************************************************)
(* Theorems about TokenLifecycle, for any payloads, request slots,         *)
(* lifetimes and clock bound.                                              *)
(***************************************************************************)
EXTENDS TokenLifecycle, TLAPS

\* The stages at which a request carries a token a client presented.
Carrying == Stage \ {"idle", "signLogin"}

\* What the stage of a request says about time, the table and its token.  A
\* revocation seen on arrival is still recorded while the request runs, and the
\* query's date is not in the future: so a lookup that misses a revoked token
\* is one that ran at or after its expiry.
RequestOK(r) ==
    /\ pc[r] \in Carrying => token[r] \in Token
    /\ pc[r] \in {"signLogin", "consume", "signRefreshed"} => payload[r] \in Payload
    /\ asOf[r] <= now
    /\ late[r] => token[r] \in revoked
    /\ pc[r] \in {"authorized", "verifyRefresh"} /\ late[r] => ~Unexpired(token[r])
    /\ pc[r] \in {"consume", "signRefreshed"} => ~late[r]
    /\ pc[r] = "signRefreshed" => token[r] \in revoked

RequestInv == \A r \in Request : RequestOK(r)

\* The inductive invariant.
IInv ==
    /\ TypeOK
    /\ RevocationLasts
    /\ RequestInv

-----------------------------------------------------------------------------
(* Lemmas about the helpers.                                               *)

\* Expiry times are numbers.
LEMMA ExpType == ASSUME NEW t \in Token PROVE Exp(t) \in Nat
BY TtlAssumption DEF Token, Kind, Time, Exp, Ttl

\* Signing a pair yields tokens.
LEMMA TokensType ==
    ASSUME NEW p \in Payload, NEW t \in Time
    PROVE  Tokens(p, t) \subseteq Token
BY DEF Tokens, Token

\* An expired token stays expired while the clock runs on.
LEMMA ExpiryIsFinal ==
    ASSUME TypeOK, now' \in Time, now <= now', NEW t \in Token, Unexpired(t)'
    PROVE  Unexpired(t)
<1>1. now \in Nat /\ now' \in Nat
    BY TtlAssumption DEF TypeOK, Time
<1> QED
    BY <1>1, ExpType DEF Unexpired, Exp, Ttl

\* The table answers a query for a revoked token with "blacklisted" unless the
\* token had expired by the date of the query.
LEMMA LookupFindsRevoked ==
    ASSUME TypeOK, RevocationLasts, NEW t \in revoked, NEW date \in Time, date <= now,
           ~IsTokenBlacklisted(t, date)
    PROVE  ~Unexpired(t)
<1>1. t \in Token /\ now \in Nat /\ date \in Nat /\ Exp(t) \in Nat
    BY ExpType, TtlAssumption DEF TypeOK, Time
<1> QED
    BY <1>1 DEF RevocationLasts, IsTokenBlacklisted, Unexpired

\* A request that ends leaves a well-typed slot.
LEMMA FinishType ==
    ASSUME TypeOK, NEW r \in Request, Finish(r)
    PROVE  /\ pc' \in [Request -> Stage]
           /\ token' \in [Request -> Token \cup {NoToken}]
           /\ payload' \in [Request -> Payload \cup {NoPayload}]
           /\ asOf' \in [Request -> Time]
           /\ late' \in [Request -> BOOLEAN]
           /\ waiting' \in [Request -> BOOLEAN]
<1>1. "idle" \in Stage /\ 0 \in Time
    BY TtlAssumption DEF Stage, Time
<1> QED
    BY <1>1 DEF TypeOK, Finish

\* The clock does not go back and revocations are not undone.
LEMMA Monotone ==
    ASSUME TypeOK, [Next]_vars
    PROVE  now <= now' /\ revoked \subseteq revoked'
<1>1. now \in Nat
    BY TtlAssumption DEF TypeOK, Time
<1> QED
    BY <1>1 DEF Next, Step, vars, request, StartLogin, StartGuard, StartRefresh, SignLogin,
       Validate, CheckAccess, Serve, Logout, CheckRefresh, VerifyRefresh, Consume,
       SignRefreshed, QueryFails, TimeOut, Restart, Tick, CleanupExpiredTokens, AddToBlacklist

-----------------------------------------------------------------------------
(* The type invariant.                                                     *)

\* The initial state satisfies the inductive invariant.
LEMMA InitIInv == Init => IInv
BY TtlAssumption DEF Init, IInv, TypeOK, RevocationLasts, RequestInv, RequestOK, Carrying,
   Stage, Time, Token

\* Every step keeps the types.
LEMMA NextTypeOK == IInv /\ [Next]_vars => TypeOK'
<1> SUFFICES ASSUME TypeOK, RequestInv, [Next]_vars PROVE TypeOK'
    BY DEF IInv
<1>1. ASSUME NEW r \in Request, NEW p \in Payload, StartLogin(r, p) PROVE TypeOK'
    BY <1>1 DEF TypeOK, StartLogin, Arrive, Stage
<1>2. ASSUME NEW r \in Request, NEW t \in held, StartGuard(r, t) PROVE TypeOK'
    BY <1>2 DEF TypeOK, StartGuard, Arrive, Present, Stage
<1>3. ASSUME NEW r \in Request, NEW t \in held, StartRefresh(r, t) PROVE TypeOK'
    BY <1>3 DEF TypeOK, StartRefresh, Arrive, Present, Stage
<1>4. ASSUME NEW r \in Request, SignLogin(r) \/ SignRefreshed(r) PROVE TypeOK'
    <2>1. payload[r] \in Payload
        BY <1>4 DEF RequestInv, RequestOK, SignLogin, SignRefreshed
    <2>2. held' \subseteq Token
        BY <1>4, <2>1, TokensType DEF TypeOK, SignLogin, SignRefreshed, GenerateTokens
    <2>3. Finish(r) /\ UNCHANGED <<now, blacklist, revoked>>
        BY <1>4 DEF SignLogin, SignRefreshed
    <2> QED
        BY <2>2, <2>3, FinishType DEF TypeOK
<1>5. ASSUME NEW r \in Request, Validate(r) PROVE TypeOK'
    BY <1>5 DEF TypeOK, Validate, Advance, Stage
<1>6. ASSUME NEW r \in Request, CheckAccess(r) PROVE TypeOK'
    <2>1. CASE Finish(r)
        BY <1>6, <2>1, FinishType DEF TypeOK, CheckAccess
    <2>2. CASE Advance(r, "checkAccess", "authorized")
               /\ UNCHANGED <<token, payload, asOf, late, waiting>>
        BY <1>6, <2>2 DEF TypeOK, CheckAccess, Advance, Stage
    <2> QED
        BY <1>6, <2>1, <2>2 DEF CheckAccess
<1>7. ASSUME NEW r \in Request, Serve(r) \/ QueryFails(r) PROVE TypeOK'
    BY <1>7, FinishType DEF TypeOK, Serve, QueryFails
<1>8. ASSUME NEW r \in Request, Logout(r) PROVE TypeOK'
    <2>1. token[r] \in Token
        BY <1>8 DEF RequestInv, RequestOK, Logout, Carrying, Stage
    <2> QED
        BY <1>8, <2>1, FinishType DEF TypeOK, Logout, AddToBlacklist
<1>9. ASSUME NEW r \in Request, CheckRefresh(r) PROVE TypeOK'
    <2>1. CASE Finish(r)
        BY <1>9, <2>1, FinishType DEF TypeOK, CheckRefresh
    <2>2. CASE Advance(r, "checkRefresh", "verifyRefresh")
               /\ UNCHANGED <<token, payload, asOf, late, waiting>>
        BY <1>9, <2>2 DEF TypeOK, CheckRefresh, Advance, Stage
    <2> QED
        BY <1>9, <2>1, <2>2 DEF CheckRefresh
<1>10. ASSUME NEW r \in Request, VerifyRefresh(r) PROVE TypeOK'
    <2>1. token[r] \in Token
        BY <1>10 DEF RequestInv, RequestOK, VerifyRefresh, Carrying, Stage
    <2>2. token[r].payload \in Payload
        BY <2>1 DEF Token
    <2>3. CASE Finish(r)
        BY <1>10, <2>3, FinishType DEF TypeOK, VerifyRefresh
    <2>4. CASE ~Finish(r)
        BY <1>10, <2>2, <2>4 DEF TypeOK, VerifyRefresh, Advance, Stage
    <2> QED
        BY <2>3, <2>4
<1>11. ASSUME NEW r \in Request, Consume(r) PROVE TypeOK'
    <2>1. token[r] \in Token
        BY <1>11 DEF RequestInv, RequestOK, Consume, Advance, Carrying, Stage
    <2> QED
        BY <1>11, <2>1 DEF TypeOK, Consume, Advance, AddToBlacklist, Stage
<1>12. ASSUME NEW r \in Request, TimeOut(r) PROVE TypeOK'
    BY <1>12 DEF TypeOK, TimeOut
<1>13. CASE Restart
    BY <1>13, TtlAssumption DEF TypeOK, Restart, Stage, Time
<1>14. CASE Tick
    BY <1>14, TtlAssumption DEF TypeOK, Tick, Time, request
<1>15. ASSUME NEW date \in Time, CleanupExpiredTokens(date) PROVE TypeOK'
    BY <1>15 DEF TypeOK, CleanupExpiredTokens, request
<1>16. CASE UNCHANGED vars
    BY <1>16 DEF TypeOK, vars, request
<1> QED
    BY <1>1, <1>2, <1>3, <1>4, <1>5, <1>6, <1>7, <1>8, <1>9, <1>10, <1>11, <1>12, <1>13,
       <1>14, <1>15, <1>16 DEF Next, Step

-----------------------------------------------------------------------------
(* The blacklist keeps what matters.                                       *)

\* Rows are added with the revocation and deleted only after the expiry.
LEMMA NextRevocationLasts == IInv /\ [Next]_vars /\ TypeOK' => RevocationLasts'
<1> SUFFICES ASSUME IInv, [Next]_vars, TypeOK', NEW t \in revoked', Unexpired(t)'
             PROVE  t \in blacklist'
    BY DEF RevocationLasts
<1> USE DEF IInv
<1>1. t \in Token /\ Unexpired(t)
    BY Monotone, ExpiryIsFinal DEF TypeOK
<1>2. CASE /\ revoked' = revoked
           /\ blacklist \subseteq blacklist'
    BY <1>1, <1>2 DEF RevocationLasts
<1>3. CASE \E r \in Request : AddToBlacklist(token[r])
    BY <1>1, <1>3 DEF RevocationLasts, AddToBlacklist
<1>4. CASE \E date \in Time : CleanupExpiredTokens(date)
    <2>1. PICK date \in 0 .. now : /\ blacklist' = { u \in blacklist : Exp(u) > date }
                                   /\ revoked' = revoked
                                   /\ now' = now
        BY <1>4 DEF CleanupExpiredTokens
    <2>2. t \in blacklist
        BY <1>1, <2>1 DEF RevocationLasts
    <2>3. Exp(t) \in Nat /\ now \in Nat /\ date \in Nat /\ date <= now
        BY <1>1, <2>1, ExpType, TtlAssumption DEF TypeOK, Time
    <2> QED
        BY <1>1, <2>1, <2>2, <2>3 DEF Unexpired
<1> QED
    BY <1>2, <1>3, <1>4 DEF Next, Step, vars, request, StartLogin, StartGuard, StartRefresh,
       SignLogin, Validate, CheckAccess, Serve, Logout, CheckRefresh, VerifyRefresh, Consume,
       SignRefreshed, QueryFails, TimeOut, Restart, Tick

-----------------------------------------------------------------------------
(* What the stages say stays true.                                         *)

\* A step of others, or of the clock, does not disturb a request.
LEMMA RequestFrame ==
    ASSUME TypeOK, TypeOK', NEW r \in Request, RequestOK(r),
           pc'[r] = pc[r], token'[r] = token[r], payload'[r] = payload[r],
           asOf'[r] = asOf[r], late'[r] = late[r],
           now <= now', revoked \subseteq revoked'
    PROVE  RequestOK(r)'
<1>1. asOf[r] \in Nat /\ now \in Nat /\ now' \in Nat
    BY TtlAssumption DEF TypeOK, Time
<1>2. ASSUME pc[r] \in {"authorized", "verifyRefresh"}, late[r] PROVE ~Unexpired(token[r])'
    <2>1. token[r] \in Token /\ ~Unexpired(token[r])
        BY <1>2 DEF RequestOK, Carrying, Stage
    <2> QED
        BY <1>1, <2>1, ExpiryIsFinal DEF TypeOK, Unexpired, Exp, Ttl
<1>3. asOf[r] <= now'
    BY <1>1 DEF RequestOK
<1> QED
    BY <1>2, <1>3 DEF RequestOK, Unexpired, Exp, Ttl

\* A free slot is in order.
LEMMA IdleIsOK ==
    ASSUME TypeOK', NEW r \in Request, pc'[r] = "idle", asOf'[r] = 0, late'[r] = FALSE
    PROVE  RequestOK(r)'
BY TtlAssumption DEF RequestOK, Carrying, TypeOK, Time

\* Every step keeps every request in order.
LEMMA NextRequestInv == IInv /\ [Next]_vars /\ TypeOK' => RequestInv'
<1> SUFFICES ASSUME IInv, [Next]_vars, TypeOK', NEW q \in Request
             PROVE  RequestOK(q)'
    BY DEF RequestInv
<1>0. TypeOK /\ RevocationLasts /\ RequestOK(q) /\ now <= now' /\ revoked \subseteq revoked'
    BY Monotone DEF IInv, RequestInv
<1>a. asOf[q] \in Nat /\ now \in Nat /\ asOf[q] \in Time /\ now <= now
    BY <1>0, TtlAssumption DEF TypeOK, Time
<1>1. CASE pc'[q] = "idle" /\ asOf'[q] = 0 /\ late'[q] = FALSE
    BY <1>1, IdleIsOK
<1>2. CASE UNCHANGED <<pc[q], token[q], payload[q], asOf[q], late[q]>>
    BY <1>0, <1>2, RequestFrame
<1>3. ASSUME NEW p \in Payload, StartLogin(q, p) PROVE RequestOK(q)'
    BY <1>0, <1>3 DEF TypeOK, RequestOK, Carrying, StartLogin, Arrive, Unexpired
<1>4. ASSUME NEW t \in held, StartGuard(q, t) PROVE RequestOK(q)'
    BY <1>0, <1>4 DEF TypeOK, RequestOK, StartGuard, Arrive, Present
<1>5. ASSUME Validate(q) PROVE RequestOK(q)'
    BY <1>0, <1>5, <1>a DEF TypeOK, RequestOK, Carrying, Stage, Validate, Advance
<1>6. ASSUME CheckAccess(q), ~Finish(q) PROVE RequestOK(q)'
    <2>1. late[q] => ~Unexpired(token[q])
        BY <1>0, <1>6, <1>a, LookupFindsRevoked DEF CheckAccess, RequestOK
    <2> QED
        BY <1>0, <1>6, <2>1
           DEF TypeOK, RequestOK, Carrying, Stage, CheckAccess, Advance, Unexpired
<1>7. ASSUME NEW t \in held, StartRefresh(q, t) PROVE RequestOK(q)'
    BY <1>0, <1>7, <1>a DEF TypeOK, RequestOK, StartRefresh, Arrive, Present
<1>8. ASSUME CheckRefresh(q), ~Finish(q) PROVE RequestOK(q)'
    <2>1. late[q] => ~Unexpired(token[q])
        BY <1>0, <1>8, <1>a, LookupFindsRevoked DEF CheckRefresh, RequestOK
    <2> QED
        BY <1>0, <1>8, <2>1
           DEF TypeOK, RequestOK, Carrying, Stage, CheckRefresh, Advance, Unexpired
<1>9. ASSUME VerifyRefresh(q), ~Finish(q) PROVE RequestOK(q)'
    <2>1. token[q] \in Token
        BY <1>0, <1>9 DEF RequestOK, Carrying, Stage, VerifyRefresh
    <2>2. token[q].payload \in Payload
        BY <2>1 DEF Token
    <2> QED
        BY <1>0, <1>9, <2>1, <2>2 DEF TypeOK, RequestOK, VerifyRefresh, Advance
<1>10. ASSUME Consume(q) PROVE RequestOK(q)'
    BY <1>0, <1>10 DEF TypeOK, RequestOK, Carrying, Stage, Consume, Advance, AddToBlacklist
<1>11. ASSUME NEW r \in Request, r # q,
              \/ \E p \in Payload : StartLogin(r, p)
              \/ \E t \in held : StartGuard(r, t) \/ StartRefresh(r, t)
              \/ Step(r)
              \/ TimeOut(r)
       PROVE  UNCHANGED <<pc[q], token[q], payload[q], asOf[q], late[q]>>
    BY <1>0, <1>11 DEF TypeOK, Step, StartLogin, StartGuard, StartRefresh, Arrive, Present,
       SignLogin, Validate, CheckAccess, Serve, Logout, CheckRefresh, VerifyRefresh, Consume,
       SignRefreshed, QueryFails, TimeOut, Advance, Finish
<1>12. ASSUME Finish(q) PROVE pc'[q] = "idle" /\ asOf'[q] = 0 /\ late'[q] = FALSE
    BY <1>0, <1>12 DEF TypeOK, Finish
<1>13. ASSUME TimeOut(q) PROVE UNCHANGED <<pc[q], token[q], payload[q], asOf[q], late[q]>>
    BY <1>13 DEF TimeOut
<1>14. ASSUME Step(q) PROVE RequestOK(q)'
    BY <1>1, <1>5, <1>6, <1>8, <1>9, <1>10, <1>12, <1>14
       DEF Step, SignLogin, Serve, Logout, SignRefreshed, QueryFails
<1>15. CASE Restart
    BY <1>15, <1>1 DEF Restart
<1>16. CASE Tick \/ (\E date \in Time : CleanupExpiredTokens(date)) \/ UNCHANGED vars
    BY <1>16, <1>2 DEF Tick, CleanupExpiredTokens, vars, request
<1> QED
    BY <1>2, <1>3, <1>4, <1>7, <1>11, <1>13, <1>14, <1>15, <1>16 DEF Next

-----------------------------------------------------------------------------
(* The theorems.                                                           *)

\* The inductive invariant holds in every reachable state.
THEOREM Invariance == Spec => []IInv
<1>1. IInv /\ [Next]_vars => IInv'
    BY NextTypeOK, NextRevocationLasts, NextRequestInv DEF IInv
<1> QED
    BY InitIInv, <1>1, PTL DEF Spec

\* Type correctness: every variable keeps its type (TypeOK).
THEOREM TypeCorrect == Spec => []TypeOK
<1>1. IInv => TypeOK
    BY DEF IInv
<1> QED
    BY Invariance, <1>1, PTL

\* No revocation is forgotten before its token expires (RevocationLasts).
THEOREM RevocationLastsAlways == Spec => []RevocationLasts
<1>1. IInv => RevocationLasts
    BY DEF IInv
<1> QED
    BY Invariance, <1>1, PTL

\* The guard honours no unexpired token revoked before the request
\* (RevokedNotHonoured).
THEOREM RevokedNeverHonoured == Spec => []RevokedNotHonoured
<1>1. IInv => RevokedNotHonoured
    BY DEF IInv, RequestInv, RequestOK, RevokedNotHonoured
<1> QED
    BY Invariance, <1>1, PTL

\* An exchanged refresh token is not exchanged again later (ReplayRejected).
THEOREM ReplayAlwaysRejected == Spec => []ReplayRejected
<1>1. IInv => ReplayRejected
    BY DEF IInv, RequestInv, RequestOK, ReplayRejected
<1> QED
    BY Invariance, <1>1, PTL

\* A token is dead before its successors exist (ExchangedTokenIsDead).
THEOREM ExchangedTokenAlwaysDead == Spec => []ExchangedTokenIsDead
<1>1. IInv => ExchangedTokenIsDead
    BY DEF IInv, RequestInv, RequestOK, RevocationLasts, ExchangedTokenIsDead
<1> QED
    BY Invariance, <1>1, PTL

-----------------------------------------------------------------------------
(* The service implements RevocationContract.                              *)

\* Tokens do not un-expire, and do not expire while the clock stands still.
LEMMA ExpiredSet ==
    ASSUME TypeOK, TypeOK', now <= now'
    PROVE  /\ Expired \subseteq Expired'
           /\ Expired' \subseteq Token
           /\ now' = now => Expired' = Expired
<1>1. Expired \subseteq Expired'
    BY ExpiryIsFinal DEF Expired, TypeOK
<1> QED
    BY <1>1 DEF Expired, Unexpired

\* A request that ends and revokes nothing is an End step of the contract.
LEMMA FinishEnds ==
    ASSUME TypeOK, NEW r \in Request, Finish(r), Expired' = Expired
    PROVE  Contract!End({r})
BY DEF Contract!End, TypeOK, Finish, Verdict

\* Every step of the service is a step of the contract or invisible to it.
LEMMA ContractStep ==
    IInv /\ [Next]_vars /\ TypeOK' /\ RequestInv' => [Contract!Next]_(Contract!vars)
<1> SUFFICES ASSUME IInv, [Next]_vars, TypeOK', RequestInv'
             PROVE  [Contract!Next]_(Contract!vars)
    OBVIOUS
<1>0. TypeOK /\ now <= now'
    BY Monotone DEF IInv
<1>a. /\ Expired \subseteq Expired' /\ Expired' \subseteq Token
      /\ now' = now => Expired' = Expired
    BY <1>0, ExpiredSet
<1>1. ASSUME NEW r \in Request, Finish(r), UNCHANGED <<now, revoked>>
      PROVE  Contract!Next
    <2>1. Contract!End({r}) /\ UNCHANGED revoked
        BY <1>0, <1>a, <1>1, FinishEnds
    <2> QED
        BY <2>1 DEF Contract!Next
<1>2. ASSUME UNCHANGED <<now, revoked, token, late>>,
             \A r \in Request : Verdict(pc'[r]) = Verdict(pc[r])
      PROVE  UNCHANGED Contract!vars
    BY <1>a, <1>2 DEF Contract!vars
<1>3. ASSUME NEW r \in Request, NEW p \in Payload, StartLogin(r, p)
      PROVE  UNCHANGED Contract!vars
    BY <1>0, <1>2, <1>3 DEF StartLogin, Arrive, TypeOK, Verdict
<1>4. ASSUME NEW r \in Request, NEW t \in held, StartGuard(r, t) \/ StartRefresh(r, t)
      PROVE  Contract!Next
    <2>1. Contract!Present(r, t)
        BY <1>0, <1>4, <1>a
           DEF Contract!Present, StartGuard, StartRefresh, Arrive, Present, TypeOK, Verdict
    <2> QED
        BY <1>0, <2>1 DEF Contract!Next, TypeOK
<1>5. ASSUME NEW r \in Request, Validate(r) \/ TimeOut(r)
      PROVE  UNCHANGED Contract!vars
    BY <1>0, <1>2, <1>5 DEF Validate, TimeOut, Advance, TypeOK, Verdict
<1>6. ASSUME NEW r \in Request, CheckRefresh(r), ~Finish(r)
      PROVE  UNCHANGED Contract!vars
    BY <1>0, <1>2, <1>6 DEF CheckRefresh, Advance, TypeOK, Verdict
<1>7. ASSUME NEW r \in Request, CheckAccess(r), ~Finish(r)
      PROVE  Contract!Next
    <2>1. late[r] => token[r] \in Expired
        BY <1>0, <1>7, <1>a DEF RequestInv, RequestOK, CheckAccess, Advance, TypeOK, Expired,
           Carrying, Stage, Unexpired
    <2>2. Contract!Honour(r)
        BY <1>0, <1>7, <1>a, <2>1 DEF Contract!Honour, CheckAccess, Advance, TypeOK, Verdict
    <2> QED
        BY <2>2 DEF Contract!Next
<1>8. ASSUME NEW r \in Request, VerifyRefresh(r), ~Finish(r)
      PROVE  Contract!Next
    <2>1. late[r] => token[r] \in Expired
        BY <1>8 DEF IInv, RequestInv, RequestOK, VerifyRefresh, Expired, Carrying, Stage
    <2>2. Contract!Honour(r)
        BY <1>0, <1>8, <1>a, <2>1 DEF Contract!Honour, VerifyRefresh, Advance, TypeOK, Verdict
    <2> QED
        BY <2>2 DEF Contract!Next
<1>9. ASSUME NEW r \in Request, Logout(r)
      PROVE  Contract!Next
    <2>1. Contract!End({r})
        BY <1>0, <1>a, <1>9, FinishEnds DEF Logout
    <2>2. Contract!Revoke(r)
        BY <1>9, <2>1 DEF Contract!Revoke, Logout, AddToBlacklist, Verdict
    <2> QED
        BY <2>2 DEF Contract!Next
<1>10. ASSUME NEW r \in Request, Consume(r)
       PROVE  Contract!Next
    <2>1. Contract!End({})
        BY <1>0, <1>a, <1>10 DEF Contract!End, Consume, Advance, TypeOK, Verdict
    <2>2. Contract!Revoke(r)
        BY <1>10, <2>1 DEF Contract!Revoke, Consume, Advance, AddToBlacklist, Verdict
    <2> QED
        BY <2>2 DEF Contract!Next
<1>11. ASSUME NEW r \in Request, Step(r)
       PROVE  Contract!Next \/ UNCHANGED Contract!vars
    BY <1>1, <1>5, <1>6, <1>7, <1>8, <1>9, <1>10, <1>11
       DEF Step, SignLogin, CheckAccess, Serve, CheckRefresh, VerifyRefresh, SignRefreshed,
           QueryFails
<1>12. CASE Restart
    <2>1. Contract!End(Request) /\ UNCHANGED revoked
        BY <1>0, <1>a, <1>12 DEF Contract!End, Restart, TypeOK, Verdict
    <2> QED
        BY <2>1 DEF Contract!Next
<1>13. CASE Tick
    BY <1>a, <1>13 DEF Contract!Next, Contract!Expire, Tick, request
<1>14. CASE (\E date \in Time : CleanupExpiredTokens(date)) \/ UNCHANGED vars
    BY <1>2, <1>14 DEF CleanupExpiredTokens, vars, request
<1> QED
    BY <1>3, <1>4, <1>5, <1>11, <1>12, <1>13, <1>14 DEF Next

\* The token service implements its revocation contract (KeepsContract): what
\* its clients can tell of table, clock and interleavings is the promise alone.
THEOREM ImplementsContract == Spec => KeepsContract
<1>1. Init => Contract!Init
    BY TtlAssumption DEF Init, Contract!Init, Verdict, Expired
<1>2. IInv /\ IInv' /\ [Next]_vars => [Contract!Next]_(Contract!vars)
    BY ContractStep DEF IInv
<1> QED
    BY Invariance, <1>1, <1>2, PTL DEF Spec, KeepsContract, Contract!Spec
=============================================================================
