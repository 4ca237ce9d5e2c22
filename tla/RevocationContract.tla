------------------------- MODULE RevocationContract -------------------------
(***************************************************************************)
(* What the token service promises about revocation, with no table, no     *)
(* clock and no steps inside a request: a token revoked before a request   *)
(* presents it is not honoured unless it has expired meanwhile, and only a *)
(* request that was honoured revokes, and only its own token.              *)
(***************************************************************************)
CONSTANTS
    Token,     \* every token that can exist
    Request,   \* slots for the requests in flight
    NoToken

VARIABLES
    expired,   \* tokens past their expiry
    revoked,   \* tokens that were logged out or exchanged
    verdict,   \* of each request: "none", "pending" or "honoured"
    subject,   \* the token each request presented
    late       \* the subject was revoked before it was presented

vars == <<expired, revoked, verdict, subject, late>>

Init ==
    /\ expired \subseteq Token
    /\ revoked = {}
    /\ verdict = [r \in Request |-> "none"]
    /\ subject = [r \in Request |-> NoToken]
    /\ late = [r \in Request |-> FALSE]

\* Time passes: tokens expire and never come back.
Expire ==
    /\ expired \subseteq expired'
    /\ expired' \subseteq Token
    /\ UNCHANGED <<revoked, verdict, subject, late>>

Present(r, t) ==
    /\ verdict[r] = "none"
    /\ verdict' = [verdict EXCEPT ![r] = "pending"]
    /\ subject' = [subject EXCEPT ![r] = t]
    /\ late' = [late EXCEPT ![r] = t \in revoked]
    /\ UNCHANGED <<expired, revoked>>

\* The promise: a token revoked before it was presented passes only expired.
Honour(r) ==
    /\ verdict[r] = "pending"
    /\ late[r] => subject[r] \in expired
    /\ verdict' = [verdict EXCEPT ![r] = "honoured"]
    /\ UNCHANGED <<expired, revoked, subject, late>>

\* Requests end, answered or not.
End(S) ==
    /\ verdict' = [r \in Request |-> IF r \in S THEN "none" ELSE verdict[r]]
    /\ subject' = [r \in Request |-> IF r \in S THEN NoToken ELSE subject[r]]
    /\ late' = [r \in Request |-> IF r \in S THEN FALSE ELSE late[r]]
    /\ UNCHANGED expired

\* An honoured request revokes the token it presented; logging out ends with it.
Revoke(r) ==
    /\ verdict[r] = "honoured"
    /\ revoked' = revoked \cup {subject[r]}
    /\ End({}) \/ End({r})

Next ==
    \/ Expire
    \/ \E r \in Request :
        \/ \E t \in Token : Present(r, t)
        \/ Honour(r)
        \/ Revoke(r)
    \/ \E S \in SUBSET Request : End(S) /\ UNCHANGED revoked

Spec == Init /\ [][Next]_vars
=============================================================================
