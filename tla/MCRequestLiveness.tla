------------------------- MODULE MCRequestLiveness -------------------------
(* Liveness of the requests that carry tokens and of those about accounts: *)
(* a behaviour is one of TokenLifecycle or one of UserAccounts, and the    *)
(* state of the other one stays as it was in the beginning.                *)
EXTENDS TokenLifecycle

CONSTANTS Id, Email, Username, Password, Attempts, None

VARIABLES
    part,                          \* "tokens" or "accounts"
    rows, used, stage, op, dto, user, tries, wrote, grounds, clashed

\* The name of the only account is the only name.
Body ==
    LET Dto(e, n, p, q) == [email |-> e, username |-> n, password |-> p, next |-> q,
                            provider |-> None, active |-> None]
        e1 == CHOOSE e \in Email : TRUE
    IN  { Dto(e, None, None, None) : e \in Email }
        \cup { Dto(e1, n, p, None) : n \in Username \cup {None}, p \in Password }
        \cup { Dto(None, None, p, p) : p \in Password }

Users == INSTANCE UserAccounts WITH pc <- stage

accounts == <<rows, used, stage, op, dto, user, tries, wrote, grounds, clashed>>

PartInit == Init /\ Users!Init /\ part \in {"tokens", "accounts"}

PartNext ==
    /\ \/ part = "tokens" /\ Next /\ UNCHANGED accounts
       \/ part = "accounts" /\ Users!Next /\ UNCHANGED vars
    /\ UNCHANGED part

\* The fairness of FairSpec in TokenLifecycle and of FairSpec in UserAccounts.
PartSpec ==
    /\ PartInit /\ [][PartNext]_<<vars, accounts, part>>
    /\ \A r \in Request :
          /\ WF_vars(part = "tokens" /\ Step(r))
          /\ WF_accounts(part = "accounts" /\ Users!Step(r) /\ Users!Observe)

RequestsAnswered == Users!RequestsAnswered
=============================================================================
