--------------------------- MODULE MCUserAccounts ---------------------------
(* Request bodies for small instances of UserAccounts.                     *)
EXTENDS UserAccounts, TLC

LocalAccounts(passwords) ==
    { [NoBody EXCEPT !.email = e, !.username = n, !.password = p] :
        e \in Email, n \in Username, p \in passwords }
GoogleProfiles == { [NoBody EXCEPT !.email = e] : e \in Email }
NewEmails == GoogleProfiles
NewUsernames == { [NoBody EXCEPT !.username = n] : n \in Username }
Lock == { [NoBody EXCEPT !.active = FALSE] }

\* Who gets which email and username.  NoBody updates a field that is not
\* modelled; a Google account may be created by an administrator, too.
Competing(passwords) ==
    {NoBody} \cup LocalAccounts(passwords) \cup GoogleProfiles \cup NewEmails
    \cup NewUsernames
    \cup { [NoBody EXCEPT !.email = e, !.username = n, !.provider = "google"] :
             e \in Email, n \in Username }

\* Who signs in.
SigningIn(passwords) ==
    LocalAccounts(passwords) \cup GoogleProfiles \cup NewEmails \cup Lock
    \cup { [NoBody EXCEPT !.email = e, !.password = p] : e \in Email, p \in passwords }
    \cup { [NoBody EXCEPT !.username = n, !.password = p] :
             n \in Username, p \in passwords }
    \cup { [NoBody EXCEPT !.password = p, !.next = q] : p, q \in passwords }
    \cup { [NoBody EXCEPT !.provider = "local"] }

AllBodies == Competing(Password) \cup SigningIn(Password)
=============================================================================
