-------------------------- MODULE MCUserScenarios --------------------------
(* UserAccounts under two kinds of clients, each with bounds of its own:   *)
(* those who compete for emails and usernames, with one password, and      *)
(* those who sign in and change passwords, with two.                       *)
EXTENDS MCUserAccounts

CONSTANTS Plain, Secret   \* bound: the passwords are Plain and those of Secret

Passwords == Secret \cup {Plain}

KeyBodies == Competing({Plain})
SignInBodies == SigningIn(Secret)

VARIABLE clients

Keys == INSTANCE UserAccounts WITH Body <- KeyBodies
SignIn == INSTANCE UserAccounts WITH Body <- SignInBodies, Attempts <- 1

ScenarioInit == Init /\ clients \in {"competing", "signing in"}

ScenarioNext ==
    /\ \/ clients = "competing" /\ Keys!Next
       \/ clients = "signing in" /\ SignIn!Next
    /\ UNCHANGED clients

ScenarioSpec == ScenarioInit /\ [][ScenarioNext]_<<vars, clients>>

ScenarioSymmetry ==
    Permutations(Id) \cup Permutations(Email) \cup Permutations(Username)
        \cup Permutations(Secret) \cup Permutations(Request)
=============================================================================
