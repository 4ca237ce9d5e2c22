------------------------------- MODULE MCApi -------------------------------
(* Small instances of ApiRequests and of CollectionPages, side by side: a  *)
(* behaviour is one request on its way, or one client's walk along pages.  *)
EXTENDS ApiRequests, CollectionPages, MCApiInputs

VARIABLE part

ApiInit ==
    /\ Init /\ WalkInit
    /\ \/ part = "walk"
       \/ part = "request" /\ \A i \in Id : rows[i] = None

OfRequest == part = "request" /\ UNCHANGED <<part, walking>>
OfWalk == part = "walk" /\ UNCHANGED <<part, vars>>

ApiNext ==
    \/ OfRequest /\ Receive
    \/ OfRequest /\ PassGuards
    \/ OfRequest /\ Throw
    \/ OfRequest /\ TimeOut
    \/ OfRequest /\ Redirect
    \/ OfRequest /\ Return
    \/ OfRequest /\ Intercept
    \/ OfRequest /\ Catch
    \/ OfWalk /\ \E u \in Start : Ask(u)
    \/ OfWalk /\ ReadIds
    \/ OfWalk /\ ReadRows
    \/ OfWalk /\ CountRows
    \/ OfWalk /\ Respond
    \/ OfWalk /\ \E i \in Id, k \in Key : Create(i, k)
    \/ OfWalk /\ \E i \in Id, k \in Key : Update(i, k)
    \/ OfWalk /\ \E i \in Id : SoftDelete(i)
    \/ OfWalk /\ \E i \in Id : HardDelete(i)

ApiSpec == ApiInit /\ [][ApiNext]_<<part, vars, walking>>
=============================================================================
