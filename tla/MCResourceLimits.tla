-------------------------- MODULE MCResourceLimits --------------------------
(* Small instances of ResourceLimits for TLC.                              *)
EXTENDS ResourceLimits, TLC

Post ==
    [explicit |-> None, method |-> "POST", root |-> TRUE, id |-> None, up |-> None,
     owner |-> None, user |-> TRUE, subject |-> None, how |-> "fixed", fixed |-> 1, includeRoot |-> TRUE]

\* The owner is sent, that of the token, or missing, the token's as well or the user.
Creates ==
    { [Post EXCEPT !.up = up] : up \in Id \cup {None} }
    \cup { [Post EXCEPT !.up = up, !.owner = o] : up \in Id \cup {None}, o \in Owner }
    \cup { [Post EXCEPT !.subject = o] : o \in Owner }
    \cup { [Post EXCEPT !.user = FALSE, !.owner = o] : o \in Owner \cup {None} }

\* On the route of a row.
Copies ==
    { [Post EXCEPT !.explicit = "create", !.root = FALSE, !.id = i] : i \in Id }
    \cup { [Post EXCEPT !.explicit = "create", !.root = FALSE, !.id = i, !.up = i] : i \in Id }

Dynamics ==
    { [Post EXCEPT !.explicit = "dynamic", !.root = FALSE, !.id = i, !.how = how,
                   !.includeRoot = b] :
        i \in Id, how \in {"linked", "children"}, b \in BOOLEAN }
    \cup { [Post EXCEPT !.explicit = "dynamic", !.subject = o, !.fixed = n] :
             o \in Owner, n \in {0, 2} }
    \cup { [Post EXCEPT !.explicit = "dynamic", !.owner = o, !.how = "linked"] : o \in Owner }

Others ==
    { [Post EXCEPT !.method = "GET", !.owner = o] : o \in Owner }
    \cup { [Post EXCEPT !.method = "GET", !.user = FALSE],
           [Post EXCEPT !.method = "PATCH"], [Post EXCEPT !.explicit = "skip"],
           [Post EXCEPT !.explicit = "release"] }

AllAsks == [r \in Request |-> Creates \cup Copies \cup Dynamics \cup Others]

\* One request of every kind, one that creates what it is next to.
Rich == CHOOSE r \in Request : TRUE
RichAndPlain ==
    [r \in Request |-> IF r = Rich THEN AllAsks[r]
                       ELSE { [Post EXCEPT !.owner = o] : o \in Owner }]

\* A write and the second request do not both disturb the first.
OneDisturbance == writes = 0 \/ \A r \in Request \ {Rich} : pc[r] = "idle"

Plain ==
    [strategy |-> "user", maximum |-> 2, maxDepth |-> None, rules |-> <<>>, scoped |-> FALSE]

\* The second rule of the tree is hidden by the first at level 2.
Configs ==
    { Plain, [Plain EXCEPT !.strategy = "parent", !.maximum = 1],
      [Plain EXCEPT !.strategy = "global"],
      [Plain EXCEPT !.strategy = "tree", !.maxDepth = 2,
                    !.rules = << [from |-> 2, to |-> 2, maximum |-> 1],
                                 [from |-> 2, to |-> None, maximum |-> 0] >>],
      [Plain EXCEPT !.strategy = "tree", !.scoped = TRUE, !.maximum = 1] }

Symmetry == Permutations(Id)
=============================================================================
