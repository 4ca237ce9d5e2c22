--------------------------- MODULE ResourceLimits ---------------------------
(***************************************************************************)
(* LimitGuard: a request that creates rows of a limited entity is let      *)
(* through only if the rows fit under the maximum of its user, its parent, *)
(* its place in the tree, or the whole table.                              *)
(*                                                                         *)
(* The guard sends one query after another, with no transaction, and the   *)
(* handler writes after it: rows may be written between any two of these.  *)
(* An action is one query with what the guard makes of the result.         *)
(***************************************************************************)
EXTENDS Integers, FiniteSets, Sequences

CONSTANTS
    Id,         \* bound: the rows there can be
    Owner,      \* users, parents or scopes
    Request,
    Ask,        \* bound: what clients ask for, per request slot
    Config,     \* the @Limit of the entity
    Safety,     \* MAX_TREE_SAFETY_DEPTH, 1000 in the code
    MaxWrites,  \* bound: writes by handlers without a limit
    None

\* up is the row's parent in a tree (or the link of a list); owner is its user,
\* its parent of another entity, or its scope.
Row == [up : Id \cup {None}, owner : Owner \cup {None}, deleted : BOOLEAN]

Rule == [from : Nat \cup {None}, to : Nat \cup {None}, maximum : Nat]

ConfigType == [strategy : {"user", "parent", "global", "tree"}, maximum : Nat,
               maxDepth : Nat \cup {None}, rules : Seq(Rule), scoped : BOOLEAN]

\* explicit is the decorator of the handler, root whether its path is empty, id the
\* route parameter; up and owner are the first values found in body, route and
\* query; user is whether a guard before has set request.user (it has not on a public
\* route), subject its sub or else its id, None if both are blank; how is how the units
\* of a dynamic limit are found.
AskType ==
    [explicit : {"create", "dynamic", "skip", "release", None},
     method : {"GET", "POST", "PATCH"}, root : BOOLEAN,
     id : Id \cup {None}, up : Id \cup {None}, owner : Owner \cup {None},
     user : BOOLEAN, subject : Owner \cup {None},
     how : {"fixed", "linked", "children"}, fixed : Int, includeRoot : BOOLEAN]

ASSUME NoneAssumption ==
    /\ None \notin Id \cup Owner \cup Row \cup AskType \cup Nat
    /\ None \notin {"create", "dynamic", "skip", "release"}
ASSUME IdAssumption == IsFiniteSet(Id)
ASSUME RequestAssumption == Ask \in [Request -> SUBSET AskType]
ASSUME ConfigAssumption == Config \subseteq ConfigType
ASSUME SafetyAssumption == Safety \in Nat \ {0} /\ MaxWrites \in Nat

VARIABLES
    rows,    \* the table, None where there is no row
    config,  \* chosen once
    pc,      \* where the guard of each request stands, or its verdict
    ask,     \* the request as sent
    ctx,     \* the parent and the owner that limit it
    walk,    \* the node whose row is queried next, the nodes before it, their number
    snap,    \* the limit snapshot
    units,   \* the rows the handler wants to create
    writes,  \* see MaxWrites
    late,    \* history: rows that joined the group after they were counted
    stale    \* history: the table changed since the request arrived

guard == <<pc, ask, ctx, walk, snap, units>>
vars == <<rows, config, guard, writes, late, stale>>

NoCtx == [up |-> None, owner |-> None]
NoWalk == [cur |-> None, seen |-> {}, depth |-> 0]
NoSnap == [current |-> 0, maximum |-> 0, reached |-> FALSE]

Querying == {"hydrate", "walk", "count", "link", "children"}
\* "error" is a query that failed, "typeError" a fault of the guard: both end as a 500.
Verdict == {"passed", "listed", "admitted", "badRequest", "conflict", "typeError", "error"}

TypeOK ==
    /\ rows \in [Id -> Row \cup {None}]
    /\ config \in Config
    /\ pc \in [Request -> {"idle"} \cup Querying \cup Verdict]
    /\ ask \in [Request -> AskType \cup {None}]
    /\ ctx \in [Request -> [up : Id \cup {None}, owner : Owner \cup {None}]]
    /\ walk \in [Request -> [cur : Id \cup {None}, seen : SUBSET Id, depth : Nat]]
    /\ snap \in [Request -> [current : Nat, maximum : Nat, reached : BOOLEAN]]
    /\ units \in [Request -> Nat]
    /\ writes \in 0..MaxWrites
    /\ late \in [Request -> Nat]
    /\ stale \in [Request -> BOOLEAN]

\* The data that is there when the service starts may have any shape.
Init ==
    /\ rows \in [Id -> {None} \cup { row \in Row : ~row.deleted }]
    /\ config \in Config
    /\ pc = [r \in Request |-> "idle"]
    /\ ask = [r \in Request |-> None]
    /\ ctx = [r \in Request |-> NoCtx]
    /\ walk = [r \in Request |-> NoWalk]
    /\ snap = [r \in Request |-> NoSnap]
    /\ units = [r \in Request |-> 0]
    /\ writes = 0
    /\ late = [r \in Request |-> 0]
    /\ stale = [r \in Request |-> FALSE]

Live == { i \in Id : rows[i] # None /\ ~rows[i].deleted }

-----------------------------------------------------------------------------
(* Who is limited, and by what.                                            *)

\* resolveLimitAction
Action(a) ==
    CASE a.explicit \in {"skip", "release"} -> "skip"
      [] a.explicit \in {"create", "dynamic"} -> a.explicit
      [] a.explicit = None /\ a.root /\ a.method = "POST" -> "create"
      [] a.explicit = None /\ a.root /\ a.method = "GET"
            /\ config.strategy \in {"user", "global"} -> "list"
      [] OTHER -> "skip"

\* getHydratableFieldNames
Fields ==
    CASE config.strategy = "parent" -> {"owner"}
      [] config.strategy = "tree" -> IF config.scoped THEN {"up", "owner"} ELSE {"up"}
      [] OTHER -> {}

\* A field that was not sent is read from the row named in the route.
NeedsRow(a) ==
    Action(a) \in {"create", "dynamic"} /\ a.id # None /\ \E f \in Fields : a[f] = None

Given(value, default) == IF value = None THEN default ELSE value

\* The rows that count against the same maximum.
Group(r) ==
    { i \in Live :
        CASE config.strategy \in {"user", "parent"} -> rows[i].owner = ctx[r].owner
          [] config.strategy = "global" -> TRUE
          [] config.strategy = "tree" ->
                rows[i].up = ctx[r].up /\ (config.scoped => rows[i].owner = ctx[r].owner) }

Matches(rule, level) ==
    /\ rule.from = None \/ level >= rule.from
    /\ rule.to = None \/ level <= rule.to

\* The first rule that matches the level wins.
MaximumAt(level) ==
    LET matching == { n \in DOMAIN config.rules : Matches(config.rules[n], level) } IN
    IF config.strategy # "tree" \/ matching = {} THEN config.maximum
    ELSE config.rules[CHOOSE n \in matching : \A m \in matching : n <= m].maximum

NormalizeUnits(n) == IF n > 0 THEN n ELSE 1

-----------------------------------------------------------------------------
(* The steps of the guard.                                                 *)

Decide(r, verdict, u) ==
    /\ pc' = [pc EXCEPT ![r] = verdict]
    /\ walk' = [walk EXCEPT ![r] = NoWalk]
    /\ units' = [units EXCEPT ![r] = u]

\* Mistake, for mutation: whatever is asked for counts as one.
Consume_One(r, s, u) ==
    Decide(r, IF ~s.reached /\ s.current < s.maximum THEN "admitted" ELSE "conflict", u)

\* assertCanConsume
Consume(r, s, u) ==
    Decide(r, IF ~s.reached /\ s.current + u <= s.maximum THEN "admitted" ELSE "conflict", u)

\* What follows the snapshot s.
Judge(r, a, s) ==
    /\ snap' = [snap EXCEPT ![r] = s]
    /\ \/ Action(a) = "list" /\ Decide(r, "listed", 0)
       \/ Action(a) = "create" /\ Consume(r, s, 1)
       \/ Action(a) = "dynamic" /\ a.how = "fixed" /\ Consume(r, s, NormalizeUnits(a.fixed))
       \/ Action(a) = "dynamic" /\ a.how # "fixed" /\ a.id = None /\ Consume(r, s, 1)
       \/ /\ Action(a) = "dynamic" /\ a.how # "fixed" /\ a.id # None
          /\ pc' = [pc EXCEPT ![r] = IF a.how = "linked" THEN "link" ELSE "children"]
          /\ walk' = [walk EXCEPT ![r] = [NoWalk EXCEPT !.cur = a.id]]
          /\ UNCHANGED units

\* The request is resolved to a parent and an owner; d nodes are above its rows.
Place(r, a, up, owner, d) ==
    LET tooDeep == config.strategy = "tree" /\ config.maxDepth # None
                   /\ d + 1 > config.maxDepth
    IN  /\ ctx' = [ctx EXCEPT ![r] = [up |-> up, owner |-> owner]]
        /\ \/ tooDeep /\ Judge(r, a, [NoSnap EXCEPT !.reached = TRUE])
           \/ /\ ~tooDeep /\ config.strategy = "tree" /\ config.scoped /\ owner = None
              /\ Decide(r, "badRequest", 0)
              /\ UNCHANGED snap
           \/ /\ ~tooDeep
              /\ config.strategy = "tree" /\ config.scoped => owner # None
              /\ pc' = [pc EXCEPT ![r] = "count"]
              /\ walk' = [walk EXCEPT ![r] = NoWalk]
              /\ snap' = [snap EXCEPT ![r] = [NoSnap EXCEPT !.maximum = MaximumAt(d + 1)]]
              /\ UNCHANGED units

\* Nothing sent, and no request.user to read sub of.
Userless(a, owner) == config.strategy = "user" /\ owner = None /\ ~a.user

\* resolveContext, up to the first query of the strategy.
Resolve(r, a, up, owner) ==
    \/ /\ Userless(a, owner)
       /\ Decide(r, "typeError", 0)
       /\ UNCHANGED <<ctx, snap>>
    \/ /\ config.strategy \in {"user", "parent"} /\ owner = None /\ ~Userless(a, owner)
       /\ Decide(r, "badRequest", 0)
       /\ UNCHANGED <<ctx, snap>>
    \/ /\ config.strategy \in {"user", "parent"} => owner # None
       /\ config.strategy # "tree" \/ up = None
       /\ Place(r, a, up, owner, 0)
    \/ /\ config.strategy = "tree" /\ up # None
       /\ pc' = [pc EXCEPT ![r] = "walk"]
       /\ ctx' = [ctx EXCEPT ![r] = [up |-> up, owner |-> owner]]
       /\ walk' = [walk EXCEPT ![r] = [NoWalk EXCEPT !.cur = up]]
       /\ UNCHANGED <<snap, units>>

Arrive(r, a) ==
    /\ pc[r] = "idle"
    /\ ask' = [ask EXCEPT ![r] = a]
    /\ \/ /\ Action(a) = "skip"
          /\ pc' = [pc EXCEPT ![r] = "passed"]
          /\ UNCHANGED <<ctx, walk, snap, units>>
       \/ /\ Action(a) # "skip" /\ NeedsRow(a)
          /\ pc' = [pc EXCEPT ![r] = "hydrate"]
          /\ UNCHANGED <<ctx, walk, snap, units>>
       \/ /\ Action(a) # "skip" /\ ~NeedsRow(a)
          /\ Resolve(r, a, a.up, IF config.strategy = "user" THEN Given(a.owner, a.subject)
                              ELSE a.owner)
    /\ UNCHANGED <<rows, writes>>

\* hydrateContextFromEntityId.  Deleted rows are read as well; only a missing field is
\* filled in.
Hydrate(r) ==
    LET a == ask[r]
        Value(f) == IF f \in Fields /\ rows[a.id] # None THEN Given(a[f], rows[a.id][f]) ELSE a[f]
    IN  /\ pc[r] = "hydrate"
        /\ Resolve(r, a, Value("up"), Value("owner"))
        /\ UNCHANGED <<rows, ask, writes>>

\* Mistake, for mutation: nothing stops the walk.
Stops_Never(seen, depth, next, most) == FALSE

\* A cycle, or too many nodes.
Stops(seen, depth, next, most) == next \in seen \/ depth > most

\* Mistake, for mutation: deleted parents are found.
Found_Deleted == { i \in Id : rows[i] # None }

\* What selectParentRaw finds.
Found == Live

\* resolveParentInfo: up to the root.  The nearest node with a scope gives the scope.
Walk(r) ==
    LET i == walk[r].cur
        up == IF i \in Found THEN rows[i].up ELSE None
        owner == IF i \in Found /\ config.scoped THEN Given(ctx[r].owner, rows[i].owner)
                 ELSE ctx[r].owner
        seen == walk[r].seen \cup {i}
        depth == walk[r].depth + 1
        failed == i \notin Found \/ Stops(seen, depth, up, Safety)
    IN  /\ pc[r] = "walk"
        /\ \/ failed /\ Decide(r, "badRequest", 0) /\ UNCHANGED <<ctx, snap>>
           \/ ~failed /\ up = None /\ Place(r, ask[r], ctx[r].up, owner, depth)
           \/ /\ ~failed /\ up # None
              /\ ctx' = [ctx EXCEPT ![r].owner = owner]
              /\ walk' = [walk EXCEPT ![r] = [cur |-> up, seen |-> seen, depth |-> depth]]
              /\ UNCHANGED <<pc, snap, units>>
        /\ UNCHANGED <<rows, ask, writes>>

Count(r) ==
    /\ pc[r] = "count"
    /\ Judge(r, ask[r], [snap[r] EXCEPT !.current = Cardinality(Group(r))])
    /\ UNCHANGED <<rows, ask, ctx, writes>>

\* countLinkedListUnits: one query for each node of the list, which a node that is
\* not found ends.  Its own maxDepth is the Safety here.
Link(r) ==
    LET i == walk[r].cur
        next == IF i \in Live THEN rows[i].up ELSE None
        seen == walk[r].seen \cup {i}
        depth == walk[r].depth + 1
        failed == next # None /\ Stops(seen, depth + 1, next, Safety)
        counted == IF i \in Live THEN units[r] + 1 ELSE units[r]
        total == IF ask[r].includeRoot THEN counted ELSE counted - 1
    IN  /\ pc[r] = "link"
        /\ \/ next = None /\ Consume(r, snap[r], NormalizeUnits(total))
           \/ failed /\ Decide(r, "badRequest", 0)
           \/ /\ next # None /\ ~failed
              /\ walk' = [walk EXCEPT ![r] = [cur |-> next, seen |-> seen, depth |-> depth]]
              /\ units' = [units EXCEPT ![r] = counted]
              /\ UNCHANGED pc
        /\ UNCHANGED <<rows, ask, ctx, snap, writes>>

\* countDirectChildrenUnits
Children(r) ==
    LET children == { i \in Live : rows[i].up = ask[r].id } IN
    /\ pc[r] = "children"
    /\ Consume(r, snap[r], NormalizeUnits(Cardinality(children)
                                          + (IF ask[r].includeRoot THEN 1 ELSE 0)))
    /\ UNCHANGED <<rows, ask, ctx, snap, writes>>

\* A query fails.
Fail(r) ==
    /\ pc[r] \in Querying
    /\ Decide(r, "error", 0)
    /\ UNCHANGED <<rows, ask, ctx, snap, writes>>

-----------------------------------------------------------------------------
(* The handlers behind the guard, which are not part of the repository.    *)

Leave(r) ==
    /\ pc' = [pc EXCEPT ![r] = "idle"]
    /\ ask' = [ask EXCEPT ![r] = None]
    /\ ctx' = [ctx EXCEPT ![r] = NoCtx]
    /\ snap' = [snap EXCEPT ![r] = NoSnap]
    /\ units' = [units EXCEPT ![r] = 0]
    /\ UNCHANGED <<walk, writes>>

\* The answer; an admitted handler may fail before it writes.
Respond(r) == pc[r] \in Verdict /\ Leave(r) /\ UNCHANGED rows

\* An admitted handler creates the rows it asked for.
Perform(r) ==
    /\ pc[r] = "admitted"
    /\ \E new \in SUBSET { i \in Id : rows[i] = None } :
          /\ Cardinality(new) = units[r]
          /\ rows' = [i \in Id |->
                        IF i \in new
                        THEN [up |-> ctx[r].up, owner |-> ctx[r].owner, deleted |-> FALSE]
                        ELSE rows[i]]
    /\ Leave(r)

Write(i, row) ==
    /\ writes < MaxWrites
    /\ rows' = [rows EXCEPT ![i] = row]
    /\ writes' = writes + 1
    /\ UNCHANGED guard

Delete(i) == i \in Live /\ Write(i, [rows[i] EXCEPT !.deleted = TRUE])
MoveRow(i, up) == i \in Live /\ up # rows[i].up /\ Write(i, [rows[i] EXCEPT !.up = up])

\* After the count a request only waits, for its units and for its handler.
Counted == {"link", "children", "admitted"}

Observe ==
    /\ config' = config
    /\ late' = [r \in Request |->
                  IF pc[r] \in Counted /\ pc'[r] \in Counted
                  THEN late[r] + Cardinality(Group(r)' \ Group(r)) ELSE 0]
    /\ stale' = [r \in Request |-> pc'[r] # "idle" /\ (stale[r] \/ rows' # rows)]

Step(r) ==
    \/ Hydrate(r) \/ Walk(r) \/ Count(r) \/ Link(r) \/ Children(r) \/ Fail(r) \/ Respond(r)

Next ==
    /\ \/ \E r \in Request : (\E a \in Ask[r] : Arrive(r, a)) \/ Step(r) \/ Perform(r)
       \/ \E i \in Id : Delete(i) \/ \E up \in Id \cup {None} : MoveRow(i, up)
    /\ Observe

Spec == Init /\ [][Next]_vars

-----------------------------------------------------------------------------
(* What a request that nobody disturbs must be told, from the shape of the *)
(* table alone.                                                            *)

\* The nodes from i to the root: the least set with i that is closed under parents.
Above(i) ==
    { j \in Id : \A S \in SUBSET Id :
        (i \in S /\ \A k \in S \cap Live : rows[k].up # None => rows[k].up \in S) => j \in S }

Ends(i) == \E j \in Above(i) : j \notin Live \/ rows[j].up = None

Rooted(i) == Above(i) \subseteq Live /\ Ends(i) /\ Cardinality(Above(i)) <= Safety

\* The first value on the way to the root.
Nearest(i) ==
    LET scoped == { j \in Above(i) : rows[j].owner # None }
        first == { j \in scoped : \A k \in scoped : k \in Above(j) }
    IN  IF first = {} THEN None ELSE rows[CHOOSE j \in first : TRUE].owner

SentOrStored(a, f) ==
    IF a[f] = None /\ f \in Fields /\ a.id # None /\ rows[a.id] # None
    THEN rows[a.id][f] ELSE a[f]

Wanted(a) ==
    IF Action(a) = "create" THEN 1
    ELSE IF a.how = "fixed" THEN NormalizeUnits(a.fixed)
    ELSE IF a.id = None THEN 1
    ELSE IF a.how = "linked"
         THEN NormalizeUnits(Cardinality(Above(a.id) \cap Live)
                             - (IF a.includeRoot THEN 0 ELSE 1))
         ELSE NormalizeUnits(Cardinality({ j \in Live : rows[j].up = a.id })
                             + (IF a.includeRoot THEN 1 ELSE 0))

Placed(a, up, scope) ==
    CASE config.strategy = "user" -> a.owner # None \/ a.subject # None
      [] config.strategy = "parent" -> scope # None
      [] config.strategy = "global" -> TRUE
      [] config.strategy = "tree" -> up # None => Rooted(up)

Level(up) == IF up = None THEN 1 ELSE Cardinality(Above(up)) + 1

TooDeep(up) == config.strategy = "tree" /\ config.maxDepth # None /\ Level(up) > config.maxDepth

Siblings(a, up, scope) ==
    { i \in Live :
        CASE config.strategy = "user" -> rows[i].owner = Given(a.owner, a.subject)
          [] config.strategy = "parent" -> rows[i].owner = scope
          [] config.strategy = "global" -> TRUE
          [] config.strategy = "tree" ->
                rows[i].up = up /\ (config.scoped => rows[i].owner = scope) }

BadList(a) ==
    /\ Action(a) = "dynamic" /\ a.how = "linked" /\ a.id # None
    /\ ~Ends(a.id) \/ Cardinality(Above(a.id)) > Safety

Due(a) ==
    LET up == SentOrStored(a, "up")
        sent == SentOrStored(a, "owner")
        scoped == config.strategy = "tree" /\ config.scoped
        scope == IF scoped /\ sent = None /\ up # None THEN Nearest(up) ELSE sent
        refused == \/ ~Placed(a, up, sent)
                   \/ scoped /\ scope = None /\ ~TooDeep(up)
                   \/ BadList(a)
        fits == /\ ~TooDeep(up)
                /\ Cardinality(Siblings(a, up, scope)) + Wanted(a) <= MaximumAt(Level(up))
    IN  IF Action(a) = "skip" THEN "passed"
        ELSE IF Userless(a, Given(a.owner, a.subject)) THEN "typeError"
        ELSE IF refused THEN "badRequest"
        ELSE IF Action(a) = "list" THEN "listed"
        ELSE IF fits THEN "admitted" ELSE "conflict"

\* A request that met no change of the table gets the answer that is due to it, however
\* many queries the guard took to find it: broken, cyclic and over-long chains of parents
\* are refused, the level and the scope are those of the tree, and rows that do not fit
\* are refused.  Only a limit by user fails on its own: without a user in the request it
\* is a TypeError.  (LimitGuard.canActivate, LimitService, the strategies)
VerdictIsRight ==
    \A r \in Request :
        pc[r] \in Verdict \ {"error"} /\ ~stale[r] => pc[r] = Due(ask[r])

\* Check and write are not atomic, but rows beyond the maximum come only from rows that
\* joined the group between them: the rows of an admitted request fit but for those.
\* (LimitService.assertCanConsume, LimitGuard.canActivate)
OverrunIsOverlap ==
    \A r \in Request :
        pc[r] = "admitted" =>
            Cardinality(Group(r)) + units[r] <= snap[r].maximum + late[r]

\* A walk queries no row twice, also when rows are moved under it, so no cycle keeps a
\* request; and no more than Safety rows along a list, where the depth is tested before
\* the query, but Safety + 1 towards the root, where it is tested after.
\* (TreeLimitStrategy.resolveParentInfo, LimitGuard.countLinkedListUnits)
WalksAreShort ==
    \A r \in Request :
        LET queried == walk[r].seen \cup {walk[r].cur} IN
        /\ walk[r].cur \notin walk[r].seen
        /\ pc[r] = "walk" => Cardinality(queried) <= Safety + 1
        /\ pc[r] = "link" => Cardinality(queried) <= Safety

=============================================================================
