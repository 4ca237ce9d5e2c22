-------------------------- MODULE CollectionPages --------------------------
(***************************************************************************)
(* A client that pages through GET /users along the next links, while      *)
(* others create, change and remove users.                                 *)
(*                                                                         *)
(* Each page costs three statements: the ids of the page and then their    *)
(* rows, because the list joins the avatar (TypeORM's way to page a join), *)
(* and the number of all rows, on another connection.  Nothing keeps the   *)
(* table still between statements or between pages.                        *)
(***************************************************************************)
EXTENDS ResponseEnvelopes, Integers, FiniteSets, SequencesExt

CONSTANTS
    Id,            \* bound: uuids, in their order
    Key,           \* bound: values of the column that is sorted by
    DefaultLimit, MaxLimit,
    Limit,         \* bound: limits clients ask for, None among them
    MaxChanges     \* bound: changes of the table during a walk

ASSUME IdAssumption == IsFiniteSet(Id) /\ Id \subseteq Nat /\ Key \subseteq Nat
ASSUME LimitAssumption ==
    /\ DefaultLimit \in Nat \ {0} /\ MaxLimit \in Nat \ {0} /\ DefaultLimit <= MaxLimit
    /\ Limit \subseteq Nat \cup {None}

Scope == {"active", "deleted", "all"}

\* The URLs of a walk, and the pagination of its answers.
Collection == <<"users">>
Path == { Collection, Append(Collection, "pagination"), Append(Collection, "hateoas") }
Query ==
    { q \in UNION { [D -> Nat \cup Scope \cup {"ASC"}] :
                       D \in SUBSET {"page", "limit", "deleted", "sortOrder"} } :
        /\ \A k \in DOMAIN q \cap {"page", "limit"} : q[k] \in Nat
        /\ "deleted" \in DOMAIN q => q["deleted"] \in Scope }
Url == [path : Path, query : Query]
Link == Url \cup {None}
Pagination ==
    [meta : [currentPage : Nat, totalPages : Nat, pageSize : Nat],
     links : [previous : Link, next : Link, first : Link, last : Link] \cup {None}]

\* null is no number, no object and no list.
ASSUME NullAssumption ==
    /\ None \notin Nat /\ None \notin Url /\ None \notin Pagination
    /\ None \notin Seq(Id) /\ \A s \in SUBSET Id : s # None

VARIABLES
    rows,     \* sort key of each user the filter of the walk matches, None for no user
    deleted,  \* users that are soft-deleted
    step,       \* "idle", "reading", "done"
    url,      \* the request in flight
    ids,      \* ids of its page, None before they are read
    items,    \* rows of its page, None before they are read
    total,    \* number of all rows, None before they are counted
    seen,     \* users of all pages so far
    stayed,   \* history: users in the list since the walk began, unmoved
    left,     \* history: users who left the list or moved in it
    came,     \* history: users who came to the list or moved in it
    late      \* history: those who came between count and ids of one request

table == <<rows, deleted>>
request == <<step, url, ids, items, total>>
history == <<stayed, left, came, late>>
walking == <<table, request, seen, history>>

-----------------------------------------------------------------------------
(* The query of a request.                                                 *)

Asked(query, key) == IF key \in DOMAIN query THEN query[key] ELSE None

PositiveIntegerOrDefault(value, fallback) ==
    IF value # None /\ value > 0 THEN value ELSE fallback

Min2(a, b) == IF a < b THEN a ELSE b

\* normalize; the configured default page is the first.
Page(query) == PositiveIntegerOrDefault(Asked(query, "page"), 1)
PageSize(query) ==
    Min2(PositiveIntegerOrDefault(Asked(query, "limit"), DefaultLimit), MaxLimit)
Offset(query) == (Page(query) - 1) * PageSize(query)

\* applyDeletedScope
Listed(query) ==
    LET scope == Or(Asked(query, "deleted"), "active")
    IN  { i \in Id : /\ rows[i] # None
                     /\ scope = "active" => i \notin deleted
                     /\ scope = "deleted" => i \in deleted }

\* Mistake, for mutation: no tie-breaker.
Before_Untied(query, i, j) ==
    IF Asked(query, "sortOrder") = "ASC" THEN rows[i] < rows[j] ELSE rows[j] < rows[i]

\* applySorting: by the column, then by id.
Before(query, i, j) ==
    \/ IF Asked(query, "sortOrder") = "ASC" THEN rows[i] < rows[j] ELSE rows[j] < rows[i]
    \/ rows[i] = rows[j] /\ i < j

\* The orders PostgreSQL may return some users in.
Orders(query, users) ==
    { s \in SetToSeqs(users) : \A m, n \in 1..Len(s) : Before(query, s[m], s[n]) => m < n }

Window(query, s) == SubSeq(s, Offset(query) + 1, Min2(Offset(query) + PageSize(query), Len(s)))

\* Mistake, for mutation: a last page that is not full is not counted.
BuildMeta_Floor(query, totalItems) ==
    [currentPage |-> Page(query),
     totalPages |-> IF totalItems < PageSize(query) THEN 1 ELSE totalItems \div PageSize(query),
     pageSize |-> PageSize(query)]

BuildMeta(query, totalItems) ==
    [currentPage |-> Page(query),
     totalPages |-> IF totalItems = 0 THEN 1
                    ELSE (totalItems + PageSize(query) - 1) \div PageSize(query),
     pageSize |-> PageSize(query)]

-----------------------------------------------------------------------------
\* The parameters that are there.
Given(asked) == [k \in { q \in DOMAIN asked : asked[q] # None } |-> asked[k]]

\* The client begins with the list, or with the answer about its pages or links.
\* Who asks for no scope gets the active users.
Start ==
    { [path |-> p, query |-> Given(asked)] :
        p \in Path,
        asked \in [limit : Limit, deleted : (Scope \ {"active"}) \cup {None}, sortOrder : {"ASC", None}] }

WalkInit ==
    /\ rows \in [Id -> Key \cup {None}]
    /\ deleted \in SUBSET { i \in Id : rows[i] # None }
    /\ step = "idle" /\ url = None
    /\ ids = None /\ items = None /\ total = None
    /\ seen = <<>> /\ stayed = {} /\ left = 0 /\ came = 0 /\ late = 0

Ask(u) ==
    /\ step = "idle"
    /\ step' = "reading"
    /\ url' = u
    /\ stayed' = Listed(u.query)
    /\ UNCHANGED <<table, ids, items, total, seen, left, came, late>>

\* findList, first statement: the ids of the page.  Without ids there is no second.
ReadIds ==
    /\ step = "reading" /\ ids = None
    /\ \E s \in Orders(url.query, Listed(url.query)) :
          /\ ids' = ToSet(Window(url.query, s))
          /\ items' = IF ids' = {} THEN <<>> ELSE None
    /\ UNCHANGED <<table, step, url, total, seen, history>>

\* findList, second statement: the rows of these ids, as they are by now.
ReadRows ==
    /\ step = "reading" /\ ids # None /\ items = None
    /\ items' \in Orders(url.query, ids \cap Listed(url.query))
    /\ UNCHANGED <<table, step, url, ids, total, seen, history>>

\* countList
CountRows ==
    /\ step = "reading" /\ total = None
    /\ total' = Cardinality(Listed(url.query))
    /\ UNCHANGED <<table, step, url, ids, items, seen, history>>

Follow(next) ==
    /\ IF next = None THEN step' = "done" /\ UNCHANGED url
       ELSE step' = "reading" /\ url' = next
    /\ ids' = None /\ items' = None /\ total' = None

\* findAll, findPagination, findHateoas of the controller, and the envelope.
Respond ==
    LET meta == BuildMeta(url.query, total)
        hidden == [NoExtras EXCEPT !.pagination = [meta |-> meta, links |-> None]]
        list == CreateSuccess(url, None, Payload("none", items, NoExtras, hidden))
        about == IF Last(url.path) = "pagination"
                 THEN BuildCollectionPagination(url, meta).links
                 ELSE BuildCollectionHateoas(url, meta)
    IN  /\ step = "reading" /\ items # None /\ total # None
        /\ IF url.path = Collection
           THEN /\ seen' = seen \o items
                /\ Follow(IF "next" \in DOMAIN list.links THEN list.links["next"] ELSE None)
           ELSE UNCHANGED seen /\ Follow(about["first"])
        /\ UNCHANGED <<table, history>>

-----------------------------------------------------------------------------
(* The others.                                                             *)

\* What a change to i means for the walk.
Observe(i) ==
    LET before == { j \in {i} : j \in Listed(url.query) }
        after == { j \in {i} : j \in Listed(url.query)' }
        stays == before = after /\ rows'[i] = rows[i]
        left1 == IF stays THEN 0 ELSE Cardinality(before)
        came1 == IF stays THEN 0 ELSE Cardinality(after)
    IN  /\ UNCHANGED <<request, seen>>
        /\ left' = left + left1
        /\ came' = came + came1
        /\ late' = IF total # None /\ ids = None THEN late + came1 ELSE late
        /\ stayed' = stayed \ {i}
        /\ left1 + came1 > 0

Disturbed == step = "reading" /\ left + came < MaxChanges

\* A user is created, or comes to match the filter.
Create(i, k) ==
    /\ Disturbed
    /\ rows[i] = None
    /\ rows' = [rows EXCEPT ![i] = k]
    /\ UNCHANGED deleted
    /\ Observe(i)

\* A user is updated in the column that is sorted by.
Update(i, k) ==
    /\ Disturbed
    /\ rows[i] # None /\ rows[i] # k
    /\ rows' = [rows EXCEPT ![i] = k]
    /\ UNCHANGED deleted
    /\ Observe(i)

SoftDelete(i) ==
    /\ Disturbed
    /\ rows[i] # None /\ i \notin deleted
    /\ deleted' = deleted \cup {i}
    /\ UNCHANGED rows
    /\ Observe(i)

\* A user is deleted for good, or ceases to match the filter.
HardDelete(i) ==
    /\ Disturbed
    /\ rows[i] # None
    /\ rows' = [rows EXCEPT ![i] = None]
    /\ deleted' = deleted \ {i}
    /\ Observe(i)

WalkNext ==
    \/ \E u \in Start : Ask(u)
    \/ ReadIds
    \/ ReadRows
    \/ CountRows
    \/ Respond
    \/ \E i \in Id : SoftDelete(i) \/ HardDelete(i) \/ \E k \in Key : Create(i, k) \/ Update(i, k)

WalkSpec == WalkInit /\ [][WalkNext]_walking

-----------------------------------------------------------------------------
(* Properties.                                                             *)

Times(i) == Cardinality({ n \in 1..Len(seen) : seen[n] = i })

\* Who walks from the first page along the next links to the last one sees
\* everybody who was in the list all the time, but for one user for each who left
\* the list or moved in it meanwhile, and one for each who came after the rows
\* were counted for a page and before they were read.
WalkMissesNoOne ==
    step = "done" =>
        Cardinality({ i \in stayed : Times(i) = 0 }) <= left + late

\* And sees nobody twice, but for one user for each who came to the list or moved:
\* the order is total, so that two pages never claim the same place.
WalkRepeatsNoOne ==
    step = "done" =>
        Cardinality({ x \in stayed \X (2..Len(seen)) : x[2] <= Times(x[1]) }) <= came
=============================================================================
