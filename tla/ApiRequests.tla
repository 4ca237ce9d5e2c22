---------------------------- MODULE ApiRequests ----------------------------
(***************************************************************************)
(* One HTTP request on its way through guards, pipes, handler, the global  *)
(* interceptors and the exception filter to its answer.                    *)
(*                                                                         *)
(* TimeoutInterceptor and ResponseInterceptor are provided as              *)
(* APP_INTERCEPTOR by CommonModule and once more by AppModule, and Nest    *)
(* runs both pairs: what a handler returns is put into an envelope, and    *)
(* that envelope is the payload of the second ResponseInterceptor.         *)
(***************************************************************************)
EXTENDS ErrorDocuments, FiniteSets

CONSTANTS
    Route,      \* bound: [url, skip, withLimits] of the routes there are
    Returned,   \* bound: payloads handlers return
    Thrown,     \* bound: what guards, pipes and handlers throw
    Snapshot    \* bound: limit snapshots LimitGuard leaves in a request

\* Statuses are those of errors, validation errors are where class-validator puts them,
\* nested once at most (no DTO of the API nests another), texts are there where they are
\* told of, and so are the failures of a bag.
Throwable(e) ==
    /\ e.class \in {"app", "http", "i18nValidation", "other"}
    /\ e.status \in 400..599 \/ (e.class = "other" /\ e.status = None)
    /\ e.errors.kind = "tree" =>
          /\ e.class \in {"http", "i18nValidation"}
          /\ e.errors.list \in Violations /\ Depth[e.errors.list] <= 2
    /\ e.class = "i18nValidation" => e.errors.kind = "tree"
    /\ e.errors.kind # "tree" =>
          /\ Len(e.errors.list) \in Nat
          /\ \A i \in 1..Len(e.errors.list) : Len(e.errors.list[i].failures) \in Nat
    /\ e.message.is \in {"none", "template", "text", "texts"}
    /\ e.message.is = "texts" => Len(e.message.raws) \in Nat \ {0}

ASSUME ThrownAssumption == \A e \in Thrown : Throwable(e)

\* What handlers send besides data.  Pages are counted from one, a link that is there
\* is not null, and what the code itself attaches to data or requests is well formed.
Relation == {"self", "previous", "next", "first", "last", "create"}
PaginationGiven(p) ==
    /\ p # None /\ p # Malformed /\ p = [meta |-> p.meta, links |-> p.links]
    /\ p.meta \in [currentPage : Nat \ {0}, totalPages : Nat \ {0}, pageSize : Nat \ {0}]
    /\ p.links # None => DOMAIN p.links = {"previous", "next", "first", "last"}
LinksGiven(l) ==
    l # None /\ l # Malformed /\ DOMAIN l \subseteq Relation /\ \A rel \in DOMAIN l : l[rel] # None
LimitsGiven(l) == l # None /\ l # Malformed /\ IsLimitsInfo(l)

ASSUME ReturnedAssumption ==
    \A p \in Returned :
        /\ p = Payload(p.shape, p.data, p.beside, p.hidden)
        /\ p.beside.pagination \in {None, Malformed} \/ PaginationGiven(p.beside.pagination)
        /\ p.beside.links \in {None, Malformed} \/ LinksGiven(p.beside.links)
        /\ p.beside.limits # Malformed
        /\ p.hidden = [pagination |-> p.hidden.pagination, limits |-> p.hidden.limits,
                       links |-> p.hidden.links]
        /\ p.hidden.pagination = None \/ PaginationGiven(p.hidden.pagination)
        /\ p.hidden.links = None \/ LinksGiven(p.hidden.links)
        /\ p.hidden.limits = None \/ LimitsGiven(p.hidden.limits)
ASSUME SnapshotAssumption == \A s \in Snapshot : LimitsGiven(s)

\* Objects are not null, nor malformed.
ASSUME MergedAssumption ==
    \A p \in Returned : p.hidden.links # None => NormalizeSuccessPayload(p).extras.links # None
ASSUME RouteAssumption ==
    \A r \in Route :
        /\ r.url # None
        /\ \A p \in Returned :
              /\ CreateSuccess(r.url, None, p).links # None
              /\ \A s \in {p.beside.pagination, p.hidden.pagination} :
                    PaginationGiven(s) =>
                        LET ensured == EnsurePaginationLinks(s, r.url)
                        IN  ensured # None /\ ensured # Malformed /\ ensured.links # None

VARIABLES
    pc,         \* where the request stands
    route,
    limits,     \* request.__limits
    returned,   \* the payload the handler returned
    payload,    \* what the interceptors have made of it
    layer,      \* ResponseInterceptors it has passed
    thrown,     \* what the filter is called with
    answer

vars == <<pc, route, limits, returned, payload, layer, thrown, answer>>

Layers == 2

\* Nest's RequestTimeoutException, made without a message.
RequestTimeout ==
    [class |-> "http", status |-> 408, body |-> "record", kind |-> None, code |-> None,
     message |-> [is |-> "text",
                  raws |-> << [form |-> "generic", code |-> None, validation |-> FALSE,
                               property |-> None] >>],
     errors |-> [kind |-> "none", list |-> <<>>]]

Init ==
    /\ pc = "idle"
    /\ route = None /\ limits = None
    /\ returned = None /\ payload = None /\ layer = 0
    /\ thrown = None /\ answer = None

Receive ==
    /\ pc = "idle"
    /\ pc' = "guards"
    /\ route' \in Route
    /\ UNCHANGED <<limits, returned, payload, layer, thrown, answer>>

\* LimitGuard puts its snapshot into the request, other routes have none.
PassGuards ==
    /\ pc = "guards"
    /\ pc' = "handler"
    /\ limits' \in Snapshot \cup {None}
    /\ UNCHANGED <<route, returned, payload, layer, thrown, answer>>

\* A guard, and behind the interceptors a pipe or the handler, throws.
Throw ==
    /\ pc \in {"guards", "handler"}
    /\ pc' = "thrown"
    /\ thrown' \in Thrown
    /\ UNCHANGED <<route, limits, returned, payload, layer, answer>>

\* The handler takes too long; what it does later is ignored.
TimeOut ==
    /\ pc = "handler"
    /\ pc' = "thrown"
    /\ thrown' = RequestTimeout
    /\ UNCHANGED <<route, limits, returned, payload, layer, answer>>

\* The Google callback answers by itself.
Redirect ==
    /\ pc = "handler" /\ route.skip
    /\ pc' = "answered"
    /\ answer' = [is |-> "redirect", document |-> None]
    /\ UNCHANGED <<route, limits, returned, payload, layer, thrown>>

Return ==
    /\ pc = "handler" /\ ~route.skip
    /\ pc' = "returned"
    /\ returned' \in Returned
    /\ payload' = returned'
    /\ UNCHANGED <<route, limits, layer, thrown, answer>>

Intercept ==
    LET envelope == CreateSuccess(route.url, IF route.withLimits THEN limits ELSE None, payload)
    IN  /\ pc = "returned"
        /\ layer' = layer + 1
        /\ payload' = AsPayload(envelope)
        /\ IF layer' = Layers
           THEN pc' = "answered" /\ answer' = [is |-> "success", document |-> envelope]
           ELSE UNCHANGED <<pc, answer>>
        /\ UNCHANGED <<route, limits, returned, thrown>>

Catch ==
    /\ pc = "thrown"
    /\ pc' = "answered"
    /\ answer' = [is |-> "error", document |-> NormalizeException(thrown)]
    /\ UNCHANGED <<route, limits, returned, payload, layer, thrown>>

-----------------------------------------------------------------------------
Next == Receive \/ PassGuards \/ Throw \/ TimeOut \/ Redirect \/ Return \/ Intercept \/ Catch

Spec == Init /\ [][Next]_vars

-----------------------------------------------------------------------------
(* What is due to a request, said without the steps that lead there.       *)

FirstOf(candidates) ==
    IF \A i \in 1..Len(candidates) : candidates[i] = None THEN None
    ELSE candidates[CHOOSE i \in 1..Len(candidates) :
                        candidates[i] # None /\ \A j \in 1..(i - 1) : candidates[j] = None]

\* What the handler sent beside its data, if it is well formed.
Beside(p, extra) ==
    LET sent == IF p.shape \in {"data", "items"} THEN p.beside[extra] ELSE None
        broken == \/ sent = Malformed
                  \/ extra = "limits" /\ sent # None /\ ~IsLimitsInfo(sent)
    IN  IF broken THEN None ELSE sent

LinkIn(links, rel) == IF links # None /\ rel \in DOMAIN links THEN links[rel] ELSE None

PageUrl(page, meta) ==
    [route.url EXCEPT !.query =
        [k \in DOMAIN @ \cup {"page", "limit"} |->
            IF k = "page" THEN page ELSE IF k = "limit" THEN meta.pageSize ELSE @[k]]]

DuePagination ==
    LET sent == FirstOf(<<Beside(returned, "pagination"), returned.hidden.pagination>>)
        meta == sent.meta
        at == meta.currentPage
    IN  IF sent = None THEN None
        ELSE IF sent.links # None THEN sent
        ELSE [meta |-> meta,
              links |-> [previous |-> IF at = 1 THEN None ELSE PageUrl(at - 1, meta),
                         next |-> IF at >= meta.totalPages THEN None ELSE PageUrl(at + 1, meta),
                         first |-> PageUrl(1, meta),
                         last |-> PageUrl(meta.totalPages, meta)]]

DueLink(rel) ==
    FirstOf(<<LinkIn(Beside(returned, "links"), rel), LinkIn(returned.hidden.links, rel),
              IF rel = "self" THEN route.url
              ELSE IF DuePagination = None THEN None ELSE LinkIn(DuePagination.links, rel)>>)

DueLimits ==
    FirstOf(<<Beside(returned, "limits"), returned.hidden.limits,
              IF route.withLimits THEN limits ELSE None>>)

\* The nodes of a tree of validation errors of depth two, as <<i, 0>> or <<i, j>>,
\* and the path a client knows a node by.
Nodes(tree) ==
    { <<i, 0>> : i \in 1..Len(tree) }
        \cup UNION { { <<i, j>> : j \in 1..Len(tree[i].children) } : i \in 1..Len(tree) }

NodeAt(tree, n) == IF n[2] = 0 THEN tree[n[1]] ELSE tree[n[1]].children[n[2]]

PathOf(tree, n) ==
    LET NameOf(node) == IF node.property = None THEN <<>> ELSE <<node.property>>
    IN  NameOf(tree[n[1]]) \o IF n[2] = 0 THEN <<>> ELSE NameOf(NodeAt(tree, n))

-----------------------------------------------------------------------------
(* Properties.                                                             *)

\* A request that passes the two ResponseInterceptors gets the envelope one of them
\* would make: the data as returned, null included, every extra from the best
\* place it was given in, links and limits not lost and not made up.
SuccessIsDue ==
    pc = "answered" /\ answer.is = "success" =>
        /\ answer.document.data = returned.data
        /\ answer.document.pagination = DuePagination
        /\ answer.document.limits = DueLimits
        /\ answer.document.links =
               [rel \in { r \in Relation : DueLink(r) # None } |-> DueLink(rel)]

\* A request refused for its input is told every constraint it violates, each under
\* the path of its field, however the fields are nested and wherever the
\* exception carries its errors: none is dropped, merged or filed elsewhere.
FieldsReported ==
    pc = "answered" /\ answer.is = "error" /\ thrown.errors.kind = "tree" =>
        LET tree == thrown.errors.list
            errors == answer.document.errors
            Violated(path) ==
                UNION { { <<n, c>> : c \in 1..Len(NodeAt(tree, n).constraints) } :
                          n \in { m \in Nodes(tree) : PathOf(tree, m) = path } }
            paths == { path \in { PathOf(tree, n) : n \in Nodes(tree) } \ {<<>>} :
                         Violated(path) # {} }
        IN  /\ paths # {} => DOMAIN errors = paths
            /\ \A path \in paths : Len(errors[path].failures) = Cardinality(Violated(path))

\* Every error answer gives a reason: a status from 400 to 599 and at least one
\* failure under every path it names.  The text of an error that is no
\* HttpException reaches the log, and the client only with a status below 500.
ErrorsExplained ==
    pc = "answered" /\ answer.is = "error" =>
        LET document == answer.document
            failures == UNION { { document.errors[p].failures[i] :
                                    i \in 1..Len(document.errors[p].failures) } :
                                  p \in DOMAIN document.errors }
        IN  /\ document.status \in 400..599
            /\ DOMAIN document.errors # {}
            /\ \A p \in DOMAIN document.errors : document.errors[p].failures # <<>>
            /\ thrown.class = "other" /\ document.status >= 500 =>
                   \A f \in failures : f.says = Default(document.status)
=============================================================================
