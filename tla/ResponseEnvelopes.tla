------------------------- MODULE ResponseEnvelopes -------------------------
(***************************************************************************)
(* The document a successful request is answered with: what a handler      *)
(* returned, normalised, with the pagination, limits and links that belong *)
(* to it, and the links to the pages of a collection.                      *)
(*                                                                         *)
(* A URL is its path segments and its query parameters.  Messages, meta    *)
(* data and time stamps are left out.  request.__responseExtras, which     *)
(* nothing sets, is left out, too.                                         *)
(***************************************************************************)
EXTENDS Integers, Sequences

CONSTANT None      \* null, undefined

Or(x, otherwise) == IF x # None THEN x ELSE otherwise

\* Objects: one with a key set, and the properties of one over those of another.
With(object, key, value) ==
    [k \in DOMAIN object \cup {key} |-> IF k = key THEN value ELSE object[k]]
Over(upper, lower) ==
    [k \in DOMAIN upper \cup DOMAIN lower |->
        IF k \in DOMAIN upper THEN upper[k] ELSE lower[k]]

-----------------------------------------------------------------------------
(* URLs.                                                                   *)

Control == {"pagination", "limits", "hateoas"}

Without(query, keys) == [k \in DOMAIN query \ keys |-> query[k]]

BuildPageUrl(url, page, limit) ==
    [url EXCEPT !.query = With(With(@, "page", page), "limit", limit)]

RemoveCollectionControlSegment(path) ==
    IF path # <<>> /\ path[Len(path)] \in Control
    THEN SubSeq(path, 1, Len(path) - 1) ELSE path

BuildCollectionPath(url) ==
    [path |-> RemoveCollectionControlSegment(url.path),
     query |-> Without(url.query, {"page", "limit"})]

-----------------------------------------------------------------------------
(* The links of a page.  ApiResponseService makes them from the URL of the *)
(* request, buildCollectionPagination from the collection it is about.     *)

PageLinks(base, meta) ==
    [previous |-> IF meta.currentPage > 1
                  THEN BuildPageUrl(base, meta.currentPage - 1, meta.pageSize) ELSE None,
     next |-> IF meta.currentPage < meta.totalPages
              THEN BuildPageUrl(base, meta.currentPage + 1, meta.pageSize) ELSE None,
     first |-> BuildPageUrl(base, 1, meta.pageSize),
     last |-> BuildPageUrl(base, meta.totalPages, meta.pageSize)]

EnsurePaginationLinks(pagination, url) ==
    [pagination EXCEPT !.links = Or(@, PageLinks(url, pagination.meta))]

BuildCollectionPagination(url, meta) ==
    [meta |-> meta, links |-> PageLinks(BuildCollectionPath(url), meta)]

\* The links that are there, by relation.
Present(links) == [rel \in { r \in DOMAIN links : links[r] # None } |-> links[rel]]

BuildTopLevelLinks(url, pagination) ==
    With(IF pagination = None THEN <<>> ELSE Present(pagination.links), "self", url)

BuildCollectionLinks(url, links) == With(Present(links), "self", url)

BuildCollectionHateoas(url, meta) ==
    BuildCollectionLinks(BuildCollectionPath(url), BuildCollectionPagination(url, meta).links)

-----------------------------------------------------------------------------
(* Extras: pagination, limits and links that travel with the data, beside  *)
(* it in what the handler returns or hidden under a symbol of it.          *)

NoExtras == [pagination |-> None, limits |-> None, links |-> None]

\* What is sent beside the data and fails isPaginationExtra or isApiLinks.
Malformed == [malformed |-> TRUE]

MergeSuccessResponseExtras(base, extra) ==
    [pagination |-> Or(extra.pagination, base.pagination),
     limits |-> Or(extra.limits, base.limits),
     links |-> IF base.links = None THEN extra.links
               ELSE Over(Or(extra.links, <<>>), base.links)]

\* The part of a limit snapshot that isLimitsInfo looks at: the strategy and
\* which of its other fields are not null.
IsLimitsInfo(limits) ==
    CASE limits.strategy \in {"user", "global"} -> limits.given = {}
      [] limits.strategy = "parent" -> limits.given = {"parentId"}
      [] limits.strategy = "tree" -> "level" \in limits.given

ExtractSuccessExtras(extras) ==
    [pagination |-> IF extras.pagination = Malformed THEN None ELSE extras.pagination,
     limits |-> IF extras.limits # None /\ IsLimitsInfo(extras.limits)
                THEN extras.limits ELSE None,
     links |-> IF extras.links = Malformed THEN None ELSE extras.links]

\* shape: a record with data or with items, another record, or no record at all.
\* Only objects can hide extras.
Payload(shape, data, beside, hidden) ==
    [shape |-> shape, data |-> data, beside |-> beside, hidden |-> hidden]

\* Mistake, for mutation: the data of a record are looked for by their value, and
\* a record with data null is taken for the data.
NormalizeSuccessPayload_Truthy(payload) ==
    IF payload.shape \in {"data", "items"} /\ payload.data # None
    THEN [data |-> payload.data,
          extras |-> MergeSuccessResponseExtras(payload.hidden,
                                                ExtractSuccessExtras(payload.beside))]
    ELSE [data |-> payload, extras |-> payload.hidden]

NormalizeSuccessPayload(payload) ==
    IF payload.shape \in {"data", "items"}
    THEN [data |-> payload.data,
          extras |-> MergeSuccessResponseExtras(payload.hidden,
                                                ExtractSuccessExtras(payload.beside))]
    ELSE [data |-> payload.data, extras |-> payload.hidden]

\* The envelope; requestLimits are None where the route leaves them out.
CreateSuccess(url, requestLimits, payload) ==
    LET normalized == NormalizeSuccessPayload(payload)
        extras == [normalized.extras EXCEPT !.limits = Or(@, requestLimits)]
        pagination == IF extras.pagination = None THEN None
                      ELSE EnsurePaginationLinks(extras.pagination, url)
        links == Over(Or(extras.links, <<>>), BuildTopLevelLinks(url, pagination))
    IN  [data |-> normalized.data, pagination |-> pagination, links |-> links,
         limits |-> extras.limits]

\* An envelope as the next interceptor sees it: a record with data.
AsPayload(envelope) ==
    Payload("data", envelope.data,
            [pagination |-> envelope.pagination, limits |-> envelope.limits,
             links |-> envelope.links],
            NoExtras)
=============================================================================
