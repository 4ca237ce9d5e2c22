------------------------------ MODULE ApiProofs ------------------------------
(***************************************************************************)
(* Theorems about ApiRequests, for any routes, payloads and snapshots, and *)
(* about CollectionPages, for any users, sort keys, limits and changes of  *)
(* the table.                                                              *)
(***************************************************************************)
EXTENDS ApiRequests, CollectionPages, FiniteSetTheorems, SequenceTheorems, TLAPS

-----------------------------------------------------------------------------
(* Envelopes of successful requests.                                       *)

\* The first of two or three that is there.
LEMMA FirstOfTwo == \A a, b : FirstOf(<<a, b>>) = Or(a, b)
<1> SUFFICES ASSUME NEW a, NEW b
             PROVE  FirstOf(<<a, b>>) = Or(a, b)
    OBVIOUS
<1> DEFINE s == <<a, b>>
           P(i) == s[i] # None /\ \A j \in 1 .. i - 1 : s[j] = None
<1>1. Len(s) = 2 /\ s[1] = a /\ s[2] = b
    OBVIOUS
<1> HIDE DEF s
<1>2. CASE a # None
    <2>1. \A i \in 1 .. 2 : P(i) <=> i = 1
        BY <1>1, <1>2
    <2>2. (CHOOSE i \in 1 .. 2 : P(i)) = 1
        BY <2>1
    <2> QED
        BY <1>1, <1>2, <2>2 DEF FirstOf, Or, s
<1>3. CASE a = None /\ b # None
    <2>1. \A i \in 1 .. 2 : P(i) <=> i = 2
        BY <1>1, <1>3
    <2>2. (CHOOSE i \in 1 .. 2 : P(i)) = 2
        BY <2>1
    <2> QED
        BY <1>1, <1>3, <2>2 DEF FirstOf, Or, s
<1>4. CASE a = None /\ b = None
    BY <1>1, <1>4 DEF FirstOf, Or, s
<1> QED
    BY <1>2, <1>3, <1>4

\* And of three candidates.
LEMMA FirstOfThree == \A a, b, c : FirstOf(<<a, b, c>>) = Or(a, Or(b, c))
<1> SUFFICES ASSUME NEW a, NEW b, NEW c
             PROVE  FirstOf(<<a, b, c>>) = Or(a, Or(b, c))
    OBVIOUS
<1> DEFINE s == <<a, b, c>>
           P(i) == s[i] # None /\ \A j \in 1 .. i - 1 : s[j] = None
<1>1. Len(s) = 3 /\ s[1] = a /\ s[2] = b /\ s[3] = c
    OBVIOUS
<1> HIDE DEF s
<1>2. CASE a # None
    <2>1. \A i \in 1 .. 3 : P(i) <=> i = 1
        BY <1>1, <1>2
    <2>2. (CHOOSE i \in 1 .. 3 : P(i)) = 1
        BY <2>1
    <2> QED
        BY <1>1, <1>2, <2>2 DEF FirstOf, Or, s
<1>3. CASE a = None /\ b # None
    <2>1. \A i \in 1 .. 3 : P(i) <=> i = 2
        BY <1>1, <1>3
    <2>2. (CHOOSE i \in 1 .. 3 : P(i)) = 2
        BY <2>1
    <2> QED
        BY <1>1, <1>3, <2>2 DEF FirstOf, Or, s
<1>4. CASE a = None /\ b = None /\ c # None
    <2>1. \A i \in 1 .. 3 : P(i) <=> i = 3
        BY <1>1, <1>4
    <2>2. (CHOOSE i \in 1 .. 3 : P(i)) = 3
        BY <2>1
    <2> QED
        BY <1>1, <1>4, <2>2 DEF FirstOf, Or, s
<1>5. CASE a = None /\ b = None /\ c = None
    BY <1>1, <1>5 DEF FirstOf, Or, s
<1> QED
    BY <1>2, <1>3, <1>4, <1>5

\* The extras of a payload, from both places.
Gathered(p) == NormalizeSuccessPayload(p).extras

\* They are the better of the two places, well formed, and no link of them is null.
LEMMA GatheredIs ==
    ASSUME NEW p \in Returned
    PROVE  LET x == Gathered(p) IN
           /\ NormalizeSuccessPayload(p).data = p.data
           /\ x = [pagination |-> x.pagination, limits |-> x.limits, links |-> x.links]
           /\ x.pagination = Or(Beside(p, "pagination"), p.hidden.pagination)
           /\ x.pagination # None =>
                 x.pagination \in {p.beside.pagination, p.hidden.pagination} /\ PaginationGiven(x.pagination)
           /\ x.limits = Or(Beside(p, "limits"), p.hidden.limits)
           /\ x.limits # None => LimitsGiven(x.limits)
           /\ \A rel : LinkIn(x.links, rel) = Or(LinkIn(Beside(p, "links"), rel), LinkIn(p.hidden.links, rel))
           /\ x.links # None => DOMAIN x.links \subseteq Relation /\ \A rel \in DOMAIN x.links : x.links[rel] # None
<1> DEFINE x == Gathered(p)
           h == p.hidden
           b == p.beside
           m == ExtractSuccessExtras(b)
<1>1. /\ p = Payload(p.shape, p.data, b, h)
      /\ b.pagination \in {None, Malformed} \/ PaginationGiven(b.pagination)
      /\ b.links \in {None, Malformed} \/ LinksGiven(b.links)
      /\ b.limits # Malformed
      /\ h = [pagination |-> h.pagination, limits |-> h.limits, links |-> h.links]
      /\ h.pagination = None \/ PaginationGiven(h.pagination)
      /\ h.links = None \/ LinksGiven(h.links)
      /\ h.limits = None \/ LimitsGiven(h.limits)
    BY ReturnedAssumption
<1> HIDE DEF h, b
<1>2. CASE p.shape \in {"data", "items"}
    <2>1. NormalizeSuccessPayload(p) = [data |-> p.data, extras |-> MergeSuccessResponseExtras(h, m)]
        BY <1>2 DEF NormalizeSuccessPayload, h, b
    <2>2. x = MergeSuccessResponseExtras(h, m) /\ NormalizeSuccessPayload(p).data = p.data
        BY <2>1 DEF Gathered
    <2>3. /\ m.pagination = Beside(p, "pagination") /\ m.limits = Beside(p, "limits")
          /\ m.links = Beside(p, "links")
          /\ m.pagination = None \/ (m.pagination = b.pagination /\ PaginationGiven(b.pagination))
          /\ m.limits = None \/ LimitsGiven(m.limits)
          /\ m.links = None \/ LinksGiven(m.links)
        <3>1. /\ m.pagination = IF b.pagination = Malformed THEN None ELSE b.pagination
              /\ m.limits = IF b.limits # None /\ IsLimitsInfo(b.limits) THEN b.limits ELSE None
              /\ m.links = IF b.links = Malformed THEN None ELSE b.links
            BY DEF ExtractSuccessExtras
        <3> HIDE DEF m
        <3>2. /\ Beside(p, "pagination") = m.pagination
              /\ Beside(p, "links") = m.links
            BY <1>1, <1>2, <3>1 DEF Beside, b
        <3>3. Beside(p, "limits") = m.limits
            BY <1>1, <1>2, <3>1 DEF Beside, b
        <3>4. m.pagination = None \/ (m.pagination = b.pagination /\ PaginationGiven(b.pagination))
            <4>1. b.pagination \in {None, Malformed} \/ PaginationGiven(b.pagination)
                BY <1>1
            <4>2. m.pagination = IF b.pagination = Malformed THEN None ELSE b.pagination
                BY <3>1
            <4>3. CASE b.pagination = Malformed
                BY <4>2, <4>3
            <4>4. CASE b.pagination # Malformed
                <5>1. m.pagination = b.pagination
                    BY <4>2, <4>4
                <5> QED
                    BY <4>1, <4>4, <5>1
            <4> QED
                BY <4>3, <4>4
        <3>5. m.links = None \/ LinksGiven(m.links)
            BY <1>1, <3>1
        <3>6. m.limits = None \/ LimitsGiven(m.limits)
            BY <1>1, <3>1 DEF LimitsGiven
        <3> QED
            BY <3>2, <3>3, <3>4, <3>5, <3>6
    <2> HIDE DEF m
    <2>4. x = [pagination |-> Or(m.pagination, h.pagination), limits |-> Or(m.limits, h.limits),
               links |-> IF h.links = None THEN m.links ELSE Over(Or(m.links, <<>>), h.links)]
        BY <2>2 DEF MergeSuccessResponseExtras
    <2> HIDE DEF x
    <2>5. /\ x = [pagination |-> x.pagination, limits |-> x.limits, links |-> x.links]
          /\ x.pagination = Or(m.pagination, h.pagination) /\ x.limits = Or(m.limits, h.limits)
          /\ x.links = IF h.links = None THEN m.links ELSE Over(Or(m.links, <<>>), h.links)
        BY <2>4
    <2>6. /\ x.pagination # None =>
                x.pagination \in {b.pagination, h.pagination} /\ PaginationGiven(x.pagination)
          /\ x.limits # None => LimitsGiven(x.limits)
        BY <1>1, <2>3, <2>5 DEF Or
    <2>7. /\ \A rel : LinkIn(x.links, rel) = Or(LinkIn(m.links, rel), LinkIn(h.links, rel))
          /\ x.links # None => DOMAIN x.links \subseteq Relation /\ \A rel \in DOMAIN x.links : x.links[rel] # None
        <3>0. h.links # None => x.links # None
            BY MergedAssumption DEF x, h, Gathered
        <3>1. CASE h.links = None
            BY <2>3, <2>5, <3>1 DEF LinkIn, Or, LinksGiven
        <3>2. CASE h.links # None /\ m.links = None
            <4>1. x.links = Over(<<>>, h.links)
                BY <2>5, <3>2 DEF Or
            <4>2. DOMAIN x.links = DOMAIN h.links /\ \A rel \in DOMAIN h.links : x.links[rel] = h.links[rel]
                BY <4>1 DEF Over
            <4> QED
                BY <1>1, <3>0, <3>2, <4>2 DEF LinkIn, Or, LinksGiven
        <3>3. CASE h.links # None /\ m.links # None
            <4>1. x.links = Over(m.links, h.links)
                BY <2>5, <3>3 DEF Or
            <4>2. /\ DOMAIN x.links = DOMAIN m.links \cup DOMAIN h.links
                  /\ \A rel \in DOMAIN x.links :
                        x.links[rel] = IF rel \in DOMAIN m.links THEN m.links[rel] ELSE h.links[rel]
                BY <4>1 DEF Over
            <4> QED
                BY <1>1, <2>3, <3>0, <3>3, <4>2 DEF LinkIn, Or, LinksGiven
        <3> QED
            BY <3>1, <3>2, <3>3
    <2> QED
        BY <2>2, <2>3, <2>5, <2>6, <2>7 DEF x, h, b
<1>3. CASE p.shape \notin {"data", "items"}
    <2>1. x = h /\ NormalizeSuccessPayload(p).data = p.data
        BY <1>3 DEF NormalizeSuccessPayload, Gathered, h
    <2>2. \A extra : Beside(p, extra) = None
        BY <1>3 DEF Beside
    <2> HIDE DEF x
    <2> QED
        BY <1>1, <2>1, <2>2 DEF x, h, b, Or, LinkIn, LinksGiven
<1> QED
    BY <1>2, <1>3

\* The envelope of a payload.
Ensured(base, x) == IF x.pagination = None THEN None ELSE EnsurePaginationLinks(x.pagination, base)

\* It is the data, and the extras with the pages and links of the request.
LEMMA EnvelopeIs ==
    ASSUME NEW base, NEW given, NEW p,
           LET x == Gathered(p)
           IN  x = [pagination |-> x.pagination, limits |-> x.limits, links |-> x.links]
    PROVE  LET x == Gathered(p) IN
           CreateSuccess(base, given, p) =
               [data |-> NormalizeSuccessPayload(p).data,
                pagination |-> Ensured(base, x),
                links |-> Over(Or(x.links, <<>>), BuildTopLevelLinks(base, Ensured(base, x))),
                limits |-> Or(x.limits, given)]
<1> DEFINE x == Gathered(p)
           e == [x EXCEPT !.limits = Or(@, given)]
<1>1. x = [pagination |-> x.pagination, limits |-> x.limits, links |-> x.links]
    OBVIOUS
<1> HIDE DEF x
<1>2. e.pagination = x.pagination /\ e.limits = Or(x.limits, given) /\ e.links = x.links
    BY <1>1
<1>3. x = NormalizeSuccessPayload(p).extras
    BY DEF x, Gathered
<1> HIDE DEF e
<1> QED
    BY <1>2, <1>3 DEF CreateSuccess, Ensured, x, e

\* The pagination of an envelope has its links, of the pages of its URL if none were
\* given.
LEMMA EnsuredIs ==
    ASSUME NEW r \in Route, NEW p \in Returned, Gathered(p).pagination # None
    PROVE  LET s == Gathered(p).pagination
               e == Ensured(r.url, Gathered(p))
           IN  /\ PaginationGiven(s) /\ e # None /\ e # Malformed /\ e.links # None
               /\ e = [meta |-> s.meta, links |-> Or(s.links, PageLinks(r.url, s.meta))]
<1> DEFINE s == Gathered(p).pagination
           e == EnsurePaginationLinks(s, r.url)
<1>1. PaginationGiven(s) /\ s \in {p.beside.pagination, p.hidden.pagination}
    BY GatheredIs
<1>2. e # None /\ e # Malformed /\ e.links # None
    BY <1>1, RouteAssumption
<1>3. Ensured(r.url, Gathered(p)) = e
    BY DEF Ensured
<1>4. e = [meta |-> s.meta, links |-> Or(s.links, PageLinks(r.url, s.meta))]
    <2>1. s = [meta |-> s.meta, links |-> s.links]
        BY <1>1 DEF PaginationGiven
    <2> HIDE DEF s
    <2> QED
        BY <2>1 DEF EnsurePaginationLinks
<1> QED
    BY <1>1, <1>2, <1>3, <1>4

\* The second interceptor changes nothing.
LEMMA Twice ==
    ASSUME NEW r \in Route, NEW p \in Returned, NEW given, given = None \/ LimitsGiven(given)
    PROVE  CreateSuccess(r.url, given, AsPayload(CreateSuccess(r.url, given, p)))
               = CreateSuccess(r.url, given, p)
<1> DEFINE x == Gathered(p)
           P == Ensured(r.url, x)
           T == BuildTopLevelLinks(r.url, P)
           K == Over(Or(x.links, <<>>), T)
           L == Or(x.limits, given)
           e == CreateSuccess(r.url, given, p)
           q == AsPayload(e)
           y == Gathered(q)
<1>1. /\ x = [pagination |-> x.pagination, limits |-> x.limits, links |-> x.links]
      /\ x.limits # None => LimitsGiven(x.limits)
    BY GatheredIs
<1>2. e = [data |-> NormalizeSuccessPayload(p).data, pagination |-> P, links |-> K, limits |-> L]
    BY <1>1, EnvelopeIs
<1>3. K # None
    <2>1. CreateSuccess(r.url, None, p).links # None
        BY RouteAssumption
    <2>2. CreateSuccess(r.url, None, p) =
              [data |-> NormalizeSuccessPayload(p).data, pagination |-> P, links |-> K,
               limits |-> Or(x.limits, None)]
        BY <1>1, EnvelopeIs
    <2> HIDE DEF K, P
    <2> QED
        BY <2>1, <2>2
<1>4. /\ DOMAIN T \subseteq DOMAIN K /\ "self" \in DOMAIN K
      /\ K = [k \in DOMAIN K |-> K[k]]
    <2>1. "self" \in DOMAIN T
        BY DEF BuildTopLevelLinks, With
    <2> HIDE DEF T
    <2> QED
        BY <2>1 DEF Over
<1>5. K # Malformed
    BY <1>4 DEF Malformed
<1>6. P = None \/ (P # Malformed /\ P.links # None /\ P = [meta |-> P.meta, links |-> P.links])
    <2>1. CASE x.pagination = None
        BY <2>1 DEF Ensured
    <2>2. CASE x.pagination # None
        <3>1. /\ P # None /\ P # Malformed /\ P.links # None
              /\ P = [meta |-> x.pagination.meta,
                      links |-> Or(x.pagination.links, PageLinks(r.url, x.pagination.meta))]
            BY <2>2, EnsuredIs
        <3> HIDE DEF P
        <3>2. P = [meta |-> P.meta, links |-> P.links]
            BY <3>1
        <3> QED
            BY <3>1, <3>2
    <2> QED
        BY <2>1, <2>2
<1>7. L = None \/ LimitsGiven(L)
    <2> HIDE DEF x
    <2>1. CASE x.limits = None
        BY <2>1 DEF Or
    <2>2. CASE x.limits # None
        BY <1>1, <2>2 DEF Or
    <2> QED
        BY <2>1, <2>2
<1> HIDE DEF x, P, T, K, L
<1>8. q = Payload("data", e.data, [pagination |-> P, limits |-> L, links |-> K], NoExtras)
    BY <1>2 DEF AsPayload
<1>9. /\ NormalizeSuccessPayload(q).data = e.data
      /\ y = [pagination |-> P, limits |-> L, links |-> K]
    <2> DEFINE b == [pagination |-> P, limits |-> L, links |-> K]
               m == ExtractSuccessExtras(b)
    <2>1. m = b
        BY <1>5, <1>6, <1>7 DEF ExtractSuccessExtras, LimitsGiven
    <2> HIDE DEF m, b
    <2>2. NormalizeSuccessPayload(q) = [data |-> e.data, extras |-> MergeSuccessResponseExtras(NoExtras, m)]
        BY <1>8 DEF NormalizeSuccessPayload, Payload, m, b
    <2>3. MergeSuccessResponseExtras(NoExtras, b) = b
        BY DEF MergeSuccessResponseExtras, NoExtras, Or, b
    <2> QED
        BY <2>1, <2>2, <2>3 DEF Gathered, b
<1>10. CreateSuccess(r.url, given, q) =
           [data |-> e.data, pagination |-> Ensured(r.url, y),
            links |-> Over(Or(y.links, <<>>), BuildTopLevelLinks(r.url, Ensured(r.url, y))),
            limits |-> Or(y.limits, given)]
    <2>1. y = [pagination |-> y.pagination, limits |-> y.limits, links |-> y.links]
        BY <1>9
    <2> HIDE DEF y, q, e
    <2>2. NormalizeSuccessPayload(q).data = e.data
        BY <1>9
    <2> QED
        BY <2>1, <2>2, EnvelopeIs DEF y
<1>11. y.pagination = P /\ y.limits = L /\ y.links = K
    BY <1>9
<1> HIDE DEF y, q
<1>12. Ensured(r.url, y) = P
    BY <1>6, <1>11 DEF Ensured, EnsurePaginationLinks, Or
<1>13. Over(Or(y.links, <<>>), BuildTopLevelLinks(r.url, P)) = K
    <2>1. Or(y.links, <<>>) = K
        BY <1>3, <1>11 DEF Or
    <2>2. Over(K, T) = K
        BY <1>4 DEF Over
    <2> QED
        BY <2>1, <2>2 DEF T
<1>14. Or(y.limits, given) = L
    BY <1>11 DEF Or, L
<1>15. e.data = NormalizeSuccessPayload(p).data
    BY <1>2
<1> QED
    BY <1>2, <1>10, <1>12, <1>13, <1>14, <1>15 DEF q

\* The URL of a page, of the request's URL and of a page's own.
LEMMA PageUrlIs ==
    ASSUME NEW page, NEW meta
    PROVE  PageUrl(page, meta) = BuildPageUrl(route.url, page, meta.pageSize)
<1> DEFINE q == route.url.query
           one == With(q, "page", page)
           two == With(one, "limit", meta.pageSize)
           due == [k \in DOMAIN q \cup {"page", "limit"} |->
                      IF k = "page" THEN page ELSE IF k = "limit" THEN meta.pageSize ELSE q[k]]
<1>1. /\ DOMAIN one = DOMAIN q \cup {"page"}
      /\ \A k \in DOMAIN one : one[k] = IF k = "page" THEN page ELSE q[k]
    BY DEF With
<1> HIDE DEF one
<1>2. two = [k \in DOMAIN q \cup {"page", "limit"} |->
                IF k = "limit" THEN meta.pageSize ELSE one[k]]
    BY <1>1 DEF With
<1>3. \A k \in DOMAIN q \cup {"page", "limit"} :
          (IF k = "limit" THEN meta.pageSize ELSE one[k])
              = (IF k = "page" THEN page ELSE IF k = "limit" THEN meta.pageSize ELSE q[k])
    BY <1>1
<1>4. two = due
    BY <1>2, <1>3
<1>5. PageUrl(page, meta) = [route.url EXCEPT !.query = due]
    BY DEF PageUrl
<1>6. BuildPageUrl(route.url, page, meta.pageSize) = [route.url EXCEPT !.query = two]
    BY DEF BuildPageUrl, one
<1> HIDE DEF two, due
<1> QED
    BY <1>4, <1>5, <1>6

\* The pagination that is due is the one the envelope has.
LEMMA DuePaginationIs ==
    ASSUME route \in Route, returned \in Returned
    PROVE  DuePagination = Ensured(route.url, Gathered(returned))
<1> DEFINE s == Gathered(returned).pagination
           meta == s.meta
           at == meta.currentPage
           due == [previous |-> IF at = 1 THEN None ELSE PageUrl(at - 1, meta),
                   next |-> IF at >= meta.totalPages THEN None ELSE PageUrl(at + 1, meta),
                   first |-> PageUrl(1, meta),
                   last |-> PageUrl(meta.totalPages, meta)]
<1>1. s = FirstOf(<<Beside(returned, "pagination"), returned.hidden.pagination>>)
    BY GatheredIs, FirstOfTwo
<1>2. DuePagination = IF s = None THEN None ELSE IF s.links # None THEN s
                      ELSE [meta |-> meta, links |-> due]
    BY <1>1 DEF DuePagination
<1>3. CASE s = None
    BY <1>2, <1>3 DEF Ensured
<1>4. CASE s # None
    <2>1. /\ PaginationGiven(s)
          /\ Ensured(route.url, Gathered(returned)) =
                [meta |-> s.meta, links |-> Or(s.links, PageLinks(route.url, s.meta))]
        BY <1>4, EnsuredIs
    <2>2. CASE s.links # None
        <3>1. s = [meta |-> s.meta, links |-> s.links]
            BY <2>1 DEF PaginationGiven
        <3> HIDE DEF s
        <3> QED
            BY <1>2, <1>4, <2>1, <2>2, <3>1 DEF Or
    <2>3. CASE s.links = None
        <3>1. at \in Nat \ {0} /\ meta.totalPages \in Nat \ {0}
            BY <2>1 DEF PaginationGiven
        <3>2. PageLinks(route.url, meta) = due
            <4> HIDE DEF s
            <4>1. /\ (at > 1) <=> ~(at = 1)
                  /\ (at < meta.totalPages) <=> ~(at >= meta.totalPages)
                BY <3>1
            <4> QED
                BY <4>1, PageUrlIs DEF PageLinks
        <3> HIDE DEF s, due
        <3> QED
            BY <1>2, <1>4, <2>1, <2>3, <3>2 DEF Or
    <2> QED
        BY <2>2, <2>3
<1> QED
    BY <1>3, <1>4

\* A link that is due, told from the links of the payload and of the pagination.
Derived(rel) ==
    IF rel = "self" THEN route.url
    ELSE IF DuePagination = None THEN None ELSE LinkIn(DuePagination.links, rel)

\* It is the link the extras have, or else the derived one.
LEMMA DueLinkIs ==
    ASSUME returned \in Returned, NEW rel
    PROVE  DueLink(rel) = Or(LinkIn(Gathered(returned).links, rel), Derived(rel))
<1> DEFINE a == LinkIn(Beside(returned, "links"), rel)
           b == LinkIn(returned.hidden.links, rel)
<1>1. LinkIn(Gathered(returned).links, rel) = Or(a, b)
    BY GatheredIs
<1>2. DueLink(rel) = Or(a, Or(b, Derived(rel)))
    BY FirstOfThree DEF DueLink, Derived
<1> HIDE DEF a, b
<1> QED
    BY <1>1, <1>2 DEF Or

\* What SuccessIsDue asks of a document.
EnvelopeIsDue(document) ==
    /\ document.data = returned.data
    /\ document.pagination = DuePagination
    /\ document.limits = DueLimits
    /\ document.links = [rel \in { r \in Relation : DueLink(r) # None } |-> DueLink(rel)]

\* The limits the interceptor hands over.
GivenLimits == IF route.withLimits THEN limits ELSE None

\* One interceptor makes of what the handler returned what is due to the request.
LEMMA Due ==
    ASSUME route \in Route, returned \in Returned
    PROVE  EnvelopeIsDue(CreateSuccess(route.url, GivenLimits, returned))
<1> DEFINE x == Gathered(returned)
           P == DuePagination
           T == BuildTopLevelLinks(route.url, P)
           U == Or(x.links, <<>>)
           K == Over(U, T)
           document == CreateSuccess(route.url, GivenLimits, returned)
<1>1. /\ NormalizeSuccessPayload(returned).data = returned.data
      /\ x = [pagination |-> x.pagination, limits |-> x.limits, links |-> x.links]
      /\ x.limits = Or(Beside(returned, "limits"), returned.hidden.limits)
      /\ x.links # None =>
            DOMAIN x.links \subseteq Relation /\ \A rel \in DOMAIN x.links : x.links[rel] # None
    BY GatheredIs
<1>2. document = [data |-> returned.data, pagination |-> P, links |-> K,
                  limits |-> Or(x.limits, GivenLimits)]
    BY <1>1, EnvelopeIs, DuePaginationIs
<1>3. DueLimits = Or(x.limits, GivenLimits)
    <2>1. DueLimits = Or(Beside(returned, "limits"), Or(returned.hidden.limits, GivenLimits))
        BY FirstOfThree DEF DueLimits, GivenLimits
    <2> HIDE DEF x
    <2> QED
        BY <1>1, <2>1 DEF Or
<1>4. route.url # None
    BY RouteAssumption
<1>5. P # None => P.links # None /\ DOMAIN P.links \subseteq Relation
    <2>1. SUFFICES ASSUME x.pagination # None
                   PROVE  P.links # None /\ DOMAIN P.links \subseteq Relation
        BY DuePaginationIs DEF Ensured
    <2>2. /\ PaginationGiven(x.pagination) /\ P.links # None
          /\ P = [meta |-> x.pagination.meta,
                  links |-> Or(x.pagination.links, PageLinks(route.url, x.pagination.meta))]
        BY <2>1, EnsuredIs, DuePaginationIs
    <2> HIDE DEF x, P
    <2>3. P.links = Or(x.pagination.links, PageLinks(route.url, x.pagination.meta))
        BY <2>2
    <2>4. CASE x.pagination.links # None
        BY <2>2, <2>3, <2>4 DEF Or, PaginationGiven, Relation
    <2>5. CASE x.pagination.links = None
        <3>1. P.links = PageLinks(route.url, x.pagination.meta)
            BY <2>3, <2>5 DEF Or
        <3>2. DOMAIN PageLinks(route.url, x.pagination.meta) = {"previous", "next", "first", "last"}
            BY DEF PageLinks
        <3> QED
            BY <2>2, <3>1, <3>2 DEF Relation
    <2> QED
        BY <2>4, <2>5
<1> HIDE DEF P
<1>6. \A rel : /\ rel \in DOMAIN T <=> Derived(rel) # None
               /\ rel \in DOMAIN T => T[rel] = Derived(rel) /\ rel \in Relation
    <2>1. CASE P = None
        BY <1>4, <2>1 DEF BuildTopLevelLinks, With, Derived, P, Relation
    <2>2. CASE P # None
        <3> DEFINE R == Present(P.links)
        <3>1. /\ DOMAIN R = { k \in DOMAIN P.links : P.links[k] # None }
              /\ \A k \in DOMAIN R : R[k] = P.links[k]
            BY DEF Present
        <3>2. T = With(R, "self", route.url)
            BY <2>2 DEF BuildTopLevelLinks
        <3> HIDE DEF R, T
        <3>3. /\ DOMAIN T = DOMAIN R \cup {"self"}
              /\ \A k \in DOMAIN T : T[k] = IF k = "self" THEN route.url ELSE R[k]
            BY <3>2 DEF With
        <3>4. \A rel : Derived(rel) = IF rel = "self" THEN route.url
                                      ELSE IF rel \in DOMAIN P.links THEN P.links[rel] ELSE None
            BY <1>5, <2>2 DEF Derived, LinkIn, P
        <3> QED
            BY <1>4, <1>5, <2>2, <3>1, <3>3, <3>4 DEF Relation
    <2> QED
        BY <2>1, <2>2
<1>7. \A rel : /\ rel \in DOMAIN U <=> LinkIn(x.links, rel) # None
               /\ rel \in DOMAIN U => U[rel] = LinkIn(x.links, rel) /\ rel \in Relation
    <2> HIDE DEF x
    <2>1. CASE x.links = None
        BY <2>1 DEF Or, LinkIn
    <2>2. CASE x.links # None
        BY <1>1, <2>2 DEF Or, LinkIn
    <2> QED
        BY <2>1, <2>2
<1>8. \A rel : DueLink(rel) = Or(LinkIn(x.links, rel), Derived(rel))
    BY DueLinkIs
<1> HIDE DEF T, U, x
<1>9. /\ DOMAIN K = DOMAIN U \cup DOMAIN T
      /\ \A rel \in DOMAIN K : K[rel] = IF rel \in DOMAIN U THEN U[rel] ELSE T[rel]
      /\ K = [rel \in DOMAIN K |-> K[rel]]
    BY DEF Over
<1> HIDE DEF K
<1>10. /\ DOMAIN K = { rel \in Relation : DueLink(rel) # None }
       /\ \A rel \in DOMAIN K : K[rel] = DueLink(rel)
    BY <1>6, <1>7, <1>8, <1>9 DEF Or
<1>11. K = [rel \in { r \in Relation : DueLink(r) # None } |-> DueLink(rel)]
    BY <1>9, <1>10
<1> HIDE DEF document
<1> QED
    BY <1>2, <1>3, <1>11 DEF EnvelopeIsDue, document, P

\* A payload that passed one interceptor is the envelope that is due, and stays it.
Enveloped ==
    /\ limits \in Snapshot \cup {None}
    /\ pc # "idle" => route \in Route
    /\ pc \in {"idle", "guards", "handler"} => layer = 0
    /\ pc = "returned" =>
           /\ returned \in Returned
           /\ \/ layer = 0 /\ payload = returned
              \/ layer = 1 /\ payload = AsPayload(CreateSuccess(route.url, GivenLimits, returned))
    /\ pc = "answered" /\ answer.is = "success" =>
           /\ returned \in Returned
           /\ answer.document = CreateSuccess(route.url, GivenLimits, returned)

\* A request begins without a payload.
LEMMA EnvelopedInit == Init => Enveloped
BY DEF Init, Enveloped

\* Only Intercept makes a payload into another, the second time into the same.
LEMMA EnvelopedStep == Enveloped /\ [Next]_vars => Enveloped'
<1> SUFFICES ASSUME Enveloped, [Next]_vars
             PROVE  Enveloped'
    OBVIOUS
<1>1. CASE Receive
    BY <1>1 DEF Receive, Enveloped
<1>2. CASE PassGuards
    BY <1>2 DEF PassGuards, Enveloped
<1>3. CASE Throw
    BY <1>3 DEF Throw, Enveloped
<1>4. CASE TimeOut
    BY <1>4 DEF TimeOut, Enveloped
<1>5. CASE Redirect
    BY <1>5 DEF Redirect, Enveloped
<1>6. CASE Return
    BY <1>6 DEF Return, Enveloped
<1>7. CASE Intercept
    <2> DEFINE due == CreateSuccess(route.url, GivenLimits, returned)
               envelope == CreateSuccess(route.url, GivenLimits, payload)
    <2>1. /\ pc = "returned" /\ route \in Route /\ returned \in Returned
          /\ limits \in Snapshot \cup {None}
        BY <1>7 DEF Intercept, Enveloped
    <2>2. /\ layer' = layer + 1 /\ payload' = AsPayload(envelope)
          /\ IF layer' = 2 THEN pc' = "answered" /\ answer' = [is |-> "success", document |-> envelope]
             ELSE UNCHANGED <<pc, answer>>
          /\ UNCHANGED <<route, limits, returned, thrown>>
        BY <1>7 DEF Intercept, GivenLimits, Layers
    <2>3. GivenLimits = None \/ LimitsGiven(GivenLimits)
        BY <2>1, SnapshotAssumption DEF GivenLimits
    <2>4. GivenLimits' = GivenLimits
        BY <2>2 DEF GivenLimits
    <2>5. CASE layer = 0 /\ payload = returned
        <3>1. envelope = due
            BY <2>5
        <3> HIDE DEF envelope
        <3> QED
            BY <2>1, <2>2, <2>4, <2>5, <3>1 DEF Enveloped
    <2>6. CASE layer = 1 /\ payload = AsPayload(due)
        <3>1. envelope = due
            BY <2>1, <2>3, <2>6, Twice
        <3> HIDE DEF envelope
        <3> QED
            BY <2>1, <2>2, <2>4, <2>6, <3>1 DEF Enveloped
    <2> QED
        BY <2>1, <2>5, <2>6 DEF Enveloped
<1>8. CASE Catch
    BY <1>8 DEF Catch, Enveloped
<1>9. CASE UNCHANGED vars
    BY <1>9 DEF vars, Enveloped, GivenLimits
<1> QED
    BY <1>1, <1>2, <1>3, <1>4, <1>5, <1>6, <1>7, <1>8, <1>9 DEF Next

\* The document of a success is the one that is due.
LEMMA EnvelopedIsDue == Enveloped => SuccessIsDue
<1> SUFFICES ASSUME Enveloped, pc = "answered", answer.is = "success"
             PROVE  EnvelopeIsDue(answer.document)
    BY DEF SuccessIsDue, EnvelopeIsDue
<1>1. /\ route \in Route /\ returned \in Returned
      /\ answer.document = CreateSuccess(route.url, GivenLimits, returned)
    BY DEF Enveloped
<1> QED
    BY <1>1, Due

\* Whatever handlers return and guards leave in the request, the document a success is
\* answered with after both pairs of interceptors has the data as returned and every
\* extra from the best place it was given in: the second pair neither loses nor
\* makes up a link, a page or a limit.
THEOREM SuccessAlwaysDue == Spec => []SuccessIsDue
<1>1. Spec => []Enveloped
    BY EnvelopedInit, EnvelopedStep, PTL DEF Spec
<1> QED
    BY <1>1, EnvelopedIsDue, PTL

-----------------------------------------------------------------------------
(* Reasons of failed requests.                                             *)

\* A set of numbers that is not empty has a least one.
LEMMA LeastOf ==
    ASSUME NEW T, T \subseteq Nat, T # {}
    PROVE  \E m \in T : \A n \in T : m <= n
<1> DEFINE R == { p \in Nat \X Nat : p[1] < p[2] }
<1>1. IsWellFoundedOn(R, Nat)
    BY NatLessThanWellFounded DEF OpToRel
<1> HIDE DEF R
<1>2. PICK m \in T : \A n \in T : ~ (<<n, m>> \in R)
    BY <1>1, WFMin
<1>3. \A n \in T : ~(n < m)
    BY <1>2 DEF R
<1> QED
    BY <1>3

\* Failures by path: each path there is has a failure, of those in F.
FiledIn(F, bag) ==
    \A p \in DOMAIN bag :
        /\ bag[p] = [kind |-> bag[p].kind, failures |-> bag[p].failures]
        /\ bag[p].failures \in Seq(F) \ {<<>>}

LEMMA AppendFailureIs ==
    ASSUME NEW F, NEW bag, FiledIn(F, bag), NEW path, NEW code, NEW says, NEW kind,
           [code |-> code, says |-> says] \in F
    PROVE  LET longer == AppendFailure(bag, path, code, says, kind)
           IN  FiledIn(F, longer) /\ DOMAIN longer # {}
<1> DEFINE safe == IF path = <<>> THEN General ELSE path
           current == IF safe \in DOMAIN bag THEN bag[safe] ELSE [kind |-> kind, failures |-> <<>>]
           f == [code |-> code, says |-> says]
           appended == Append(current.failures, f)
           extended == [current EXCEPT !.failures = appended]
           longer == [p \in DOMAIN bag \cup {safe} |-> IF p = safe THEN extended ELSE bag[p]]
<1>1. AppendFailure(bag, path, code, says, kind) = longer
    BY DEF AppendFailure
<1>2. current = [kind |-> current.kind, failures |-> current.failures] /\ current.failures \in Seq(F)
    BY DEF FiledIn
<1> HIDE DEF current, safe, f
<1> HIDE DEF appended
<1>3. extended = [kind |-> current.kind, failures |-> appended]
    BY <1>2
<1>4. f \in F
    BY DEF f
<1>5. appended \in Seq(F) \ {<<>>}
    BY <1>2, <1>4 DEF appended
<1> HIDE DEF extended
<1>6. /\ extended = [kind |-> extended.kind, failures |-> extended.failures]
      /\ extended.failures \in Seq(F) \ {<<>>}
    BY <1>3, <1>5
<1>7. FiledIn(F, longer) /\ DOMAIN longer # {}
    BY <1>6 DEF FiledIn
<1> QED
    BY <1>1, <1>7

\* The bags of the first failures of a list.
Filed(bag, list, m) ==
    bag = [n \in 0..m |->
              IF n = 0 THEN NoErrors
              ELSE AppendFailure(bag[n - 1], list[n].path, list[n].code, list[n].says, list[n].kind)]

LEMMA FiledThere ==
    ASSUME NEW list
    PROVE  \A m \in Nat : \E bag : Filed(bag, list, m)
<1> DEFINE Add(b, n) == AppendFailure(b, list[n].path, list[n].code, list[n].says, list[n].kind)
           T == { m \in Nat : ~ \E bag : Filed(bag, list, m) }
<1> HIDE DEF Add
<1>1. SUFFICES ASSUME T # {} PROVE FALSE
    OBVIOUS
<1>2. PICK m \in T : \A n \in T : m <= n
    BY <1>1, LeastOf
<1>3. CASE m = 0
    <2> DEFINE g == [n \in 0..0 |-> NoErrors]
    <2>1. g = [n \in 0..0 |-> IF n = 0 THEN NoErrors ELSE Add(g[n - 1], n)]
        OBVIOUS
    <2> HIDE DEF g
    <2>2. Filed(g, list, 0)
        BY <2>1 DEF Filed, Add
    <2> QED
        BY <1>2, <1>3, <2>2
<1>4. CASE m # 0
    <2>1. m - 1 \in Nat /\ m - 1 \notin T
        BY <1>2, <1>4
    <2>2. PICK g : Filed(g, list, m - 1)
        BY <2>1
    <2>3. g = [n \in 0..(m - 1) |-> IF n = 0 THEN NoErrors ELSE Add(g[n - 1], n)]
        BY <2>2 DEF Filed, Add
    <2> DEFINE h == [n \in 0..m |-> IF n = 0 THEN NoErrors ELSE Add(g[n - 1], n)]
    <2>4. \A n \in 0..(m - 1) : h[n] = g[n]
        BY <2>1, <2>3
    <2>5. h = [n \in 0..m |-> IF n = 0 THEN NoErrors ELSE Add(h[n - 1], n)]
        <3> DEFINE k == [n \in 0..m |-> IF n = 0 THEN NoErrors ELSE Add(h[n - 1], n)]
        <3>1. \A n \in 0..m : n # 0 => h[n - 1] = g[n - 1]
            BY <1>2, <2>4
        <3> HIDE DEF h
        <3>2. \A n \in 0..m : (IF n = 0 THEN NoErrors ELSE Add(h[n - 1], n))
                                  = (IF n = 0 THEN NoErrors ELSE Add(g[n - 1], n))
            BY <3>1
        <3> QED
            BY <3>2 DEF h
    <2> HIDE DEF h
    <2>6. Filed(h, list, m)
        BY <2>5 DEF Filed, Add
    <2> QED
        BY <1>2, <2>6
<1> QED
    BY <1>3, <1>4

\* Failures of a list are all in its bag, and nothing else is.
LEMMA AppendFailuresAre ==
    ASSUME NEW list, Len(list) \in Nat, NEW F,
           \A n \in 1..Len(list) : [code |-> list[n].code, says |-> list[n].says] \in F
    PROVE  /\ FiledIn(F, AppendFailures(list))
           /\ Len(list) # 0 => DOMAIN AppendFailures(list) # {}
<1> DEFINE g == CHOOSE bag : Filed(bag, list, Len(list))
           Add(b, n) == AppendFailure(b, list[n].path, list[n].code, list[n].says, list[n].kind)
           m == Len(list)
<1>1. AppendFailures(list) = g[m]
    BY DEF AppendFailures, Filed
<1>2. Filed(g, list, m)
    BY FiledThere
<1> HIDE DEF g, m
<1>3. g[0] = NoErrors /\ \A n \in 1..m : g[n] = Add(g[n - 1], n)
    <2> HIDE DEF Add
    <2>1. g = [n \in 0..m |-> IF n = 0 THEN NoErrors ELSE Add(g[n - 1], n)]
        BY <1>2 DEF Filed, Add
    <2> QED
        BY <2>1 DEF m
<1> DEFINE T == { n \in 0..m : ~FiledIn(F, g[n]) }
<1>4. \A n \in 1..m : FiledIn(F, g[n - 1]) => FiledIn(F, g[n]) /\ DOMAIN g[n] # {}
    BY <1>3, AppendFailureIs DEF m
<1>5. FiledIn(F, g[0])
    BY <1>3 DEF FiledIn, NoErrors
<1>6. T = {}
    <2>1. SUFFICES ASSUME T # {} PROVE FALSE
        OBVIOUS
    <2>2. T \subseteq Nat
        BY DEF m
    <2> HIDE DEF T
    <2>3. PICK n \in T : \A k \in T : n <= k
        BY <2>1, <2>2, LeastOf
    <2>4. n \in 1..m /\ n - 1 \notin T /\ n - 1 \in 0..m
        BY <1>5, <2>2, <2>3 DEF T, m
    <2> QED
        BY <1>4, <2>3, <2>4 DEF T
<1>7. FiledIn(F, g[m])
    BY <1>6 DEF m
<1>8. m # 0 => DOMAIN g[m] # {}
    <2>1. SUFFICES ASSUME m # 0 PROVE DOMAIN g[m] # {}
        OBVIOUS
    <2>2. m \in 1..m /\ m - 1 \in 0..m
        BY <2>1 DEF m
    <2>3. FiledIn(F, g[m - 1])
        BY <1>6, <2>2
    <2> QED
        BY <1>4, <2>2, <2>3
<1> QED
    BY <1>1, <1>7, <1>8 DEF m

\* The concatenations of the first of some sequences.
Joined(joined, seqs, m) ==
    joined = [i \in 1..m |-> IF i = 1 THEN seqs[i] ELSE joined[i - 1] \o seqs[i]]

LEMMA JoinedThere ==
    ASSUME NEW seqs
    PROVE  \A m \in Nat : \E joined : Joined(joined, seqs, m)
<1> DEFINE Add(s, i) == s \o seqs[i]
           T == { m \in Nat : ~ \E joined : Joined(joined, seqs, m) }
<1> HIDE DEF Add
<1>1. SUFFICES ASSUME T # {} PROVE FALSE
    OBVIOUS
<1>2. PICK m \in T : \A n \in T : m <= n
    BY <1>1, LeastOf
<1>3. CASE m = 0
    <2> DEFINE g == [i \in 1..0 |-> <<>>]
    <2>1. g = [i \in 1..0 |-> IF i = 1 THEN seqs[i] ELSE Add(g[i - 1], i)]
        OBVIOUS
    <2> HIDE DEF g
    <2>2. Joined(g, seqs, 0)
        BY <2>1 DEF Joined, Add
    <2> QED
        BY <1>2, <1>3, <2>2
<1>4. CASE m # 0
    <2>1. m - 1 \in Nat /\ m - 1 \notin T
        BY <1>2, <1>4
    <2>2. PICK g : Joined(g, seqs, m - 1)
        BY <2>1
    <2>3. g = [i \in 1..(m - 1) |-> IF i = 1 THEN seqs[i] ELSE Add(g[i - 1], i)]
        BY <2>2 DEF Joined, Add
    <2> DEFINE h == [i \in 1..m |-> IF i = 1 THEN seqs[i] ELSE Add(g[i - 1], i)]
    <2>4. \A i \in 1..(m - 1) : h[i] = g[i]
        BY <2>1, <2>3
    <2>5. m \in Nat
        BY <2>1
    <2> HIDE DEF T
    <2>6. h = [i \in 1..m |-> IF i = 1 THEN seqs[i] ELSE Add(h[i - 1], i)]
        <3> HIDE DEF h
        <3>1. \A i \in 1..m : i # 1 => h[i - 1] = g[i - 1]
            <4>1. \A i \in 1..m : i # 1 => i - 1 \in 1..(m - 1)
                BY <2>5
            <4> QED
                BY <2>4, <4>1
        <3>2. \A i \in 1..m : (IF i = 1 THEN seqs[i] ELSE Add(h[i - 1], i))
                                  = (IF i = 1 THEN seqs[i] ELSE Add(g[i - 1], i))
            BY <3>1
        <3> QED
            BY <3>2 DEF h
    <2> HIDE DEF h
    <2>7. Joined(h, seqs, m)
        BY <2>6 DEF Joined, Add
    <2> QED
        BY <1>2, <2>5, <2>7 DEF T
<1> QED
    BY <1>3, <1>4

\* What is concatenated is a sequence of what the parts hold.
LEMMA FlattenSeqIs ==
    ASSUME NEW S, NEW seqs \in Seq(Seq(S))
    PROVE  FlattenSeq(seqs) \in Seq(S)
<1> DEFINE l == Len(seqs)
           g == CHOOSE joined : Joined(joined, seqs, l)
           B == { i \in 1..l : g[i] \notin Seq(S) }
<1>1. CASE l = 0
    BY <1>1, EmptySeq DEF FlattenSeq
<1>2. CASE l # 0
    <2>1. FlattenSeq(seqs) = g[l]
        BY <1>2 DEF FlattenSeq, Joined
    <2>2. Joined(g, seqs, l)
        <3>1. l \in Nat
            OBVIOUS
        <3> HIDE DEF l
        <3>2. \E joined : Joined(joined, seqs, l)
            BY <3>1, JoinedThere
        <3> QED
            BY <3>2
    <2> HIDE DEF g
    <2>3. \A i \in 1..l : g[i] = IF i = 1 THEN seqs[i] ELSE g[i - 1] \o seqs[i]
        BY <2>2 DEF Joined
    <2>4. l \in Nat /\ \A i \in 1..l : seqs[i] \in Seq(S)
        OBVIOUS
    <2> HIDE DEF l
    <2>5. B = {}
        <3>1. SUFFICES ASSUME B # {} PROVE FALSE
            OBVIOUS
        <3>2. B \subseteq Nat
            OBVIOUS
        <3> HIDE DEF B
        <3>3. PICK i \in B : \A k \in B : i <= k
            BY <3>1, <3>2, LeastOf
        <3>4. i \in 1..l /\ g[i] \notin Seq(S)
            BY <3>3 DEF B
        <3>5. i # 1
            BY <2>3, <2>4, <3>4
        <3>6. i - 1 \in 1..l /\ i - 1 \notin B
            BY <2>4, <3>3, <3>4, <3>5
        <3>7. g[i - 1] \in Seq(S)
            BY <3>6 DEF B
        <3>8. g[i] = g[i - 1] \o seqs[i] /\ seqs[i] \in Seq(S)
            BY <2>3, <2>4, <3>4, <3>5
        <3>9. g[i] \in Seq(S)
            BY <3>7, <3>8, ConcatProperties
        <3> QED
            BY <3>4, <3>9
    <2>6. l \in 1..l
        BY <1>2, <2>4
    <2> QED
        BY <2>1, <2>5, <2>6
<1> QED
    BY <1>1, <1>2

\* What flattening finds: what it finds at an error and below it, for each of a list.
Found ==
    [path : Seq(STRING),
     constraints : UNION { { list[i].constraints : i \in 1..Len(list) } : list \in Violations }]

FoundAt(below, list, above, i) ==
    LET path == BuildValidationPath(above, list[i].property)
        current == IF path # <<>> /\ list[i].constraints # <<>>
                   THEN << [path |-> path, constraints |-> list[i].constraints] >>
                   ELSE <<>>
    IN  current \o below[list[i].children][path]

FoundIn(below, list) ==
    [above \in Seq(STRING) |-> FlattenSeq([i \in 1..Len(list) |-> FoundAt(below, list, above, i)])]

\* flat flattens the lists of L; the lists of a depth below d.
Flat(flat, L) == flat = [list \in L |-> FoundIn(flat, list)]
Shallow(d) == { list \in Violations : Depth[list] < d }

LEMMA ChildrenAre ==
    ASSUME NEW list \in Violations
    PROVE  /\ Len(list) \in Nat /\ Depth[list] \in Nat
           /\ \A i \in 1..Len(list) :
                 /\ list[i].children \in Violations
                 /\ Depth[list[i].children] \in Nat /\ Depth[list[i].children] < Depth[list]
BY ViolationsAssumption

\* Only what was found below matters.
LEMMA SameBelow ==
    ASSUME NEW list, NEW g, NEW h,
           \A i \in 1..Len(list) : g[list[i].children] = h[list[i].children]
    PROVE  FoundIn(g, list) = FoundIn(h, list)
<1>1. \A above : \A i \in 1..Len(list) : FoundAt(g, list, above, i) = FoundAt(h, list, above, i)
    BY DEF FoundAt
<1>2. \A above : [i \in 1..Len(list) |-> FoundAt(g, list, above, i)]
                     = [i \in 1..Len(list) |-> FoundAt(h, list, above, i)]
    BY <1>1
<1> QED
    BY <1>2 DEF FoundIn

\* There is one way to flatten a list.
LEMMA OneWay ==
    ASSUME NEW d \in Nat, NEW e \in Nat, NEW g, NEW h, Flat(g, Shallow(d)), Flat(h, Shallow(e))
    PROVE  \A list \in Shallow(d) \cap Shallow(e) : g[list] = h[list]
<1> DEFINE B == { list \in Shallow(d) \cap Shallow(e) : g[list] # h[list] }
           T == { Depth[list] : list \in B }
<1>1. SUFFICES ASSUME B # {} PROVE FALSE
    OBVIOUS
<1>2. T \subseteq Nat /\ T # {}
    BY <1>1, ChildrenAre DEF Shallow
<1>3. PICK m \in T : \A n \in T : m <= n
    BY <1>2, LeastOf
<1>4. PICK list \in B : Depth[list] = m
    BY <1>3
<1>5. list \in Violations /\ Depth[list] < d /\ Depth[list] < e /\ g[list] # h[list]
    BY <1>4 DEF Shallow
<1>6. \A i \in 1..Len(list) : g[list[i].children] = h[list[i].children]
    <2>1. SUFFICES ASSUME NEW i \in 1..Len(list), g[list[i].children] # h[list[i].children]
                   PROVE  FALSE
        OBVIOUS
    <2>2. /\ list[i].children \in Violations /\ Depth[list[i].children] < m
          /\ Depth[list[i].children] \in Nat /\ m \in Nat
        BY <1>4, <1>5, ChildrenAre
    <2>3. list[i].children \in B
        BY <1>4, <1>5, <2>1, <2>2 DEF Shallow
    <2>4. Depth[list[i].children] \in T
        BY <2>3
    <2> HIDE DEF T
    <2>5. m <= Depth[list[i].children]
        BY <1>3, <2>4
    <2> QED
        BY <2>2, <2>5
<1>7. g[list] = FoundIn(g, list) /\ h[list] = FoundIn(h, list)
    BY <1>4 DEF Flat
<1> QED
    BY <1>5, <1>6, <1>7, SameBelow

\* And there is a way, for lists of any depth.
LEMMA ShallowFlat == \A d \in Nat : \E flat : Flat(flat, Shallow(d))
<1> DEFINE T == { d \in Nat : ~ \E flat : Flat(flat, Shallow(d)) }
<1>1. SUFFICES ASSUME T # {} PROVE FALSE
    OBVIOUS
<1>2. PICK d \in T : \A e \in T : d <= e
    BY <1>1, LeastOf
<1>3. CASE d = 0
    <2>1. Shallow(0) = {}
        BY ChildrenAre DEF Shallow
    <2> DEFINE g == [list \in {} |-> list]
    <2>2. g = [list \in {} |-> FoundIn(g, list)]
        OBVIOUS
    <2>3. Flat(g, Shallow(0))
        BY <2>1, <2>2 DEF Flat
    <2> QED
        BY <1>2, <1>3, <2>3
<1>4. CASE d # 0
    <2>1. d \in Nat /\ d - 1 \in Nat /\ d - 1 \notin T
        BY <1>2, <1>4
    <2>2. PICK g : Flat(g, Shallow(d - 1))
        BY <2>1
    <2> DEFINE h == [list \in Shallow(d) |-> FoundIn(g, list)]
    <2>3. \A list \in Shallow(d - 1) : list \in Shallow(d) /\ h[list] = g[list]
        <3>1. \A list \in Shallow(d - 1) : list \in Shallow(d) /\ g[list] = FoundIn(g, list)
            BY <2>1, <2>2, ChildrenAre DEF Flat, Shallow
        <3> QED
            BY <3>1
    <2> HIDE DEF h, T
    <2>4. \A list \in Shallow(d) : FoundIn(g, list) = FoundIn(h, list)
        <3>1. SUFFICES ASSUME NEW list \in Shallow(d)
                       PROVE  \A i \in 1..Len(list) : g[list[i].children] = h[list[i].children]
            BY SameBelow
        <3>2. \A i \in 1..Len(list) : list[i].children \in Shallow(d - 1)
            BY <2>1, ChildrenAre DEF Shallow
        <3> QED
            BY <2>3, <3>2
    <2>5. Flat(h, Shallow(d))
        BY <2>4 DEF Flat, h
    <2> QED
        BY <1>2, <2>5 DEF T
<1> QED
    BY <1>3, <1>4

LEMMA AllFlat == \E flat : Flat(flat, Violations)
<1> DEFINE upto(d) == CHOOSE flat : Flat(flat, Shallow(d))
           h == [list \in Violations |-> upto(Depth[list] + 1)[list]]
<1>1. \A d \in Nat : Flat(upto(d), Shallow(d))
    BY ShallowFlat
<1> HIDE DEF upto
<1>2. \A list \in Violations : h[list] = FoundIn(h, list)
    <2> SUFFICES ASSUME NEW list \in Violations
                 PROVE  h[list] = FoundIn(h, list)
        OBVIOUS
    <2> DEFINE d == Depth[list] + 1
    <2>1. d \in Nat /\ list \in Shallow(d) /\ Flat(upto(d), Shallow(d))
        BY <1>1, ChildrenAre DEF Shallow
    <2>2. h[list] = FoundIn(upto(d), list)
        BY <2>1 DEF Flat
    <2>3. \A i \in 1..Len(list) : upto(d)[list[i].children] = h[list[i].children]
        <3> SUFFICES ASSUME NEW i \in 1..Len(list)
                     PROVE  upto(d)[list[i].children] = h[list[i].children]
            OBVIOUS
        <3> DEFINE c == list[i].children
                   e == Depth[c] + 1
        <3>1. c \in Violations /\ e \in Nat /\ c \in Shallow(d) /\ c \in Shallow(e)
            BY ChildrenAre DEF Shallow
        <3>2. Flat(upto(e), Shallow(e)) /\ h[c] = upto(e)[c]
            BY <1>1, <3>1
        <3> HIDE DEF c, e, d, h
        <3>3. upto(d)[c] = upto(e)[c]
            BY <2>1, <3>1, <3>2, OneWay
        <3> QED
            BY <3>2, <3>3 DEF c
    <2> HIDE DEF h, d
    <2> QED
        BY <2>2, <2>3, SameBelow
<1>3. Flat(h, Violations)
    <2>1. h = [list \in Violations |-> h[list]]
        OBVIOUS
    <2> HIDE DEF h
    <2> QED
        BY <1>2, <2>1 DEF Flat
<1> QED
    BY <1>3

\* A path below a path is a path.
LEMMA BuiltPath ==
    ASSUME NEW above \in Seq(STRING), NEW property \in STRING \cup {None}
    PROVE  BuildValidationPath(above, property) \in Seq(STRING)
<1>1. CASE property = None
    BY <1>1 DEF BuildValidationPath
<1>2. CASE property # None
    <2>1. BuildValidationPath(above, property) = Append(above, property) /\ property \in STRING
        BY <1>2 DEF BuildValidationPath
    <2>2. \A S : \A e \in S : \A t \in Seq(S) : Append(t, e) \in Seq(S)
        BY AppendProperties
    <2>3. Append(above, property) \in Seq(STRING)
        BY <2>1, <2>2
    <2> QED
        BY <2>1, <2>3
<1> QED
    BY <1>1, <1>2

\* Flattening finds constraints at paths, in every list.
LEMMA FoundBelow ==
    ASSUME NEW g, Flat(g, Violations), NEW errors \in Violations, NEW parent \in Seq(STRING)
    PROVE  /\ g[errors][parent] \in Seq(Found)
           /\ g[errors][parent] =
                  FlattenSeq([i \in 1..Len(errors) |-> FoundAt(g, errors, parent, i)])
           /\ \A i \in 1..Len(errors) : FoundAt(g, errors, parent, i) \in Seq(Found)
<1> DEFINE Parts(list, above) == [i \in 1..Len(list) |-> FoundAt(g, list, above, i)]
           B == { list \in Violations : ~ \A above \in Seq(STRING) : g[list][above] \in Seq(Found) }
           T == { Depth[list] : list \in B }
<1>1. ASSUME NEW list \in Violations, NEW above \in Seq(STRING)
      PROVE  g[list][above] = FlattenSeq(Parts(list, above))
    <2>1. g[list] = FoundIn(g, list)
        BY DEF Flat
    <2>2. FoundIn(g, list)[above] = FlattenSeq(Parts(list, above))
        BY DEF FoundIn
    <2> QED
        BY <2>1, <2>2
<1>2. ASSUME NEW list \in Violations, NEW above \in Seq(STRING), NEW i \in 1..Len(list),
             list[i].children \notin B
      PROVE  FoundAt(g, list, above, i) \in Seq(Found)
    <2> DEFINE path == BuildValidationPath(above, list[i].property)
               f == [path |-> path, constraints |-> list[i].constraints]
               current == IF path # <<>> /\ list[i].constraints # <<>> THEN << f >> ELSE <<>>
               c == list[i].children
    <2>1. path \in Seq(STRING)
        <3>1. list[i].property \in STRING \cup {None}
            BY ViolationsAssumption
        <3> QED
            BY <3>1, BuiltPath
    <2>2. list[i].constraints \in UNION { { l[j].constraints : j \in 1..Len(l) } : l \in Violations }
        OBVIOUS
    <2>3. c \in Violations /\ c \notin B
        BY <1>2, ChildrenAre
    <2> HIDE DEF path, c
    <2>4. f \in Found
        BY <2>1, <2>2 DEF Found
    <2> HIDE DEF f
    <2>5. current \in Seq(Found)
        BY <2>4
    <2>6. g[c][path] \in Seq(Found)
        BY <2>1, <2>3
    <2>7. FoundAt(g, list, above, i) = current \o g[c][path]
        BY DEF FoundAt, path, f, c
    <2> HIDE DEF current
    <2> QED
        BY <2>5, <2>6, <2>7, ConcatProperties
<1>3. ASSUME NEW list \in Violations, NEW above \in Seq(STRING),
             \A i \in 1..Len(list) : list[i].children \notin B
      PROVE  g[list][above] \in Seq(Found)
    <2>1. \A i \in 1..Len(list) : FoundAt(g, list, above, i) \in Seq(Found)
        <3> HIDE DEF B
        <3> QED
            BY <1>2, <1>3
    <2>2. Parts(list, above) \in Seq(Seq(Found))
        BY <2>1, ChildrenAre
    <2> HIDE DEF Parts
    <2> QED
        BY <1>1, <2>2, FlattenSeqIs
<1>4. B = {}
    <2>1. SUFFICES ASSUME B # {} PROVE FALSE
        OBVIOUS
    <2>2. T \subseteq Nat /\ T # {}
        BY <2>1, ChildrenAre
    <2>3. PICK m \in T : \A n \in T : m <= n
        BY <2>2, LeastOf
    <2>4. PICK list \in B : Depth[list] = m
        BY <2>3
    <2>5. list \in Violations
        BY <2>4
    <2>6. PICK above \in Seq(STRING) : g[list][above] \notin Seq(Found)
        BY <2>4
    <2>7. \A i \in 1..Len(list) : list[i].children \notin B
        <3>1. SUFFICES ASSUME NEW i \in 1..Len(list), list[i].children \in B PROVE FALSE
            OBVIOUS
        <3>2. Depth[list[i].children] \in T
            BY <3>1
        <3>3. Depth[list[i].children] \in Nat /\ m \in Nat /\ Depth[list[i].children] < m
            BY <2>4, <2>5, ChildrenAre
        <3> HIDE DEF T
        <3>4. m <= Depth[list[i].children]
            BY <2>3, <3>2
        <3> QED
            BY <3>3, <3>4
    <2> HIDE DEF B
    <2> QED
        BY <1>3, <2>5, <2>6, <2>7
<1> HIDE DEF B
<1>5. \A i \in 1..Len(errors) : FoundAt(g, errors, parent, i) \in Seq(Found)
    BY <1>2, <1>4
<1>6. g[errors][parent] \in Seq(Found)
    BY <1>3, <1>4
<1> QED
    BY <1>1, <1>5, <1>6

\* Flattening a list of validation errors gives a sequence of constraints at paths.
LEMMA FlattenIs ==
    ASSUME NEW errors \in Violations
    PROVE  /\ FlattenValidationErrors(errors, <<>>) \in Seq(Found)
           /\ \E g : /\ Flat(g, Violations)
                     /\ FlattenValidationErrors(errors, <<>>) = g[errors][<<>>]
<1> DEFINE g == CHOOSE flat : Flat(flat, Violations)
<1>1. FlattenValidationErrors(errors, <<>>) = g[errors][<<>>]
    BY DEF FlattenValidationErrors, Flat, FoundIn, FoundAt
<1>2. Flat(g, Violations)
    BY AllFlat
<1> HIDE DEF g
<1>3. <<>> \in Seq(STRING)
    OBVIOUS
<1> QED
    BY <1>1, <1>2, <1>3, FoundBelow

\* An error document that gives a reason: at least one failure at each path it names,
\* and at least one path.
Reasoned(errors) == DOMAIN errors # {} /\ \A p \in DOMAIN errors : errors[p].failures # <<>>

\* One failure, in a bag of its own.
LEMMA OneFailure ==
    ASSUME NEW path, NEW code, NEW says, NEW kind
    PROVE  LET errors == AppendFailure(NoErrors, path, code, says, kind)
           IN  /\ Reasoned(errors)
               /\ \A p \in DOMAIN errors : \A i \in 1..Len(errors[p].failures) :
                      errors[p].failures[i].says = says
<1> DEFINE errors == AppendFailure(NoErrors, path, code, says, kind)
           f == [code |-> code, says |-> says]
<1>1. FiledIn({f}, NoErrors)
    BY DEF FiledIn, NoErrors
<1>2. FiledIn({f}, errors) /\ DOMAIN errors # {}
    <2> DEFINE F == {f}
    <2>1. FiledIn(F, NoErrors) /\ [code |-> code, says |-> says] \in F
        BY <1>1
    <2> HIDE DEF F
    <2>2. FiledIn(F, errors) /\ DOMAIN errors # {}
        BY <2>1, AppendFailureIs
    <2> QED
        BY <2>2 DEF F
<1> HIDE DEF errors
<1>3. \A p \in DOMAIN errors : \A i \in 1..Len(errors[p].failures) : errors[p].failures[i] = f
    BY <1>2 DEF FiledIn
<1>4. Reasoned(errors)
    BY <1>2 DEF FiledIn, Reasoned
<1> QED
    BY <1>3, <1>4 DEF errors

LEMMA SingleIs ==
    ASSUME NEW kind, NEW code, NEW says
    PROVE  LET errors == Single(kind, code, says)
           IN  /\ Reasoned(errors)
               /\ \A p \in DOMAIN errors : \A i \in 1..Len(errors[p].failures) :
                      errors[p].failures[i].says = says
BY OneFailure DEF Single, AppendSystemFailure, AppendBusinessFailure

\* Failures from lists of lists: where there are any, there are reasons.
LEMMA ListedFailures ==
    ASSUME NEW S, NEW list \in Seq(S)
    PROVE  /\ \A p \in DOMAIN AppendFailures(list) : AppendFailures(list)[p].failures # <<>>
           /\ list # <<>> => Reasoned(AppendFailures(list))
<1> DEFINE F == { [code |-> list[n].code, says |-> list[n].says] : n \in 1..Len(list) }
<1>1. Len(list) \in Nat /\ (list # <<>> => Len(list) # 0)
    BY EmptySeq
<1>2. \A n \in 1..Len(list) : [code |-> list[n].code, says |-> list[n].says] \in F
    OBVIOUS
<1> HIDE DEF F
<1>3. FiledIn(F, AppendFailures(list)) /\ (Len(list) # 0 => DOMAIN AppendFailures(list) # {})
    BY <1>1, <1>2, AppendFailuresAre
<1> QED
    BY <1>1, <1>3 DEF FiledIn, Reasoned

LEMMA NestedFailures ==
    ASSUME NEW n \in Nat, NEW parts, DOMAIN parts = 1..n, parts = [i \in 1..n |-> parts[i]],
           \A i \in 1..n : /\ parts[i] = [j \in DOMAIN parts[i] |-> parts[i][j]]
                           /\ \E k \in Nat : DOMAIN parts[i] = 1..k
    PROVE  LET errors == AppendFailures(FlattenSeq(parts))
           IN  \A p \in DOMAIN errors : errors[p].failures # <<>>
<1> DEFINE S == UNION { { parts[i][j] : j \in DOMAIN parts[i] } : i \in 1..n }
<1>1. \A i \in 1..n : parts[i] \in Seq(S)
    <2> SUFFICES ASSUME NEW i \in 1..n PROVE parts[i] \in Seq(S)
        OBVIOUS
    <2>1. PICK k \in Nat : DOMAIN parts[i] = 1..k
        OBVIOUS
    <2>2. \A j \in 1..k : parts[i][j] \in S
        BY <2>1
    <2> HIDE DEF S
    <2> QED
        BY <2>1, <2>2
<1> HIDE DEF S
<1>2. parts \in Seq(Seq(S))
    BY <1>1
<1> QED
    BY <1>2, FlattenSeqIs, ListedFailures

\* The errors an exception carries are all there, or there are none.
LEMMA CarriedErrors ==
    ASSUME NEW errors,
           errors.kind = "bag" =>
               /\ Len(errors.list) \in Nat
               /\ \A i \in 1..Len(errors.list) : Len(errors.list[i].failures) \in Nat,
           NEW otherwise, Reasoned(otherwise)
    PROVE  Reasoned(Or(NormalizeApiErrors(errors), otherwise))
<1> DEFINE given(i) == errors.list[i].failures
           parts == [i \in 1..Len(errors.list) |->
                        [j \in 1..Len(given(i)) |->
                            Filing(errors.list[i].path, Code("own", given(i)[j].code),
                                   Says("text", given(i)[j].raw), errors.list[i].kind)]]
           bag == AppendFailures(FlattenSeq(parts))
<1>1. NormalizeApiErrors(errors) = IF errors.kind = "bag" /\ HasApiErrors(bag) THEN bag ELSE None
    BY DEF NormalizeApiErrors
<1>2. CASE errors.kind = "bag" /\ DOMAIN bag # {}
    <2>1. \A p \in DOMAIN bag : bag[p].failures # <<>>
        BY <1>2, NestedFailures
    <2> HIDE DEF bag
    <2> QED
        BY <1>1, <1>2, <2>1 DEF Or, Reasoned, HasApiErrors
<1>3. CASE ~(errors.kind = "bag" /\ DOMAIN bag # {})
    <2> HIDE DEF bag
    <2> QED
        BY <1>1, <1>3 DEF Or, HasApiErrors
<1> QED
    BY <1>2, <1>3

\* Validation errors without a constraint at a path give the general reason.
LEMMA ValidationErrors ==
    ASSUME NEW errors \in Violations
    PROVE  Reasoned(BuildValidationErrorsOrGeneral(errors))
<1> DEFINE found == FlattenValidationErrors(errors, <<>>)
           parts == [i \in 1..Len(found) |->
                        [j \in 1..Len(found[i].constraints) |->
                            LET c == found[i].constraints[j]
                            IN  Filing(found[i].path,
                                       GetI18nFailureCode(c.raw, Code("constraint", c.name)),
                                       Says("text", c.raw), "field")]]
           bag == BuildValidationErrors(errors)
<1>1. bag = AppendFailures(FlattenSeq(parts))
    BY DEF BuildValidationErrors
<1>2. found \in Seq(Found)
    BY FlattenIs
<1>3. \A i \in 1..Len(found) : Len(found[i].constraints) \in Nat
    <2>1. \A f \in Found : Len(f.constraints) \in Nat
        BY ViolationsAssumption DEF Found
    <2> HIDE DEF found
    <2> QED
        BY <1>2, <2>1
<1>4. \A p \in DOMAIN bag : bag[p].failures # <<>>
    <2> HIDE DEF bag, found
    <2>1. Len(found) \in Nat
        BY <1>2
    <2> QED
        BY <1>1, <1>3, <2>1, NestedFailures
<1> HIDE DEF bag
<1>5. CASE HasApiErrors(bag)
    BY <1>4, <1>5 DEF BuildValidationErrorsOrGeneral, HasApiErrors, Reasoned, bag
<1>6. CASE ~HasApiErrors(bag)
    <2>1. BuildValidationErrorsOrGeneral(errors)
              = AppendFailure(NoErrors, General, DefaultCode(400), Validation, "business")
        BY <1>6 DEF BuildValidationErrorsOrGeneral, AppendBusinessFailure, bag
    <2> QED
        BY <2>1, OneFailure
<1> QED
    BY <1>5, <1>6

\* So do texts.
LEMMA TextErrors ==
    ASSUME NEW raws, Len(raws) \in Nat \ {0}, NEW validation
    PROVE  Reasoned(BuildStringMessageErrors(raws, validation))
<1> DEFINE message(i) ==
               LET code == GetI18nFailureCode(raws[i], Code("message", i))
                   property == GetParsedI18nProperty(raws[i])
               IN  IF validation /\ property # None
                   THEN Filing(<<property>>, code, Says("text", raws[i]), "field")
                   ELSE Filing(General, code, Says("text", raws[i]), "business")
           list == [i \in 1..Len(raws) |-> message(i)]
           S == { message(i) : i \in 1..Len(raws) }
<1>1. BuildStringMessageErrors(raws, validation) = AppendFailures(list)
    BY DEF BuildStringMessageErrors
<1> HIDE DEF message
<1>2. list \in Seq(S) /\ Len(list) # 0
    OBVIOUS
<1> HIDE DEF list, S
<1> QED
    BY <1>1, <1>2, ListedFailures, EmptySeq

LEMMA GeneralErrors ==
    ASSUME NEW status, NEW raw
    PROVE  Reasoned(BuildHttpGeneralErrors(status, raw))
BY OneFailure, SingleIs DEF BuildHttpGeneralErrors, AppendFieldFailure

\* Whatever is thrown, its document has a status of an error and gives a reason.
LEMMA DocumentIs ==
    ASSUME NEW e, Throwable(e)
    PROVE  LET document == NormalizeException(e)
           IN  /\ document.status \in 400..599 /\ Reasoned(document.errors)
               /\ e.class = "other" /\ document.status >= 500 =>
                      \A p \in DOMAIN document.errors : \A i \in 1..Len(document.errors[p].failures) :
                          document.errors[p].failures[i].says = Default(document.status)
<1> DEFINE document == NormalizeException(e)
<1>1. e.errors.kind = "bag" =>
          /\ Len(e.errors.list) \in Nat
          /\ \A i \in 1..Len(e.errors.list) : Len(e.errors.list[i].failures) \in Nat
    BY DEF Throwable
<1>2. CASE e.class = "app"
    <2> DEFINE kind == Or(e.kind, ResolveDefaultErrorKind(e.status))
               code == IF e.code = None THEN DefaultCode(e.status) ELSE Code("own", e.code)
               errors == Or(NormalizeApiErrors(e.errors), Single(kind, code, Own))
    <2>1. document = Document(e.status, Own, errors)
        BY <1>2 DEF NormalizeException, NormalizeAppException
    <2>2. Reasoned(errors)
        BY <1>1, CarriedErrors, SingleIs
    <2> HIDE DEF errors
    <2> QED
        BY <1>2, <2>1, <2>2 DEF Document, Throwable
<1>3. CASE e.class = "i18nValidation"
    <2>1. document = Document(400, Validation, BuildValidationErrorsOrGeneral(e.errors.list))
        BY <1>3 DEF NormalizeException
    <2>2. Reasoned(BuildValidationErrorsOrGeneral(e.errors.list))
        BY <1>3, ValidationErrors DEF Throwable
    <2> QED
        BY <1>3, <2>1, <2>2 DEF Document
<1>4. CASE e.class = "http"
    <2>1. document = NormalizeHttpException(e) /\ e.status \in 400..599
        BY <1>4 DEF NormalizeException, Throwable
    <2> SUFFICES document.status = e.status /\ Reasoned(document.errors)
        BY <1>4, <2>1
    <2> HIDE DEF document
    <2>2. CASE e.errors.kind = "tree"
        BY <2>1, <2>2, ValidationErrors DEF NormalizeHttpException, Document, Throwable
    <2>3. CASE e.errors.kind # "tree" /\ e.body = "text"
        BY <2>1, <2>3, GeneralErrors DEF NormalizeHttpException, Document
    <2>4. CASE e.errors.kind # "tree" /\ e.body # "text"
        <3> DEFINE raws == e.message.raws
                   some == \E i \in 1..Len(raws) : IsValidationI18nMessage(raws[i])
                   carried(otherwise) == Or(NormalizeApiErrors(e.errors), otherwise)
        <3>1. document = NormalizeHttpExceptionObject(e)
            BY <2>1, <2>4 DEF NormalizeHttpException
        <3>2. \A otherwise : Reasoned(otherwise) => Reasoned(carried(otherwise))
            BY <1>1, CarriedErrors
        <3> HIDE DEF some, carried
        <3>3. CASE e.message.is = "template"
            <4> DEFINE x == Single(ResolveDefaultErrorKind(e.status), DefaultCode(e.status), Own)
            <4>1. document = Document(e.status, Own, carried(x))
                BY <3>1, <3>3 DEF NormalizeHttpExceptionObject, carried
            <4>2. Reasoned(carried(x))
                BY <3>2, SingleIs
            <4> HIDE DEF x
            <4> QED
                BY <4>1, <4>2 DEF Document
        <3>4. CASE e.message.is = "text"
            <4> DEFINE x == BuildHttpGeneralErrors(e.status, raws[1])
            <4>1. document = Document(e.status, Title(e.status, some), carried(x))
                BY <3>1, <3>4 DEF NormalizeHttpExceptionObject, carried, some
            <4>2. Reasoned(carried(x))
                BY <3>2, GeneralErrors
            <4> HIDE DEF x
            <4> QED
                BY <4>1, <4>2 DEF Document
        <3>5. CASE e.message.is = "texts"
            <4> DEFINE x == BuildStringMessageErrors(raws, some)
            <4>1. document = Document(e.status, Title(e.status, some), carried(x))
                BY <3>1, <3>5 DEF NormalizeHttpExceptionObject, carried, some
            <4>2. Reasoned(carried(x))
                BY <3>2, <3>5, TextErrors DEF Throwable
            <4> HIDE DEF x
            <4> QED
                BY <4>1, <4>2 DEF Document
        <3>6. CASE e.message.is = "none"
            <4> DEFINE x == SingleDefault(e.status)
            <4>1. document = Document(e.status, Default(e.status), carried(x))
                BY <3>1, <3>6 DEF NormalizeHttpExceptionObject, carried
            <4>2. Reasoned(carried(x))
                BY <3>2, SingleIs DEF SingleDefault
            <4> HIDE DEF x
            <4> QED
                BY <4>1, <4>2 DEF Document
        <3> QED
            BY <3>3, <3>4, <3>5, <3>6 DEF Throwable
    <2> QED
        BY <2>2, <2>3, <2>4
<1>5. CASE e.class = "other"
    <2> DEFINE status == Or(e.status, 500)
               says == IF e.message.raws = <<>> THEN Default(status)
                       ELSE Says("text", e.message.raws[1])
               errors == IF status >= 500 THEN SingleDefault(status)
                         ELSE AppendBusinessFailure(NoErrors, DefaultCode(status), says)
    <2>1. document = Document(status, Default(status), errors)
        BY <1>5 DEF NormalizeException, NormalizeUnknownException
    <2>2. status \in 400..599
        BY <1>5 DEF Throwable, Or
    <2>3. Reasoned(errors)
        BY OneFailure, SingleIs DEF SingleDefault, AppendBusinessFailure
    <2>4. status >= 500 => \A p \in DOMAIN errors : \A i \in 1..Len(errors[p].failures) :
                               errors[p].failures[i].says = Default(status)
        BY SingleIs DEF SingleDefault
    <2> HIDE DEF errors, status
    <2>5. document.status = status /\ document.errors = errors
        BY <2>1 DEF Document
    <2> QED
        BY <2>2, <2>3, <2>4, <2>5
<1> QED
    BY <1>2, <1>3, <1>4, <1>5 DEF Throwable

\* What the filter is called with is what was thrown, or the timeout.
Explaining ==
    /\ pc = "thrown" => Throwable(thrown)
    /\ pc = "answered" /\ answer.is = "error" =>
           Throwable(thrown) /\ answer.document = NormalizeException(thrown)

LEMMA TimeoutIsThrowable == Throwable(RequestTimeout)
BY DEF Throwable, RequestTimeout

LEMMA ExplainingInit == Init => Explaining
BY DEF Init, Explaining

LEMMA ExplainingStep == Explaining /\ [Next]_vars => Explaining'
<1> SUFFICES ASSUME Explaining, [Next]_vars
             PROVE  Explaining'
    OBVIOUS
<1>1. CASE Receive \/ PassGuards \/ Redirect \/ Return
    BY <1>1 DEF Receive, PassGuards, Redirect, Return, Explaining
<1>2. CASE Throw
    BY <1>2, ThrownAssumption DEF Throw, Explaining
<1>3. CASE TimeOut
    BY <1>3, TimeoutIsThrowable DEF TimeOut, Explaining
<1>4. CASE Intercept
    BY <1>4 DEF Intercept, Explaining
<1>5. CASE Catch
    BY <1>5 DEF Catch, Explaining
<1>6. CASE UNCHANGED vars
    BY <1>6 DEF vars, Explaining
<1> QED
    BY <1>1, <1>2, <1>3, <1>4, <1>5, <1>6 DEF Next

LEMMA ExplainingExplains == Explaining => ErrorsExplained
<1> SUFFICES ASSUME Explaining, pc = "answered", answer.is = "error"
             PROVE  LET document == answer.document
                        failures == UNION { { document.errors[p].failures[i] :
                                                i \in 1..Len(document.errors[p].failures) } :
                                              p \in DOMAIN document.errors }
                    IN  /\ document.status \in 400..599
                        /\ DOMAIN document.errors # {}
                        /\ \A p \in DOMAIN document.errors : document.errors[p].failures # <<>>
                        /\ thrown.class = "other" /\ document.status >= 500 =>
                               \A f \in failures : f.says = Default(document.status)
    BY DEF ErrorsExplained
<1>1. Throwable(thrown) /\ answer.document = NormalizeException(thrown)
    BY DEF Explaining
<1> QED
    BY <1>1, DocumentIs DEF Reasoned

\* Whatever a guard, a pipe or a handler throws, the answer to it has the status of an
\* error and a failure under every path it names, and the text of an error that is no
\* HttpException stays with the server when its status is 500 or more.
THEOREM ErrorsAlwaysExplained == Spec => []ErrorsExplained
<1>1. Spec => []Explaining
    BY ExplainingInit, ExplainingStep, PTL DEF Spec
<1> QED
    BY <1>1, ExplainingExplains, PTL

-----------------------------------------------------------------------------
(* Violations of the input of a request.                                   *)

\* s lists what value gives for the members of X, each once: at tells the order.
Enumerates(at, s, X, value) ==
    /\ \A k \in 1..Len(s) : at[k] \in X /\ s[k] = value[at[k]]
    /\ \A j, k \in 1..Len(s) : at[j] = at[k] => j = k
    /\ \A x \in X : \E k \in 1..Len(s) : at[k] = x

Enumerated(s, X, value) == \E at : Enumerates(at, s, X, value)

\* Nothing, and one thing, in a list.
LEMMA ListedNothing ==
    ASSUME NEW value
    PROVE  Enumerated(<<>>, {}, value)
BY DEF Enumerated, Enumerates

LEMMA ListedOne ==
    ASSUME NEW value, NEW x, NEW v, value[x] = v
    PROVE  Enumerated(<< v >>, {x}, value)
<1> DEFINE at == << x >>
           s == << v >>
<1>1. Len(s) = 1 /\ s[1] = v /\ at[1] = x
    OBVIOUS
<1> HIDE DEF at, s
<1>2. Enumerates(at, s, {x}, value)
    BY <1>1 DEF Enumerates
<1> QED
    BY <1>2 DEF Enumerated, s

\* One list after another.
LEMMA ListedBoth ==
    ASSUME NEW S, NEW s \in Seq(S), NEW t \in Seq(S), NEW X, NEW Y, X \cap Y = {},
           NEW value, Enumerated(s, X, value), Enumerated(t, Y, value)
    PROVE  Enumerated(s \o t, X \cup Y, value)
<1> DEFINE a == Len(s)
           b == Len(t)
           both == s \o t
<1>1. PICK first : Enumerates(first, s, X, value)
    BY DEF Enumerated
<1>2. PICK second : Enumerates(second, t, Y, value)
    BY DEF Enumerated
<1>3. /\ Len(both) = a + b /\ a \in Nat /\ b \in Nat
      /\ \A k \in 1..(a + b) : both[k] = IF k <= a THEN s[k] ELSE t[k - a]
    BY ConcatProperties
<1> DEFINE at == [k \in 1..(a + b) |-> IF k <= a THEN first[k] ELSE second[k - a]]
<1> HIDE DEF a, b, both
<1>4. /\ \A k \in 1..(a + b) : k <= a => at[k] = first[k] /\ k \in 1..a
      /\ \A k \in 1..(a + b) : ~(k <= a) => at[k] = second[k - a] /\ k - a \in 1..b
    BY <1>3
<1> HIDE DEF at
<1>5. /\ \A k \in 1..a : first[k] \in X /\ s[k] = value[first[k]]
      /\ \A j, k \in 1..a : first[j] = first[k] => j = k
      /\ \A x \in X : \E k \in 1..a : first[k] = x
    BY <1>1 DEF Enumerates, a
<1>6. /\ \A k \in 1..b : second[k] \in Y /\ t[k] = value[second[k]]
      /\ \A j, k \in 1..b : second[j] = second[k] => j = k
      /\ \A y \in Y : \E k \in 1..b : second[k] = y
    BY <1>2 DEF Enumerates, b
<1>7. \A k \in 1..(a + b) : at[k] \in X \cup Y /\ both[k] = value[at[k]]
    BY <1>3, <1>4, <1>5, <1>6
<1>8. ASSUME NEW j \in 1..(a + b), NEW k \in 1..(a + b), at[j] = at[k]
      PROVE  j = k
    <2>1. CASE j <= a /\ k <= a
        BY <1>4, <1>5, <1>8, <2>1
    <2>2. CASE ~(j <= a) /\ ~(k <= a)
        <3>1. j - a = k - a
            BY <1>4, <1>6, <1>8, <2>2
        <3> QED
            BY <1>3, <3>1
    <2>3. CASE j <= a /\ ~(k <= a)
        BY <1>4, <1>5, <1>6, <1>8, <2>3
    <2>4. CASE ~(j <= a) /\ k <= a
        BY <1>4, <1>5, <1>6, <1>8, <2>4
    <2> QED
        BY <2>1, <2>2, <2>3, <2>4
<1>9. ASSUME NEW x \in X \cup Y
      PROVE  \E k \in 1..(a + b) : at[k] = x
    <2>1. CASE x \in X
        <3>1. PICK k \in 1..a : first[k] = x
            BY <1>5, <2>1
        <3>2. k \in 1..(a + b) /\ k <= a
            BY <1>3
        <3> QED
            BY <1>4, <3>1, <3>2
    <2>2. CASE x \in Y
        <3>1. PICK k \in 1..b : second[k] = x
            BY <1>6, <2>2
        <3>2. a + k \in 1..(a + b) /\ ~(a + k <= a) /\ (a + k) - a = k
            BY <1>3
        <3> QED
            BY <1>4, <3>1, <3>2
    <2> QED
        BY <2>1, <2>2
<1>10. Enumerates(at, both, X \cup Y, value)
    BY <1>3, <1>7, <1>8, <1>9 DEF Enumerates
<1> QED
    BY <1>10 DEF Enumerated, both

\* Lists one after the other: the i-th of what is sorted as of i.
LEMMA ListedAll ==
    ASSUME NEW S, NEW seqs \in Seq(Seq(S)), NEW X, NEW value, NEW sort,
           \A x \in X : sort[x] \in 1..Len(seqs),
           \A i \in 1..Len(seqs) : Enumerated(seqs[i], { x \in X : sort[x] = i }, value)
    PROVE  Enumerated(FlattenSeq(seqs), X, value)
<1> DEFINE l == Len(seqs)
           g == CHOOSE joined : Joined(joined, seqs, l)
           Upto(m) == { x \in X : sort[x] <= m }
           Good(m) == g[m] \in Seq(S) /\ Enumerated(g[m], Upto(m), value)
           B == { m \in 1..l : ~Good(m) }
<1>1. l \in Nat /\ \A i \in 1..l : seqs[i] \in Seq(S)
    OBVIOUS
<1>2. CASE l = 0
    <2>1. FlattenSeq(seqs) = <<>>
        BY <1>2, EmptySeq DEF FlattenSeq
    <2>2. X = {}
        BY <1>2
    <2> QED
        BY <2>1, <2>2, ListedNothing
<1>3. CASE l # 0
    <2>1. FlattenSeq(seqs) = g[l]
        BY <1>3 DEF FlattenSeq, Joined
    <2>2. Joined(g, seqs, l)
        <3> HIDE DEF l
        <3>1. \E joined : Joined(joined, seqs, l)
            BY <1>1, JoinedThere
        <3> QED
            BY <3>1
    <2>3. /\ \A x \in X : sort[x] \in 1..l
          /\ \A i \in 1..l : Enumerated(seqs[i], { x \in X : sort[x] = i }, value)
        OBVIOUS
    <2> HIDE DEF g, l
    <2>4. \A i \in 1..l : g[i] = IF i = 1 THEN seqs[i] ELSE g[i - 1] \o seqs[i]
        BY <2>2 DEF Joined
    <2>5. B = {}
        <3>1. SUFFICES ASSUME B # {} PROVE FALSE
            OBVIOUS
        <3>2. B \subseteq Nat
            OBVIOUS
        <3> HIDE DEF B
        <3>3. PICK m \in B : \A k \in B : m <= k
            BY <3>1, <3>2, LeastOf
        <3> DEFINE Mine == { x \in X : sort[x] = m }
        <3>4. m \in 1..l /\ m \in Nat /\ seqs[m] \in Seq(S) /\ Enumerated(seqs[m], Mine, value)
            <4>1. m \in 1..l
                BY <3>3 DEF B
            <4>2. Enumerated(seqs[m], Mine, value)
                BY <2>3, <4>1
            <4> HIDE DEF Mine
            <4> QED
                BY <1>1, <4>1, <4>2
        <3>5. CASE m = 1
            <4>1. g[1] = seqs[1]
                BY <2>4, <3>4, <3>5
            <4>2. Upto(1) = Mine
                BY <2>3, <3>5
            <4> HIDE DEF Upto, Mine
            <4>3. Good(1)
                BY <3>4, <3>5, <4>1, <4>2
            <4> QED
                BY <3>3, <3>5, <4>3 DEF B
        <3>6. CASE m # 1
            <4>1. m - 1 \in 1..l /\ m - 1 \notin B
                BY <1>1, <3>3, <3>4, <3>6
            <4>2. Good(m - 1)
                BY <4>1 DEF B
            <4>3. g[m] = g[m - 1] \o seqs[m]
                BY <2>4, <3>4, <3>6
            <4>4. Upto(m - 1) \cap Mine = {}
                BY <3>4
            <4>5. Upto(m) = Upto(m - 1) \cup Mine
                BY <2>3, <3>4
            <4> HIDE DEF Upto, Mine
            <4>6. g[m - 1] \in Seq(S) /\ Enumerated(g[m - 1], Upto(m - 1), value)
                BY <4>2
            <4>7. Enumerated(g[m - 1] \o seqs[m], Upto(m - 1) \cup Mine, value)
                BY <3>4, <4>4, <4>6, ListedBoth
            <4>8. g[m - 1] \o seqs[m] \in Seq(S)
                BY <3>4, <4>6, ConcatProperties
            <4>9. Good(m)
                BY <4>3, <4>5, <4>7, <4>8
            <4> QED
                BY <3>3, <4>9 DEF B
        <3> QED
            BY <3>5, <3>6
    <2>6. l \in 1..l
        BY <1>1, <1>3
    <2>7. Upto(l) = X
        BY <1>1, <2>3
    <2> HIDE DEF Upto
    <2>8. Enumerated(g[l], Upto(l), value)
        BY <2>5, <2>6
    <2> QED
        BY <2>1, <2>7, <2>8
<1> QED
    BY <1>2, <1>3

\* A failure more at its path, and no other change.
Longer(bag, longer, path) ==
    /\ DOMAIN longer = DOMAIN bag \cup {path}
    /\ \A p \in DOMAIN bag \ {path} : longer[p] = bag[p]
    /\ path \in DOMAIN bag => Len(longer[path].failures) = Len(bag[path].failures) + 1
    /\ path \notin DOMAIN bag => Len(longer[path].failures) = 1

LEMMA AppendCounts ==
    ASSUME NEW F, NEW bag, FiledIn(F, bag), NEW path, path # <<>>, NEW code, NEW says, NEW kind,
           [code |-> code, says |-> says] \in F,
           NEW longer, longer = AppendFailure(bag, path, code, says, kind)
    PROVE  Longer(bag, longer, path)
<1> DEFINE current == IF path \in DOMAIN bag THEN bag[path] ELSE [kind |-> kind, failures |-> <<>>]
           f == [code |-> code, says |-> says]
           appended == Append(current.failures, f)
           extended == [current EXCEPT !.failures = appended]
           given == [p \in DOMAIN bag \cup {path} |-> IF p = path THEN extended ELSE bag[p]]
<1>1. longer = given
    BY DEF AppendFailure
<1>2. /\ current = [kind |-> current.kind, failures |-> current.failures]
      /\ current.failures \in Seq(F)
      /\ Len(current.failures) = IF path \in DOMAIN bag THEN Len(bag[path].failures) ELSE 0
    BY DEF FiledIn
<1>3. f \in F
    OBVIOUS
<1> HIDE DEF current, f
<1>4. Len(appended) = Len(current.failures) + 1
    BY <1>2, <1>3, AppendProperties
<1> HIDE DEF appended
<1>5. extended.failures = appended
    BY <1>2
<1> HIDE DEF extended
<1>6. /\ DOMAIN given = DOMAIN bag \cup {path}
      /\ \A p \in DOMAIN bag \ {path} : given[p] = bag[p]
      /\ given[path] = extended
    OBVIOUS
<1> HIDE DEF given
<1> QED
    BY <1>1, <1>2, <1>4, <1>5, <1>6 DEF Longer

At(list, m, path) == { k \in 1..m : list[k].path = path }

\* The bag of a list of failures has the paths of them, and at each as many as there are.
LEMMA BagCounts ==
    ASSUME NEW S, NEW list \in Seq(S), \A k \in 1..Len(list) : list[k].path # <<>>
    PROVE  LET bag == AppendFailures(list)
           IN  /\ DOMAIN bag = { list[k].path : k \in 1..Len(list) }
               /\ \A p \in DOMAIN bag :
                      Len(bag[p].failures) = Cardinality(At(list, Len(list), p))
<1> DEFINE g == CHOOSE bag : Filed(bag, list, Len(list))
           m == Len(list)
           F == { [code |-> list[n].code, says |-> list[n].says] : n \in 1..m }
           Add(b, n) == AppendFailure(b, list[n].path, list[n].code, list[n].says, list[n].kind)
<1>1. m \in Nat
    OBVIOUS
<1>2. AppendFailures(list) = g[m]
    BY DEF AppendFailures, Filed
<1>3. \A n \in 1..m : [code |-> list[n].code, says |-> list[n].says] \in F
    OBVIOUS
<1> HIDE DEF F
<1>4. Filed(g, list, m)
    <2>1. \E bag : Filed(bag, list, Len(list))
        BY <1>1, FiledThere
    <2> QED
        BY <2>1
<1> HIDE DEF g, m
<1>5. g[0] = NoErrors /\ \A n \in 1..m : g[n] = Add(g[n - 1], n)
    <2> HIDE DEF Add
    <2>1. g = [n \in 0..m |-> IF n = 0 THEN NoErrors ELSE Add(g[n - 1], n)]
        BY <1>4 DEF Filed, Add
    <2> QED
        BY <1>1, <2>1
<1> DEFINE Paths(n) == { list[k].path : k \in 1..n }
           Good(n) == /\ FiledIn(F, g[n])
                      /\ DOMAIN g[n] = Paths(n)
                      /\ \A p \in DOMAIN g[n] : Len(g[n][p].failures) = Cardinality(At(list, n, p))
           B == { n \in 0..m : ~Good(n) }
<1>6. Good(0)
    BY <1>5 DEF FiledIn, NoErrors
<1>7. ASSUME NEW n \in 1..m, Good(n - 1)
      PROVE  Good(n)
    <2> DEFINE there == list[n].path
               old == g[n - 1]
               new == g[n]
    <2>1. there # <<>> /\ [code |-> list[n].code, says |-> list[n].says] \in F
        BY <1>3 DEF m
    <2>2. FiledIn(F, old) /\ new = Add(old, n)
        BY <1>5, <1>7
    <2>3. FiledIn(F, new)
        BY <2>1, <2>2, AppendFailureIs
    <2>4. /\ DOMAIN new = DOMAIN old \cup {there}
          /\ \A p \in DOMAIN old \ {there} : new[p] = old[p]
          /\ there \in DOMAIN old => Len(new[there].failures) = Len(old[there].failures) + 1
          /\ there \notin DOMAIN old => Len(new[there].failures) = 1
        <3> DEFINE its == list[n].code
                   text == list[n].says
                   sort == list[n].kind
        <3>1. new = AppendFailure(old, there, its, text, sort)
            BY <2>2
        <3>2. FiledIn(F, old)
            BY <2>2
        <3>3. [code |-> its, says |-> text] \in F /\ there # <<>>
            BY <2>1
        <3> HIDE DEF its, text, sort, there, old, new, F
        <3>4. Longer(old, new, there)
            BY <3>1, <3>2, <3>3, AppendCounts
        <3> QED
            BY <3>4 DEF Longer
    <2>5. /\ DOMAIN old = Paths(n - 1)
          /\ \A p \in DOMAIN old : Len(old[p].failures) = Cardinality(At(list, n - 1, p))
        BY <1>7
    <2>6. n \in Nat /\ n - 1 \in Nat /\ \A k : k \in 1..n <=> k \in 1..(n - 1) \/ k = n
        BY <1>1
    <2>7. DOMAIN new = Paths(n)
        BY <2>4, <2>5, <2>6
    <2>8. \A p : p # there => At(list, n, p) = At(list, n - 1, p)
        BY <2>6 DEF At
    <2>9. At(list, n, there) = At(list, n - 1, there) \cup {n} /\ n \notin At(list, n - 1, there)
        BY <2>6 DEF At
    <2>10. \A p : IsFiniteSet(At(list, n - 1, p))
        <3>1. \A p : At(list, n - 1, p) \subseteq 1..(n - 1)
            BY DEF At
        <3>2. IsFiniteSet(1..(n - 1))
            BY <2>6, FS_Interval
        <3> QED
            BY <3>1, <3>2, FS_Subset
    <2>11. Cardinality(At(list, n, there)) = Cardinality(At(list, n - 1, there)) + 1
        BY <2>9, <2>10, FS_AddElement
    <2>12. there \notin DOMAIN old => At(list, n - 1, there) = {}
        BY <2>5 DEF At
    <2>13. Len(new[there].failures) = Cardinality(At(list, n, there))
        <3>1. CASE there \in DOMAIN old
            BY <2>4, <2>5, <2>11, <3>1
        <3>2. CASE there \notin DOMAIN old
            <4>1. Cardinality(At(list, n - 1, there)) = 0
                BY <2>12, <3>2, FS_EmptySet
            <4>2. Cardinality(At(list, n, there)) = 1
                BY <2>11, <4>1
            <4> QED
                BY <2>4, <3>2, <4>2
        <3> QED
            BY <3>1, <3>2
    <2> HIDE DEF there, old, Paths
    <2>14. \A p \in DOMAIN new : Len(new[p].failures) = Cardinality(At(list, n, p))
        BY <2>4, <2>5, <2>8, <2>13
    <2> QED
        BY <2>3, <2>7, <2>14
<1>8. B = {}
    <2>1. SUFFICES ASSUME B # {} PROVE FALSE
        OBVIOUS
    <2>2. B \subseteq Nat
        OBVIOUS
    <2> HIDE DEF B
    <2>3. PICK n \in B : \A k \in B : n <= k
        BY <2>1, <2>2, LeastOf
    <2> HIDE DEF Good
    <2>4. n \in 0..m /\ ~Good(n)
        BY <2>3 DEF B
    <2>5. n \in 1..m
        BY <1>1, <1>6, <2>4
    <2>6. n - 1 \in 0..m /\ n - 1 \notin B
        BY <1>1, <2>3, <2>5
    <2>7. Good(n - 1)
        BY <2>6 DEF B
    <2> QED
        BY <1>7, <2>4, <2>5, <2>7
<1>9. Good(m)
    <2> HIDE DEF Good
    <2> QED
        BY <1>1, <1>8
<1> QED
    BY <1>2, <1>9 DEF m
\* How many entries of a list have a path: as many as the members they stand for.
Counted(list, X, value) ==
    /\ { list[k].path : k \in 1..Len(list) } = { value[x].path : x \in X }
    /\ \A p : Cardinality(At(list, Len(list), p)) = Cardinality({ x \in X : value[x].path = p })

LEMMA ListedCounts ==
    ASSUME NEW S, NEW list \in Seq(S), NEW X, NEW value, Enumerated(list, X, value)
    PROVE  Counted(list, X, value)
<1> DEFINE l == Len(list)
<1>1. PICK at : Enumerates(at, list, X, value)
    BY DEF Enumerated
<1>2. /\ l \in Nat
      /\ \A k \in 1..l : at[k] \in X /\ list[k] = value[at[k]]
      /\ \A j, k \in 1..l : at[j] = at[k] => j = k
      /\ \A x \in X : \E k \in 1..l : at[k] = x
    BY <1>1 DEF Enumerates
<1> HIDE DEF l
<1>3. { list[k].path : k \in 1..l } = { value[x].path : x \in X }
    BY <1>2
<1>4. ASSUME NEW p
      PROVE  Cardinality(At(list, l, p)) = Cardinality({ x \in X : value[x].path = p })
    <2> DEFINE Here == At(list, l, p)
               There == { x \in X : value[x].path = p }
               f == [k \in Here |-> at[k]]
    <2>1. /\ \A k \in Here : k \in 1..l /\ at[k] \in There
          /\ \A j, k \in Here : at[j] = at[k] => j = k
          /\ \A x \in There : \E k \in Here : at[k] = x
        BY <1>2 DEF At
    <2>2. IsFiniteSet(Here)
        <3>1. Here \subseteq 1..l
            BY DEF At
        <3>2. IsFiniteSet(1..l)
            BY <1>2, FS_Interval
        <3> HIDE DEF Here
        <3> QED
            BY <3>1, <3>2, FS_Subset
    <2> HIDE DEF Here, There
    <2>3. f \in Bijection(Here, There)
        <3>1. f \in [Here -> There]
            BY <2>1
        <3>2. \A j, k \in Here : f[j] = f[k] => j = k
            BY <2>1
        <3>3. \A x \in There : \E k \in Here : f[k] = x
            BY <2>1
        <3> HIDE DEF f
        <3> QED
            BY <3>1, <3>2, <3>3 DEF Bijection, Injection, Surjection, IsInjective
    <2>4. ExistsBijection(Here, There)
        BY <2>3 DEF ExistsBijection
    <2>5. Cardinality(There) = Cardinality(Here)
        BY <2>2, <2>4, FS_Bijection
    <2> QED
        BY <2>5 DEF Here, There
<1> QED
    BY <1>3, <1>4 DEF l, Counted

\* The same list of other members.
LEMMA ListedAs ==
    ASSUME NEW s, NEW X, NEW value, Enumerated(s, X, value), NEW Y, NEW other, NEW f,
           \A x \in X : f[x] \in Y /\ other[f[x]] = value[x],
           \A x, y \in X : f[x] = f[y] => x = y,
           \A y \in Y : \E x \in X : f[x] = y
    PROVE  Enumerated(s, Y, other)
<1>1. PICK at : Enumerates(at, s, X, value)
    BY DEF Enumerated
<1> DEFINE new == [k \in 1..Len(s) |-> f[at[k]]]
<1>2. \A k \in 1..Len(s) : new[k] = f[at[k]]
    OBVIOUS
<1> HIDE DEF new
<1>3. Enumerates(new, s, Y, other)
    <2>1. \A k \in 1..Len(s) : new[k] \in Y /\ s[k] = other[new[k]]
        BY <1>1, <1>2 DEF Enumerates
    <2>2. \A j, k \in 1..Len(s) : new[j] = new[k] => j = k
        BY <1>1, <1>2 DEF Enumerates
    <2>3. \A y \in Y : \E k \in 1..Len(s) : new[k] = y
        BY <1>1, <1>2 DEF Enumerates
    <2> QED
        BY <2>1, <2>2, <2>3 DEF Enumerates
<1> QED
    BY <1>3 DEF Enumerated

\* What flattening takes of an error itself, and whether it is told.
Item(list, above, i) ==
    [path |-> BuildValidationPath(above, list[i].property), constraints |-> list[i].constraints]

Told(item) == item.path # <<>> /\ item.constraints # <<>>

ToldOf(item) == IF Told(item) THEN << item >> ELSE <<>>

LEMMA FoundHere ==
    ASSUME NEW g, NEW list, NEW above, NEW i
    PROVE  FoundAt(g, list, above, i) =
               ToldOf(Item(list, above, i)) \o g[list[i].children][Item(list, above, i).path]
<1> DEFINE path == BuildValidationPath(above, list[i].property)
           item == [path |-> path, constraints |-> list[i].constraints]
<1>1. Item(list, above, i) = item /\ item.path = path /\ item.constraints = list[i].constraints
    BY DEF Item
<1>2. FoundAt(g, list, above, i) =
          (IF path # <<>> /\ list[i].constraints # <<>> THEN << item >> ELSE <<>>)
              \o g[list[i].children][path]
    BY DEF FoundAt
<1> HIDE DEF item, path
<1>3. ToldOf(item) = IF path # <<>> /\ list[i].constraints # <<>> THEN << item >> ELSE <<>>
    BY <1>1 DEF ToldOf, Told
<1> QED
    BY <1>1, <1>2, <1>3

LEMMA ListedOwn ==
    ASSUME NEW value, NEW x, NEW item, value[x] = item
    PROVE  Enumerated(ToldOf(item), { y \in {x} : Told(value[y]) }, value)
<1>1. CASE Told(item)
    <2>1. { y \in {x} : Told(value[y]) } = {x}
        BY <1>1
    <2>2. ToldOf(item) = << item >>
        BY <1>1 DEF ToldOf
    <2> QED
        BY <2>1, <2>2, ListedOne
<1>2. CASE ~Told(item)
    <2>1. { y \in {x} : Told(value[y]) } = {}
        BY <1>2
    <2>2. ToldOf(item) = <<>>
        BY <1>2 DEF ToldOf
    <2> QED
        BY <2>1, <2>2, ListedNothing
<1> QED
    BY <1>1, <1>2

\* A list of no depth has no errors.
LEMMA NoneFound ==
    ASSUME NEW g, Flat(g, Violations), NEW list \in Violations, Depth[list] = 0,
           NEW above \in Seq(STRING)
    PROVE  g[list][above] = <<>>
<1> DEFINE parts == [i \in 1..Len(list) |-> FoundAt(g, list, above, i)]
<1>1. Len(list) = 0
    <2>1. SUFFICES ASSUME Len(list) # 0 PROVE FALSE
        OBVIOUS
    <2>2. 1 \in 1..Len(list)
        BY <2>1, ChildrenAre
    <2>3. Depth[list[1].children] \in Nat /\ Depth[list[1].children] < 0
        BY <2>2, ChildrenAre
    <2> QED
        BY <2>3
<1>2. parts = <<>>
    BY <1>1
<1>3. g[list][above] = FlattenSeq(parts)
    BY FoundBelow
<1> HIDE DEF parts
<1>4. FlattenSeq(<<>>) = <<>>
    BY DEF FlattenSeq
<1> QED
    BY <1>2, <1>3, <1>4

\* What is found below a list whose errors have no children: what is told of them.
LEMMA ListedLeaves ==
    ASSUME NEW g, Flat(g, Violations), NEW list \in Violations, Depth[list] <= 1,
           NEW above \in Seq(STRING), NEW value,
           \A i \in 1..Len(list) : value[i] = Item(list, above, i)
    PROVE  Enumerated(g[list][above], { i \in 1..Len(list) : Told(value[i]) }, value)
<1> DEFINE l == Len(list)
           X == { i \in 1..l : Told(value[i]) }
           sort == [i \in 1..l |-> i]
           parts == [i \in 1..l |-> FoundAt(g, list, above, i)]
<1>1. /\ g[list][above] = FlattenSeq(parts)
      /\ l \in Nat
      /\ parts \in Seq(Seq(Found)) /\ Len(parts) = l
      /\ \A i \in 1..l : parts[i] \in Seq(Found)
    <2>1. /\ g[list][above] = FlattenSeq(parts)
          /\ \A i \in 1..l : FoundAt(g, list, above, i) \in Seq(Found)
        BY FoundBelow
    <2>2. l \in Nat
        BY ChildrenAre
    <2> QED
        BY <2>1, <2>2
<1>2. ASSUME NEW i \in 1..l
      PROVE  Enumerated(parts[i], { x \in X : sort[x] = i }, value)
    <2> DEFINE item == Item(list, above, i)
               c == list[i].children
    <2>1. parts[i] = ToldOf(item) \o g[c][item.path]
        BY FoundHere
    <2>2. c \in Violations /\ Depth[c] = 0
        BY ChildrenAre
    <2>3. item.path \in Seq(STRING)
        <3>1. list[i].property \in STRING \cup {None}
            BY ViolationsAssumption
        <3>2. item.path = BuildValidationPath(above, list[i].property)
            BY DEF Item
        <3> QED
            BY <3>1, <3>2, BuiltPath
    <2>4. value[i] = item
        OBVIOUS
    <2> HIDE DEF item, c
    <2>5. g[c][item.path] = <<>>
        BY <2>2, <2>3, NoneFound
    <2>6. ToldOf(item) \o <<>> = ToldOf(item)
        BY DEF ToldOf
    <2>7. Enumerated(ToldOf(item), { y \in {i} : Told(value[y]) }, value)
        BY <2>4, ListedOwn
    <2>8. { y \in {i} : Told(value[y]) } = { x \in X : sort[x] = i }
        OBVIOUS
    <2> HIDE DEF X, sort
    <2> QED
        BY <2>1, <2>5, <2>6, <2>7, <2>8
<1>3. \A x \in X : sort[x] \in 1..Len(parts)
    BY <1>1
<1> HIDE DEF X, parts, sort, l
<1>4. Enumerated(FlattenSeq(parts), X, value)
    BY <1>1, <1>2, <1>3, ListedAll
<1> QED
    BY <1>1, <1>4 DEF X, l

\* The path flattening gives a node is the one a client knows it by.
ItemAt(tree, n) == [path |-> PathOf(tree, n), constraints |-> NodeAt(tree, n).constraints]

Name(property) == IF property = None THEN <<>> ELSE << property >>

LEMMA NamesJoined ==
    ASSUME NEW above \in Seq(STRING), NEW property \in STRING \cup {None}
    PROVE  BuildValidationPath(above, property) = above \o Name(property)
<1>1. CASE property = None
    BY <1>1 DEF BuildValidationPath, Name
<1>2. CASE property # None
    <2>1. BuildValidationPath(above, property) = Append(above, property) /\ property \in STRING
        BY <1>2 DEF BuildValidationPath
    <2>2. Name(property) = << property >>
        BY <1>2 DEF Name
    <2>3. Append(above, property) = above \o << property >>
        BY <2>1, AppendIsConcat
    <2> QED
        BY <2>1, <2>2, <2>3
<1> QED
    BY <1>1, <1>2

LEMMA NodePaths ==
    ASSUME NEW tree \in Violations, NEW i \in 1..Len(tree)
    PROVE  /\ ItemAt(tree, <<i, 0>>) = Item(tree, <<>>, i)
           /\ \A j \in 1..Len(tree[i].children) :
                  ItemAt(tree, <<i, j>>) = Item(tree[i].children, Item(tree, <<>>, i).path, j)
<1> DEFINE c == tree[i].children
           path == BuildValidationPath(<<>>, tree[i].property)
<1>1. c \in Violations /\ tree[i].property \in STRING \cup {None}
    BY ViolationsAssumption
<1>2. path \in Seq(STRING) /\ path = <<>> \o Name(tree[i].property)
    <2> DEFINE property == tree[i].property
               above == <<>>
    <2>1. above \in Seq(STRING) /\ property \in STRING \cup {None}
        BY <1>1
    <2> HIDE DEF property, above
    <2>2. /\ BuildValidationPath(above, property) \in Seq(STRING)
          /\ BuildValidationPath(above, property) = above \o Name(property)
        BY <2>1, BuiltPath, NamesJoined
    <2> QED
        BY <2>2 DEF property, above
<1>3. Name(tree[i].property) = path
    <2>1. <<>> \o Name(tree[i].property) = Name(tree[i].property)
        BY DEF Name
    <2> QED
        BY <1>2, <2>1
<1>4. Item(tree, <<>>, i) = [path |-> path, constraints |-> tree[i].constraints]
    BY DEF Item
<1>5. PathOf(tree, <<i, 0>>) = Name(tree[i].property) \o <<>>
    BY DEF PathOf, Name
<1>6. NodeAt(tree, <<i, 0>>) = tree[i]
    BY DEF NodeAt
<1> HIDE DEF path
<1>7. path \o <<>> = path
    BY <1>2
<1>8. ItemAt(tree, <<i, 0>>) = Item(tree, <<>>, i)
    BY <1>3, <1>4, <1>5, <1>6, <1>7 DEF ItemAt
<1>9. ASSUME NEW j \in 1..Len(c)
      PROVE  ItemAt(tree, <<i, j>>) = Item(c, path, j)
    <2>1. NodeAt(tree, <<i, j>>) = c[j] /\ j # 0
        <3>1. j # 0
            BY <1>1, ChildrenAre
        <3> QED
            BY <3>1 DEF NodeAt
    <2>2. PathOf(tree, <<i, j>>) = Name(tree[i].property) \o Name(c[j].property)
        <3> HIDE DEF c
        <3> QED
            BY <2>1 DEF PathOf, Name
    <2>3. c[j].property \in STRING \cup {None}
        BY <1>1, ViolationsAssumption
    <2> HIDE DEF c
    <2>4. BuildValidationPath(path, c[j].property) = path \o Name(c[j].property)
        BY <1>2, <2>3, NamesJoined
    <2> QED
        BY <1>3, <2>1, <2>2, <2>4 DEF ItemAt, Item
<1>10. Item(tree, <<>>, i).path = path
    BY <1>4
<1> QED
    BY <1>8, <1>9, <1>10 DEF c

\* What is found in a list nested at most once: what is told of its nodes.
LEMMA ListedNodes ==
    ASSUME NEW g, Flat(g, Violations), NEW tree \in Violations, Depth[tree] <= 2, NEW value,
           \A n \in Nodes(tree) : value[n] = ItemAt(tree, n)
    PROVE  Enumerated(g[tree][<<>>], { n \in Nodes(tree) : Told(value[n]) }, value)
<1> DEFINE l == Len(tree)
           none == <<>>
           X == { n \in Nodes(tree) : Told(value[n]) }
           sort == [n \in Nodes(tree) |-> n[1]]
           parts == [i \in 1..l |-> FoundAt(g, tree, none, i)]
<1>1. /\ g[tree][none] = FlattenSeq(parts)
      /\ l \in Nat
      /\ parts \in Seq(Seq(Found)) /\ Len(parts) = l
      /\ \A i \in 1..l : parts[i] \in Seq(Found)
    <2>1. none \in Seq(STRING)
        OBVIOUS
    <2> HIDE DEF none
    <2>2. /\ g[tree][none] = FlattenSeq(parts)
          /\ \A i \in 1..l : FoundAt(g, tree, none, i) \in Seq(Found)
        BY <2>1, FoundBelow
    <2>3. l \in Nat
        BY ChildrenAre
    <2> QED
        BY <2>2, <2>3
<1>2. ASSUME NEW i \in 1..l
      PROVE  Enumerated(parts[i], { n \in X : sort[n] = i }, value)
    <2> DEFINE item == Item(tree, none, i)
               path == item.path
               c == tree[i].children
               Itself == { n \in { <<i, 0>> } : Told(value[n]) }
               Under == { n \in { <<i, j>> : j \in 1..Len(c) } : Told(value[n]) }
    <2>1. parts[i] = ToldOf(item) \o g[c][path]
        BY FoundHere
    <2>2. c \in Violations /\ Depth[c] <= 1 /\ Len(c) \in Nat
        <3>1. c \in Violations /\ Depth[c] \in Nat /\ Depth[tree] \in Nat /\ Depth[c] < Depth[tree]
            BY ChildrenAre
        <3> HIDE DEF c
        <3> QED
            BY <3>1, ChildrenAre
    <2>3. path \in Seq(STRING)
        <3> DEFINE property == tree[i].property
        <3>1. property \in STRING \cup {None} /\ none \in Seq(STRING)
            <4>1. property \in STRING \cup {None}
                BY ViolationsAssumption
            <4>2. none \in Seq(STRING)
                OBVIOUS
            <4> QED
                BY <4>1, <4>2
        <3>2. path = BuildValidationPath(none, property)
            BY DEF Item
        <3> HIDE DEF property, none, path
        <3> QED
            BY <3>1, <3>2, BuiltPath
    <2>4. \A n \in Nodes(tree) :
              n[1] = i <=> n = <<i, 0>> \/ \E j \in 1..Len(c) : n = <<i, j>>
        BY DEF Nodes
    <2>5. <<i, 0>> \in Nodes(tree) /\ \A j \in 1..Len(c) : <<i, j>> \in Nodes(tree)
        BY DEF Nodes
    <2>6. value[<<i, 0>>] = item /\ \A j \in 1..Len(c) : value[<<i, j>>] = Item(c, path, j)
        BY <2>5, NodePaths
    <2>7. ToldOf(item) \in Seq(Found)
        <3>1. tree[i].constraints
                  \in UNION { { list[j].constraints : j \in 1..Len(list) } : list \in Violations }
            OBVIOUS
        <3>2. item = [path |-> path, constraints |-> tree[i].constraints]
            BY DEF Item
        <3> HIDE DEF path
        <3>3. item \in Found
            BY <2>3, <3>1, <3>2 DEF Found
        <3> HIDE DEF item
        <3> QED
            BY <3>3 DEF ToldOf
    <2> HIDE DEF item, path, c
    <2>8. Enumerated(ToldOf(item), Itself, value)
        <3> DEFINE x == <<i, 0>>
        <3>1. value[x] = item
            BY <2>6
        <3> HIDE DEF x
        <3>2. Enumerated(ToldOf(item), { y \in {x} : Told(value[y]) }, value)
            BY <3>1, ListedOwn
        <3> QED
            BY <3>2 DEF x
    <2>9. Enumerated(g[c][path], Under, value)
        <3> DEFINE leaf == [j \in 1..Len(c) |-> Item(c, path, j)]
                   J == { j \in 1..Len(c) : Told(leaf[j]) }
                   f == [j \in 1..Len(c) |-> <<i, j>>]
        <3>1. \A j \in 1..Len(c) : leaf[j] = Item(c, path, j)
            OBVIOUS
        <3>2. \A j \in 1..Len(c) : f[j] = <<i, j>> /\ value[f[j]] = leaf[j]
            BY <2>6
        <3> HIDE DEF leaf, f
        <3>3. Enumerated(g[c][path], J, leaf)
            BY <2>2, <2>3, <3>1, ListedLeaves
        <3>4. \A j \in J : f[j] \in Under /\ value[f[j]] = leaf[j]
            BY <3>2
        <3>5. \A j, k \in J : f[j] = f[k] => j = k
            BY <3>2
        <3>6. \A n \in Under : \E j \in J : f[j] = n
            BY <3>2
        <3> HIDE DEF J, Under
        <3> QED
            BY <3>3, <3>4, <3>5, <3>6, ListedAs
    <2>10. Itself \cap Under = {}
        BY <2>2
    <2>11. Itself \cup Under = { n \in X : sort[n] = i }
        BY <2>4, <2>5
    <2>12. g[c][path] \in Seq(Found)
        BY <2>2, <2>3, FoundBelow
    <2> HIDE DEF Itself, Under, X, sort, parts
    <2>13. Enumerated(ToldOf(item) \o g[c][path], Itself \cup Under, value)
        BY <2>7, <2>8, <2>9, <2>10, <2>12, ListedBoth
    <2> QED
        BY <2>1, <2>11, <2>13
<1>3. \A n \in X : sort[n] \in 1..Len(parts)
    BY <1>1 DEF Nodes
<1> HIDE DEF X, parts, sort, l
<1>4. Enumerated(FlattenSeq(parts), X, value)
    BY <1>1, <1>2, <1>3, ListedAll
<1> QED
    BY <1>1, <1>4 DEF X

\* What each constraint of an item is filed as.
FilingOf(item, c) ==
    LET constraint == item.constraints[c]
    IN  Filing(item.path, GetI18nFailureCode(constraint.raw, Code("constraint", constraint.name)),
               Says("text", constraint.raw), "field")

Violated(tree, path) ==
    UNION { { <<n, c>> : c \in 1..Len(NodeAt(tree, n).constraints) } :
              n \in { m \in Nodes(tree) : PathOf(tree, m) = path } }

\* The filings of a list of items stand for their constraints.
ConstraintsOf(X, value) == UNION { { <<x, c>> : c \in 1..Len(value[x].constraints) } : x \in X }

FilingAt(X, value) == [y \in ConstraintsOf(X, value) |-> FilingOf(value[y[1]], y[2])]

FilingsOf(found) ==
    FlattenSeq([k \in 1..Len(found) |->
        [c \in 1..Len(found[k].constraints) |-> FilingOf(found[k], c)]])

Filings == { FilingOf(item, c) : item \in Found, c \in Nat }

LEMMA ListedFilings ==
    ASSUME NEW found \in Seq(Found), NEW X, NEW value, Enumerated(found, X, value)
    PROVE  /\ FilingsOf(found) \in Seq(Filings)
           /\ Enumerated(FilingsOf(found), ConstraintsOf(X, value), FilingAt(X, value))
<1> DEFINE l == Len(found)
           S == Filings
           Y == ConstraintsOf(X, value)
           filed == FilingAt(X, value)
           parts == [k \in 1..l |-> [c \in 1..Len(found[k].constraints) |-> FilingOf(found[k], c)]]
<1>1. PICK at : Enumerates(at, found, X, value)
    BY DEF Enumerated
<1>2. /\ l \in Nat
      /\ \A k \in 1..l : at[k] \in X /\ found[k] = value[at[k]] /\ found[k] \in Found
      /\ \A j, k \in 1..l : at[j] = at[k] => j = k
      /\ \A x \in X : \E k \in 1..l : at[k] = x
    BY <1>1 DEF Enumerates
<1>3. \A k \in 1..l : Len(found[k].constraints) \in Nat
    <2>1. \A f \in Found : Len(f.constraints) \in Nat
        BY ViolationsAssumption DEF Found
    <2> QED
        BY <1>2, <2>1
<1> HIDE DEF l
<1>4. \A k \in 1..l : parts[k] \in Seq(S)
    <2> SUFFICES ASSUME NEW k \in 1..l PROVE parts[k] \in Seq(S)
        OBVIOUS
    <2> DEFINE n == Len(found[k].constraints)
    <2>1. n \in Nat /\ parts[k] = [c \in 1..n |-> FilingOf(found[k], c)]
        BY <1>3
    <2> HIDE DEF n, parts
    <2>2. \A c \in 1..n : FilingOf(found[k], c) \in S
        BY <1>2, <2>1 DEF Filings
    <2> HIDE DEF S
    <2> QED
        BY <2>1, <2>2
<1>5. parts \in Seq(Seq(S)) /\ Len(parts) = l
    <2> HIDE DEF S
    <2> QED
        BY <1>2, <1>4
<1> DEFINE place == [y \in Y |-> CHOOSE k \in 1..l : at[k] = y[1]]
<1>6. \A y \in Y : y[1] \in X /\ y[2] \in 1..Len(value[y[1]].constraints) /\ y = <<y[1], y[2]>>
    BY DEF ConstraintsOf
<1>7. \A x \in X : \A c \in 1..Len(value[x].constraints) : <<x, c>> \in Y
    BY DEF ConstraintsOf
<1>8. \A y \in Y : place[y] \in 1..l /\ at[place[y]] = y[1]
    <2> SUFFICES ASSUME NEW y \in Y PROVE place[y] \in 1..l /\ at[place[y]] = y[1]
        OBVIOUS
    <2>1. \E k \in 1..l : at[k] = y[1]
        BY <1>2, <1>6
    <2>2. place[y] = CHOOSE k \in 1..l : at[k] = y[1]
        OBVIOUS
    <2> HIDE DEF place, Y
    <2> QED
        BY <2>1, <2>2
<1>9. \A y \in Y : filed[y] = FilingOf(value[y[1]], y[2])
    BY DEF FilingAt
<1> HIDE DEF Y, filed, place
<1>10. ASSUME NEW k \in 1..l
       PROVE  Enumerated(parts[k], { y \in Y : place[y] = k }, filed)
    <2> DEFINE n == Len(found[k].constraints)
               Mine == { y \in Y : place[y] = k }
               order == [c \in 1..n |-> <<at[k], c>>]
    <2>1. n \in Nat /\ n = Len(value[at[k]].constraints) /\ at[k] \in X /\ found[k] = value[at[k]]
        BY <1>2, <1>3
    <2>2. Len(parts[k]) = n /\ \A c \in 1..n : parts[k][c] = FilingOf(found[k], c)
        BY <2>1
    <2>3. \A c \in 1..n : order[c] = <<at[k], c>>
        OBVIOUS
    <2> HIDE DEF n, parts, order
    <2>4. \A c \in 1..n : <<at[k], c>> \in Y
        BY <1>7, <2>1
    <2>5. \A c \in 1..n : order[c] \in Mine
        <3> SUFFICES ASSUME NEW c \in 1..n PROVE order[c] \in Mine
            OBVIOUS
        <3>1. order[c] \in Y /\ order[c][1] = at[k]
            <4>1. order[c] = <<at[k], c>> /\ <<at[k], c>> \in Y
                BY <2>3, <2>4
            <4>2. <<at[k], c>>[1] = at[k]
                OBVIOUS
            <4> QED
                BY <4>1, <4>2
        <3>2. place[order[c]] \in 1..l /\ at[place[order[c]]] = at[k]
            BY <1>8, <3>1
        <3>3. place[order[c]] = k
            BY <1>2, <3>2
        <3> QED
            BY <3>1, <3>3
    <2>6. \A c \in 1..n : parts[k][c] = filed[order[c]]
        BY <1>9, <2>1, <2>2, <2>3, <2>4
    <2>7. \A b, c \in 1..n : order[b] = order[c] => b = c
        BY <2>3
    <2>8. \A y \in Mine : \E c \in 1..n : order[c] = y
        <3> SUFFICES ASSUME NEW y \in Mine PROVE \E c \in 1..n : order[c] = y
            OBVIOUS
        <3>1. y \in Y /\ at[k] = y[1]
            BY <1>8
        <3>2. y[2] \in 1..n /\ y = <<at[k], y[2]>>
            BY <1>6, <2>1, <3>1
        <3> QED
            BY <2>3, <3>2
    <2> HIDE DEF Mine
    <2>9. Enumerates(order, parts[k], Mine, filed)
        BY <2>2, <2>5, <2>6, <2>7, <2>8 DEF Enumerates
    <2>10. Enumerated(parts[k], Mine, filed)
        BY <2>9 DEF Enumerated
    <2> QED
        BY <2>10 DEF Mine
<1> HIDE DEF parts, S
<1>11. Enumerated(FlattenSeq(parts), Y, filed)
    BY <1>5, <1>8, <1>10, ListedAll
<1>12. FlattenSeq(parts) \in Seq(S)
    BY <1>5, FlattenSeqIs
<1> QED
    BY <1>11, <1>12 DEF Y, filed, parts, S, l, FilingsOf

\* The failures of a tree nested at most once are the constraints violated, by path.
LEMMA ViolationsFiled ==
    ASSUME NEW tree \in Violations, Depth[tree] <= 2
    PROVE  LET bag == BuildValidationErrors(tree)
           IN  /\ \A p \in DOMAIN bag : Len(bag[p].failures) = Cardinality(Violated(tree, p))
               /\ DOMAIN bag = { p \in { PathOf(tree, n) : n \in Nodes(tree) } \ {<<>>} :
                                   Violated(tree, p) # {} }
<1> DEFINE found == FlattenValidationErrors(tree, <<>>)
           value == [n \in Nodes(tree) |-> ItemAt(tree, n)]
           X == { n \in Nodes(tree) : Told(value[n]) }
           Y == ConstraintsOf(X, value)
           filed == FilingAt(X, value)
           list == FilingsOf(found)
           S == Filings
           bag == BuildValidationErrors(tree)
<1>1. bag = AppendFailures(list)
    BY DEF BuildValidationErrors, FilingsOf, FilingOf
<1>2. \A n \in Nodes(tree) : value[n] = ItemAt(tree, n)
    OBVIOUS
<1>3. found \in Seq(Found) /\ Enumerated(found, X, value)
    <2> HIDE DEF value
    <2>1. PICK g : Flat(g, Violations) /\ found = g[tree][<<>>]
        BY FlattenIs
    <2>2. Enumerated(g[tree][<<>>], X, value)
        BY <1>2, <2>1, ListedNodes
    <2>3. found \in Seq(Found)
        BY FlattenIs
    <2> QED
        BY <2>1, <2>2, <2>3
<1> HIDE DEF found, value, X, bag
<1>4. list \in Seq(S) /\ Enumerated(list, Y, filed)
    BY <1>3, ListedFilings
<1>5. \A x \in X : /\ x \in Nodes(tree)
                   /\ value[x].path = PathOf(tree, x)
                   /\ value[x].constraints = NodeAt(tree, x).constraints
                   /\ PathOf(tree, x) # <<>>
    <2> SUFFICES ASSUME NEW x \in X
                 PROVE  /\ x \in Nodes(tree)
                        /\ value[x].path = PathOf(tree, x)
                        /\ value[x].constraints = NodeAt(tree, x).constraints
                        /\ PathOf(tree, x) # <<>>
        OBVIOUS
    <2>1. x \in Nodes(tree) /\ Told(value[x])
        BY DEF X
    <2>2. value[x] = [path |-> PathOf(tree, x), constraints |-> NodeAt(tree, x).constraints]
        BY <1>2, <2>1 DEF ItemAt
    <2>3. value[x].path = PathOf(tree, x) /\ value[x].constraints = NodeAt(tree, x).constraints
        BY <2>2
    <2> QED
        BY <2>1, <2>3 DEF Told
<1>6. \A n \in Nodes(tree) :
          PathOf(tree, n) # <<>> /\ NodeAt(tree, n).constraints # <<>> => n \in X
    <2> SUFFICES ASSUME NEW n \in Nodes(tree), PathOf(tree, n) # <<>>,
                        NodeAt(tree, n).constraints # <<>>
                 PROVE  n \in X
        OBVIOUS
    <2>1. value[n] = [path |-> PathOf(tree, n), constraints |-> NodeAt(tree, n).constraints]
        BY <1>2 DEF ItemAt
    <2>2. value[n].path = PathOf(tree, n) /\ value[n].constraints = NodeAt(tree, n).constraints
        BY <2>1
    <2> QED
        BY <2>2 DEF Told, X
<1>7. \A y : y \in Y <=> \E x \in X : \E c \in 1..Len(NodeAt(tree, x).constraints) : y = <<x, c>>
    BY <1>5 DEF ConstraintsOf
<1>8. \A y \in Y : filed[y].path = PathOf(tree, y[1]) /\ y[1] \in X
    <2> SUFFICES ASSUME NEW y \in Y PROVE filed[y].path = PathOf(tree, y[1]) /\ y[1] \in X
        OBVIOUS
    <2>1. y[1] \in X
        BY DEF ConstraintsOf
    <2>2. filed[y] = FilingOf(value[y[1]], y[2])
        BY DEF FilingAt
    <2> HIDE DEF filed, Y
    <2>3. filed[y].path = value[y[1]].path
        BY <2>2 DEF FilingOf, Filing
    <2> QED
        BY <1>5, <2>1, <2>3
<1> HIDE DEF filed, Y, list, S
<1>9. ASSUME NEW p, p # <<>>
      PROVE  { y \in Y : filed[y].path = p } = Violated(tree, p)
    <2>1. ASSUME NEW n \in Nodes(tree), PathOf(tree, n) = p,
                 NEW c \in 1..Len(NodeAt(tree, n).constraints)
          PROVE  <<n, c>> \in Y /\ filed[<<n, c>>].path = p
        <3>1. NodeAt(tree, n).constraints # <<>>
            <4>1. Len(<<>>) = 0
                OBVIOUS
            <4> QED
                BY <2>1, <4>1
        <3>2. n \in X
            BY <1>6, <1>9, <2>1, <3>1
        <3>3. <<n, c>> \in Y
            BY <1>7, <3>2
        <3>4. filed[<<n, c>>].path = PathOf(tree, <<n, c>>[1])
            BY <1>8, <3>3
        <3>5. <<n, c>>[1] = n
            OBVIOUS
        <3> QED
            BY <2>1, <3>3, <3>4, <3>5
    <2>2. ASSUME NEW y \in Y, filed[y].path = p
          PROVE  y \in Violated(tree, p)
        <3>1. PICK x \in X : \E c \in 1..Len(NodeAt(tree, x).constraints) : y = <<x, c>>
            BY <1>7
        <3>2. y[1] = x
            BY <3>1
        <3>3. x \in Nodes(tree) /\ PathOf(tree, x) = p
            BY <1>5, <1>8, <2>2, <3>1, <3>2
        <3> QED
            BY <3>1, <3>3 DEF Violated
    <2>3. \A y : y \in Violated(tree, p) <=>
                     \E n \in Nodes(tree) : \E c \in 1..Len(NodeAt(tree, n).constraints) :
                         PathOf(tree, n) = p /\ y = <<n, c>>
        BY DEF Violated
    <2>4. \A y \in Violated(tree, p) : y \in Y /\ filed[y].path = p
        BY <2>1, <2>3
    <2> QED
        BY <2>2, <2>4
<1>10. /\ { list[k].path : k \in 1..Len(list) } = { filed[y].path : y \in Y }
       /\ \A p : Cardinality(At(list, Len(list), p)) = Cardinality({ y \in Y : filed[y].path = p })
    <2>1. Counted(list, Y, filed)
        BY <1>4, ListedCounts
    <2> QED
        BY <2>1 DEF Counted
<1>11. \A k \in 1..Len(list) : list[k].path # <<>>
    <2>1. \A y \in Y : filed[y].path # <<>>
        BY <1>5, <1>8
    <2> QED
        BY <1>10, <2>1
<1>12. /\ DOMAIN bag = { list[k].path : k \in 1..Len(list) }
       /\ \A p \in DOMAIN bag : Len(bag[p].failures) = Cardinality(At(list, Len(list), p))
    BY <1>1, <1>4, <1>11, BagCounts
<1>13. \A p \in DOMAIN bag : p # <<>>
    BY <1>11, <1>12
<1>14. \A p \in DOMAIN bag : Len(bag[p].failures) = Cardinality(Violated(tree, p))
    BY <1>9, <1>10, <1>12, <1>13
<1>15. DOMAIN bag = { p \in { PathOf(tree, n) : n \in Nodes(tree) } \ {<<>>} :
                        Violated(tree, p) # {} }
    <2>1. ASSUME NEW p \in DOMAIN bag
          PROVE  /\ p \in { PathOf(tree, n) : n \in Nodes(tree) }
                 /\ p # <<>> /\ Violated(tree, p) # {}
        <3>1. PICK y \in Y : filed[y].path = p
            BY <1>10, <1>12
        <3>2. p # <<>>
            BY <1>13
        <3>3. y \in Violated(tree, p)
            BY <1>9, <3>1, <3>2
        <3>4. p = PathOf(tree, y[1]) /\ y[1] \in Nodes(tree)
            BY <1>5, <1>8, <3>1
        <3> QED
            BY <3>2, <3>3, <3>4
    <2>2. ASSUME NEW p, p # <<>>, Violated(tree, p) # {}
          PROVE  p \in DOMAIN bag
        <3>1. PICK y \in Y : filed[y].path = p
            BY <1>9, <2>2
        <3> QED
            BY <1>10, <1>12, <3>1
    <2> QED
        BY <2>1, <2>2
<1> QED
    BY <1>14, <1>15 DEF bag

LEMMA ExplainingReports == Explaining => FieldsReported
<1> DEFINE tree == thrown.errors.list
           errors == answer.document.errors
           bag == BuildValidationErrors(tree)
           paths == { path \in { PathOf(tree, n) : n \in Nodes(tree) } \ {<<>>} :
                        Violated(tree, path) # {} }
<1>1. SUFFICES ASSUME Explaining, pc = "answered", answer.is = "error", thrown.errors.kind = "tree"
               PROVE  /\ paths # {} => DOMAIN errors = paths
                      /\ \A path \in paths :
                             Len(errors[path].failures) = Cardinality(Violated(tree, path))
    BY DEF FieldsReported, Violated
<1>2. Throwable(thrown) /\ answer.document = NormalizeException(thrown)
    BY <1>1 DEF Explaining
<1>3. tree \in Violations /\ Depth[tree] <= 2 /\ thrown.class \in {"http", "i18nValidation"}
    BY <1>1, <1>2 DEF Throwable
<1>4. errors = BuildValidationErrorsOrGeneral(tree)
    <2>1. CASE thrown.class = "http"
        BY <1>1, <1>2, <2>1 DEF NormalizeException, NormalizeHttpException, Document
    <2>2. CASE thrown.class = "i18nValidation"
        BY <1>2, <2>2 DEF NormalizeException, Document
    <2> QED
        BY <1>3, <2>1, <2>2
<1> HIDE DEF tree, errors
<1>5. DOMAIN bag = paths
    BY <1>3, ViolationsFiled
<1>6. \A p \in DOMAIN bag : Len(bag[p].failures) = Cardinality(Violated(tree, p))
    BY <1>3, ViolationsFiled
<1>7. paths # {} => errors = bag
    <2> HIDE DEF bag, paths
    <2>1. paths # {} => HasApiErrors(bag)
        BY <1>5 DEF HasApiErrors
    <2> QED
        BY <1>4, <2>1 DEF BuildValidationErrorsOrGeneral, bag
<1> HIDE DEF bag, paths
<1> QED
    BY <1>5, <1>6, <1>7

\* A request refused for its input is told all of its violations and no more: the
\* paths of the answer are those of the fields that violate a constraint, and at each
\* there are as many failures as constraints violated, however many fields, errors and
\* constraints there are, for input that is nested no deeper than the DTOs.
THEOREM FieldsAlwaysReported == Spec => []FieldsReported
<1>1. Spec => []Explaining
    BY ExplainingInit, ExplainingStep, PTL DEF Spec
<1> QED
    BY <1>1, ExplainingReports, PTL

-----------------------------------------------------------------------------
(* Walks along pages: URLs.                                                *)

\* A URL of a walk is its path and its query.
LEMMA UrlIs ==
    ASSUME NEW u \in Url
    PROVE  /\ u = [path |-> u.path, query |-> u.query]
           /\ u.path \in Path /\ u.query \in Query
BY DEF Url

\* Adding a parameter leaves the others alone.
LEMMA WithIs ==
    ASSUME NEW q \in Query, NEW k \in {"page", "limit"}, NEW v \in Nat
    PROVE  /\ With(q, k, v) \in Query
           /\ Asked(With(q, k, v), k) = v
           /\ \A j \in {"page", "limit", "deleted", "sortOrder"} \ {k} :
                  Asked(With(q, k, v), j) = Asked(q, j)
<1> DEFINE w == With(q, k, v)
           V == Nat \cup Scope \cup {"ASC"}
           K == {"page", "limit", "deleted", "sortOrder"}
<1>1. PICK D \in SUBSET K : q \in [D -> V]
    BY DEF Query
<1>2. w = [j \in D \cup {k} |-> IF j = k THEN v ELSE q[j]]
    BY <1>1 DEF With
<1>3. w \in [D \cup {k} -> V] /\ D \cup {k} \in SUBSET K
    BY <1>1, <1>2
<1>4. /\ \A j \in DOMAIN w \cap {"page", "limit"} : w[j] \in Nat
      /\ "deleted" \in DOMAIN w => w["deleted"] \in Scope
    BY <1>1, <1>2 DEF Query
<1>5. w \in Query
    BY <1>3, <1>4 DEF Query
<1> QED
    BY <1>1, <1>2, <1>5 DEF Asked

\* What a query asks for.
LEMMA AskedIs ==
    ASSUME NEW q \in Query
    PROVE  /\ Asked(q, "page") \in Nat \cup {None} /\ Asked(q, "limit") \in Nat \cup {None}
           /\ Asked(q, "deleted") \in Scope \cup {None}
           /\ Page(q) \in Nat \ {0} /\ PageSize(q) \in Nat \ {0} /\ PageSize(q) <= MaxLimit
           /\ Offset(q) \in Nat
<1>1. /\ Asked(q, "page") \in Nat \cup {None} /\ Asked(q, "limit") \in Nat \cup {None}
      /\ Asked(q, "deleted") \in Scope \cup {None}
    BY DEF Query, Asked
<1>2. Page(q) \in Nat \ {0}
    BY <1>1, NullAssumption DEF Page, PositiveIntegerOrDefault
<1>3. PageSize(q) \in Nat \ {0} /\ PageSize(q) <= MaxLimit
    BY <1>1, NullAssumption, LimitAssumption DEF PageSize, PositiveIntegerOrDefault, Min2
<1>4. Offset(q) \in Nat
    <2>1. Page(q) - 1 \in Nat
        BY <1>2
    <2> QED
        BY <1>3, <2>1 DEF Offset
<1> QED
    BY <1>1, <1>2, <1>3, <1>4

\* The URL of a page.
LEMMA UrlOfPage ==
    ASSUME NEW u \in Url, NEW p \in Nat \ {0}, NEW l \in Nat \ {0}, l <= MaxLimit
    PROVE  LET v == BuildPageUrl(u, p, l) IN
           /\ v \in Url /\ v # None /\ v.path = u.path
           /\ Page(v.query) = p /\ PageSize(v.query) = l
           /\ Asked(v.query, "deleted") = Asked(u.query, "deleted")
           /\ Asked(v.query, "sortOrder") = Asked(u.query, "sortOrder")
<1> DEFINE w == With(u.query, "page", p)
           x == With(w, "limit", l)
           v == BuildPageUrl(u, p, l)
<1>1. u = [path |-> u.path, query |-> u.query] /\ u.path \in Path /\ u.query \in Query
    BY UrlIs
<1>2. /\ w \in Query /\ Asked(w, "page") = p
      /\ Asked(w, "deleted") = Asked(u.query, "deleted")
      /\ Asked(w, "sortOrder") = Asked(u.query, "sortOrder")
    BY <1>1, WithIs
<1> HIDE DEF w
<1>3. /\ x \in Query /\ Asked(x, "page") = p /\ Asked(x, "limit") = l
      /\ Asked(x, "deleted") = Asked(u.query, "deleted")
      /\ Asked(x, "sortOrder") = Asked(u.query, "sortOrder")
    BY <1>1, <1>2, WithIs
<1> HIDE DEF x
<1>4. v = [path |-> u.path, query |-> x]
    BY <1>1 DEF BuildPageUrl, w, x
<1>5. v \in Url
    BY <1>1, <1>3, <1>4 DEF Url
<1>6. Page(x) = p /\ PageSize(x) = l
    BY <1>1, <1>3, NullAssumption, LimitAssumption DEF Page, PageSize, PositiveIntegerOrDefault, Min2
<1> QED
    BY <1>3, <1>4, <1>5, <1>6, NullAssumption

LEMMA AppendTwo ==
    ASSUME NEW S, NEW s \in Seq(S), Len(s) = 1, NEW c \in S
    PROVE  /\ Append(s, c) \in Seq(S) /\ Len(Append(s, c)) = 2
           /\ Append(s, c)[1] = s[1] /\ Append(s, c)[2] = c
BY AppendProperties

\* The collection that an answer about pages or links is about.
LEMMA CollectionUrl ==
    ASSUME NEW u \in Url, u.path # Collection
    PROVE  LET v == BuildCollectionPath(u) IN
           /\ v \in Url /\ v.path = Collection
           /\ Asked(v.query, "deleted") = Asked(u.query, "deleted")
           /\ Asked(v.query, "sortOrder") = Asked(u.query, "sortOrder")
<1> DEFINE q == u.query
           w == Without(q, {"page", "limit"})
           V == Nat \cup Scope \cup {"ASC"}
           K == {"page", "limit", "deleted", "sortOrder"}
<1>1. u.path \in Path /\ q \in Query
    BY UrlIs
<1>2. PICK D \in SUBSET K : q \in [D -> V]
    BY <1>1 DEF Query
<1>3. w = [j \in D \ {"page", "limit"} |-> q[j]]
    BY <1>2 DEF Without
<1>4. w \in [D \ {"page", "limit"} -> V] /\ D \ {"page", "limit"} \in SUBSET K
    BY <1>2, <1>3
<1>5. w \in Query
    <2>1. /\ \A k \in DOMAIN w \cap {"page", "limit"} : w[k] \in Nat
          /\ "deleted" \in DOMAIN w => w["deleted"] \in Scope
        BY <1>1, <1>2, <1>3 DEF Query
    <2> QED
        BY <1>4, <2>1 DEF Query
<1>6. /\ Asked(w, "deleted") = Asked(q, "deleted")
      /\ Asked(w, "sortOrder") = Asked(q, "sortOrder")
    BY <1>2, <1>3 DEF Asked
<1>7. RemoveCollectionControlSegment(u.path) = Collection
    <2>1. ASSUME NEW c \in {"pagination", "hateoas"}
          PROVE  RemoveCollectionControlSegment(Append(Collection, c)) = Collection
        <3> DEFINE p == Append(Collection, c)
        <3> DEFINE S == {"users", c}
        <3>1. Collection \in Seq(S) /\ Len(Collection) = 1 /\ Collection[1] = "users"
            <4>1. ASSUME NEW x \in S
                  PROVE  << x >> \in Seq(S) /\ Len(<< x >>) = 1 /\ << x >>[1] = x
                OBVIOUS
            <4> HIDE DEF S
            <4>2. "users" \in S
                BY DEF S
            <4> QED
                BY <4>1, <4>2, Zenon DEF Collection
        <3>2. /\ p \in Seq(S) /\ Len(p) = 2 /\ p[1] = "users" /\ p[2] = c
            <4>1. c \in S
                OBVIOUS
            <4> HIDE DEF S
            <4> QED
                BY <3>1, <4>1, AppendTwo
        <3> HIDE DEF p, S
        <3>3. SubSeq(p, 1, 1) = Collection
            <4>1. \A i \in 1 .. 1 : p[i] \in S
                BY <3>2, ElementOfSeq
            <4>2. /\ SubSeq(p, 1, 1) \in Seq(S) /\ Len(SubSeq(p, 1, 1)) = 1
                  /\ SubSeq(p, 1, 1)[1] = "users"
                BY <3>2, <4>1, SubSeqProperties
            <4> QED
                BY <3>1, <4>2, SeqEqual
        <3>4. p # <<>> /\ c \in Control
            BY <3>2, EmptySeq DEF Control
        <3> QED
            BY <3>2, <3>3, <3>4 DEF RemoveCollectionControlSegment, p
    <2> QED
        BY <1>1, <2>1 DEF Path
<1>8. BuildCollectionPath(u) = [path |-> Collection, query |-> w]
    BY <1>7 DEF BuildCollectionPath
<1> QED
    BY <1>5, <1>6, <1>8 DEF Url, Path

\* The number of pages is enough for the rows.
LEMMA MetaIs ==
    ASSUME NEW q \in Query, NEW n \in Nat
    PROVE  LET meta == BuildMeta(q, n) IN
           /\ meta \in [currentPage : Nat, totalPages : Nat, pageSize : Nat]
           /\ meta.currentPage = Page(q) /\ meta.pageSize = PageSize(q)
           /\ meta.totalPages \in Nat \ {0}
           /\ meta.totalPages <= Page(q) => n <= Offset(q) + PageSize(q)
<1> DEFINE l == PageSize(q)
           p == Page(q)
           t == (n + l - 1) \div l
<1>1. l \in Nat \ {0} /\ p \in Nat \ {0}
    BY AskedIs
<1> HIDE DEF l, p
<1>2. t \in Int /\ l * t <= n + l - 1 /\ n + l - 1 < l * t + l
    <2> DEFINE a == n + l - 1
    <2>1. a \in Nat
        BY <1>1
    <2> HIDE DEF a
    <2>2. a \div l \in Int /\ l * (a \div l) <= a /\ a < l * (a \div l) + l
        BY <1>1, <2>1
    <2> QED
        BY <2>2 DEF a
<1> HIDE DEF t
<1>3. n # 0 => t \in Nat \ {0}
    <2> SUFFICES ASSUME n # 0, t <= 0
                 PROVE  FALSE
        BY <1>2
    <2>1. l * t <= 0
        BY <1>1, <1>2
    <2> QED
        BY <1>1, <1>2, <2>1
<1>4. n # 0 /\ t <= p => n <= (p - 1) * l + l
    <2> SUFFICES ASSUME t <= p
                 PROVE  n <= (p - 1) * l + l
        OBVIOUS
    <2>1. l * t <= l * p
        BY <1>1, <1>2
    <2>2. (p - 1) * l + l = l * p
        BY <1>1
    <2>3. n < l * t + 1 /\ l * t \in Int /\ l * p \in Int
        BY <1>1, <1>2
    <2> QED
        BY <2>1, <2>2, <2>3
<1>5. Offset(q) = (p - 1) * l /\ Offset(q) \in Nat
    BY AskedIs DEF Offset, p, l
<1>6. BuildMeta(q, n) = [currentPage |-> p, totalPages |-> IF n = 0 THEN 1 ELSE t, pageSize |-> l]
    BY DEF BuildMeta, p, l, t
<1> QED
    BY <1>1, <1>3, <1>4, <1>5, <1>6 DEF p, l

\* The answer about a page links to the next one, if there are more pages.
LEMMA NextLink ==
    ASSUME NEW u \in Url, NEW n \in Nat, NEW data
    PROVE  LET meta == BuildMeta(u.query, n)
               hidden == [NoExtras EXCEPT !.pagination = [meta |-> meta, links |-> None]]
               list == CreateSuccess(u, None, Payload("none", data, NoExtras, hidden))
           IN  IF meta.currentPage < meta.totalPages
               THEN /\ "next" \in DOMAIN list.links
                    /\ list.links["next"] = BuildPageUrl(u, Page(u.query) + 1, PageSize(u.query))
               ELSE "next" \notin DOMAIN list.links
<1> DEFINE meta == BuildMeta(u.query, n)
           none == [meta |-> meta, links |-> None]
           hidden == [NoExtras EXCEPT !.pagination = none]
           sent == Payload("none", data, NoExtras, hidden)
           page == PageLinks(u, meta)
           list == CreateSuccess(u, None, sent)
           next == BuildPageUrl(u, Page(u.query) + 1, PageSize(u.query))
<1>1. /\ meta \in [currentPage : Nat, totalPages : Nat, pageSize : Nat]
      /\ meta.currentPage = Page(u.query) /\ meta.pageSize = PageSize(u.query)
      /\ meta.totalPages \in Nat \ {0}
      /\ u \in Url /\ u.query \in Query /\ Page(u.query) \in Nat \ {0}
    BY UrlIs, MetaIs, AskedIs
<1>2. none \in Pagination /\ none # None
    BY <1>1, NullAssumption DEF Pagination
<1>3. /\ page.next = IF meta.currentPage < meta.totalPages THEN next ELSE None
      /\ DOMAIN page = {"previous", "next", "first", "last"}
      /\ page \in [previous : Link, next : Link, first : Link, last : Link]
    <2>1. \A p \in Nat \ {0} : BuildPageUrl(u, p, PageSize(u.query)) \in Url
        BY <1>1, UrlOfPage, AskedIs
    <2>2. meta.currentPage > 1 => meta.currentPage - 1 \in Nat \ {0}
        BY <1>1
    <2> HIDE DEF meta
    <2> QED
        BY <1>1, <2>1, <2>2 DEF PageLinks, Link
<1>4. next # None
    BY <1>1, UrlOfPage, AskedIs
<1> HIDE DEF meta, next
<1>5. list.links = Over(<<>>, With(Present(page), "self", u))
    <2>1. hidden = [pagination |-> none, limits |-> None, links |-> None]
        BY DEF NoExtras
    <2>2. NormalizeSuccessPayload(sent) = [data |-> data, extras |-> hidden]
        BY DEF NormalizeSuccessPayload, Payload
    <2> DEFINE extras == [hidden EXCEPT !.limits = Or(@, None)]
               pagination == IF extras.pagination = None THEN None
                             ELSE EnsurePaginationLinks(extras.pagination, u)
    <2>3. extras.pagination = none /\ extras.links = None
        BY <2>1
    <2>4. pagination = [meta |-> meta, links |-> page]
        BY <1>2, <2>3 DEF EnsurePaginationLinks, Or
    <2>5. pagination # None /\ pagination.links = page
        <3>1. pagination \in Pagination
            BY <1>1, <1>3, <2>4 DEF Pagination
        <3> QED
            BY <2>4, <3>1, NullAssumption
    <2>6. list.links = Over(Or(extras.links, <<>>), BuildTopLevelLinks(u, pagination))
        <3> HIDE DEF sent, hidden
        <3>1. [data |-> data, extras |-> hidden].extras = hidden
            OBVIOUS
        <3> QED
            BY <2>2, <3>1 DEF CreateSuccess
    <2> HIDE DEF pagination, extras
    <2> QED
        BY <2>3, <2>5, <2>6 DEF Or, BuildTopLevelLinks
<1> HIDE DEF list, page
<1> DEFINE there == With(Present(page), "self", u)
<1>6. /\ "next" \in DOMAIN there <=> page["next"] # None
      /\ "next" \in DOMAIN there => there["next"] = page["next"]
    BY <1>3 DEF With, Present
<1> HIDE DEF there
<1>7. /\ "next" \in DOMAIN Over(<<>>, there) <=> "next" \in DOMAIN there
      /\ "next" \in DOMAIN there => Over(<<>>, there)["next"] = there["next"]
    <2>1. "next" \notin DOMAIN <<>>
        OBVIOUS
    <2> QED
        BY <2>1 DEF Over
<1> QED
    BY <1>1, <1>3, <1>4, <1>5, <1>6, <1>7 DEF list, meta, next, page, there

\* The answer about pages or links leads to the first page of the collection.
LEMMA FirstLink ==
    ASSUME NEW u \in Url, u.path # Collection, NEW n \in Nat
    PROVE  LET meta == BuildMeta(u.query, n)
               about == IF Last(u.path) = "pagination"
                        THEN BuildCollectionPagination(u, meta).links
                        ELSE BuildCollectionHateoas(u, meta)
               v == about["first"]
           IN  /\ v \in Url /\ v # None /\ v.path = Collection
               /\ Page(v.query) = 1
               /\ Asked(v.query, "deleted") = Asked(u.query, "deleted")
               /\ Asked(v.query, "sortOrder") = Asked(u.query, "sortOrder")
<1> DEFINE meta == BuildMeta(u.query, n)
           base == BuildCollectionPath(u)
           page == PageLinks(base, meta)
           v == BuildPageUrl(base, 1, meta.pageSize)
<1>1. /\ meta.pageSize = PageSize(u.query) /\ u.query \in Query
      /\ PageSize(u.query) \in Nat \ {0} /\ PageSize(u.query) <= MaxLimit
    BY UrlIs, MetaIs, AskedIs
<1>2. /\ base \in Url /\ base.path = Collection
      /\ Asked(base.query, "deleted") = Asked(u.query, "deleted")
      /\ Asked(base.query, "sortOrder") = Asked(u.query, "sortOrder")
    BY CollectionUrl
<1> HIDE DEF base, meta
<1>3. /\ v \in Url /\ v # None /\ v.path = Collection /\ Page(v.query) = 1
      /\ Asked(v.query, "deleted") = Asked(u.query, "deleted")
      /\ Asked(v.query, "sortOrder") = Asked(u.query, "sortOrder")
    BY <1>1, <1>2, UrlOfPage
<1> HIDE DEF v
<1>4. page.first = v /\ DOMAIN page = {"previous", "next", "first", "last"}
    BY DEF PageLinks, v
<1>5. BuildCollectionPagination(u, meta).links = page
    BY DEF BuildCollectionPagination, base
<1>6. BuildCollectionHateoas(u, meta) = With(Present(page), "self", base)
    BY <1>5 DEF BuildCollectionHateoas, BuildCollectionLinks, base
<1> HIDE DEF page
<1>7. With(Present(page), "self", base)["first"] = v
    BY <1>3, <1>4 DEF With, Present
<1> QED
    BY <1>3, <1>4, <1>5, <1>6, <1>7 DEF meta

\* A walk begins on the first page.
LEMMA StartIs ==
    ASSUME NEW u \in Start
    PROVE  u \in Url /\ Page(u.query) = 1
<1>1. PICK p \in Path, asked \in [limit : Limit, deleted : (Scope \ {"active"}) \cup {None},
                                  sortOrder : {"ASC", None}] :
          u = [path |-> p, query |-> Given(asked)]
    BY DEF Start
<1> DEFINE D == { q \in DOMAIN asked : asked[q] # None }
           q == [k \in D |-> asked[k]]
<1>2. /\ D \subseteq {"limit", "deleted", "sortOrder"}
      /\ \A k \in D : q[k] \in Nat \cup Scope \cup {"ASC"}
      /\ "limit" \in D => q["limit"] \in Nat
      /\ "deleted" \in D => q["deleted"] \in Scope
    BY <1>1, LimitAssumption
<1> HIDE DEF D
<1>3. q \in [D -> Nat \cup Scope \cup {"ASC"}] /\ D \in SUBSET {"page", "limit", "deleted", "sortOrder"}
    BY <1>2
<1>4. /\ \A k \in DOMAIN q \cap {"page", "limit"} : q[k] \in Nat
      /\ "deleted" \in DOMAIN q => q["deleted"] \in Scope
    BY <1>2
<1>5. q \in Query
    BY <1>3, <1>4 DEF Query
<1>6. Page(q) = 1
    BY <1>2 DEF Page, Asked, PositiveIntegerOrDefault
<1> QED
    BY <1>1, <1>5, <1>6 DEF Url, Given, D

-----------------------------------------------------------------------------
(* Places.  A user's place in a list is the number of users before.        *)

Ahead(q, i) == { k \in Listed(q) : Before(q, k, i) }
Place(q, i) == Cardinality(Ahead(q, i))

TableOK == rows \in [Id -> Key \cup {None}] /\ deleted \subseteq Id

\* Sets of users are finite.
LEMMA UsersFinite == \A S : S \subseteq Id => IsFiniteSet(S) /\ Cardinality(S) \in Nat
BY IdAssumption, FS_Subset, FS_CardinalityType

\* Two queries with the same parameters, pages apart, have the same list.
LEMMA SameList ==
    ASSUME NEW q, NEW r, Asked(r, "deleted") = Asked(q, "deleted"),
           Asked(r, "sortOrder") = Asked(q, "sortOrder")
    PROVE  /\ Listed(r) = Listed(q)
           /\ \A i, j : Before(r, i, j) <=> Before(q, i, j)
           /\ \A i : Place(r, i) = Place(q, i)
<1>1. Listed(r) = Listed(q)
    BY DEF Listed
<1>2. \A i, j : Before(r, i, j) <=> Before(q, i, j)
    BY DEF Before
<1>3. ASSUME NEW i PROVE Ahead(r, i) = Ahead(q, i)
    BY <1>1, <1>2 DEF Ahead
<1> QED
    BY <1>1, <1>2, <1>3 DEF Place

\* Users are in order, by key and then by id.
LEMMA Ordered ==
    ASSUME TableOK, NEW q
    PROVE  /\ Listed(q) \subseteq Id
           /\ \A i \in Listed(q) : rows[i] \in Nat /\ i \in Nat /\ ~Before(q, i, i)
           /\ \A i, j \in Listed(q) : i # j => (Before(q, i, j) <=> ~Before(q, j, i))
           /\ \A i, j, k \in Listed(q) : Before(q, i, j) /\ Before(q, j, k) => Before(q, i, k)
<1>1. Listed(q) \subseteq Id /\ \A i \in Listed(q) : rows[i] # None
    BY DEF Listed
<1>2. \A i \in Listed(q) : rows[i] \in Nat /\ i \in Nat
    BY <1>1, IdAssumption DEF TableOK
<1> QED
    BY <1>1, <1>2 DEF Before

\* No two users have the same place.
LEMMA PlacesDiffer ==
    ASSUME TableOK, NEW q, NEW i \in Listed(q)
    PROVE  /\ Place(q, i) \in Nat
           /\ Place(q, i) < Cardinality(Listed(q))
           /\ \A j \in Listed(q) : Before(q, i, j) => Place(q, i) < Place(q, j)
           /\ \A j \in Listed(q) : Place(q, i) = Place(q, j) => i = j
<1>1. \A S : S \subseteq Listed(q) => IsFiniteSet(S) /\ Cardinality(S) \in Nat
    BY Ordered, UsersFinite
<1>2. ASSUME NEW S, NEW T, T \subseteq S, S \subseteq Listed(q), NEW x \in S \ T
      PROVE  Cardinality(T) < Cardinality(S)
    <2>1. IsFiniteSet(S) /\ T \in SUBSET S /\ S # T
        BY <1>1, <1>2
    <2>2. Cardinality(T) <= Cardinality(S) /\ Cardinality(S) # Cardinality(T)
        BY <2>1, FS_Subset
    <2> QED
        BY <1>1, <1>2, <2>2
<1>3. Ahead(q, i) \subseteq Listed(q) /\ i \notin Ahead(q, i)
    BY Ordered DEF Ahead
<1>4. Place(q, i) \in Nat /\ Place(q, i) < Cardinality(Listed(q))
    BY <1>1, <1>2, <1>3 DEF Place
<1>5. ASSUME NEW a \in Listed(q), NEW b \in Listed(q), Before(q, a, b)
      PROVE  Place(q, a) < Place(q, b)
    <2>1. Ahead(q, a) \subseteq Ahead(q, b) /\ Ahead(q, b) \subseteq Listed(q)
        BY <1>5, Ordered DEF Ahead
    <2>2. a \in Ahead(q, b) \ Ahead(q, a)
        BY <1>5, Ordered DEF Ahead
    <2> QED
        BY <1>2, <2>1, <2>2 DEF Place
<1>6. ASSUME NEW j \in Listed(q), Place(q, i) = Place(q, j)
      PROVE  i = j
    <2>1. Place(q, j) \in Nat
        BY <1>1 DEF Place, Ahead
    <2>2. ~Before(q, i, j) /\ ~Before(q, j, i)
        BY <1>4, <1>5, <1>6, <2>1
    <2> QED
        BY <2>2, Ordered
<1> QED
    BY <1>4, <1>5, <1>6

\* What PostgreSQL returns holds each user once.
LEMMA OrderIs ==
    ASSUME NEW q, NEW U, U \subseteq Id, NEW s \in Orders(q, U)
    PROVE  /\ s \in Seq(U) /\ Len(s) = Cardinality(U) /\ Len(s) \in Nat
           /\ \A m, n \in 1 .. Len(s) : m # n => s[m] # s[n]
           /\ ToSet(s) = U
           /\ \A m, n \in 1 .. Len(s) : Before(q, s[m], s[n]) => m < n
<1> DEFINE c == Cardinality(U)
           D == 1 .. c
<1>1. IsFiniteSet(U) /\ c \in Nat
    BY UsersFinite
<1>2. /\ s \in [D -> U] /\ \A m, n \in D : m # n => s[m] # s[n]
      /\ \A m, n \in 1 .. Len(s) : Before(q, s[m], s[n]) => m < n
    BY DEF Orders, SetToSeqs
<1> HIDE DEF c
<1>3. s \in Seq(U) /\ Len(s) = c
    BY <1>1, <1>2
<1>4. ToSet(s) = U
    <2>1. IsFiniteSet(D) /\ Cardinality(D) = c
        BY <1>1, FS_Interval
    <2>2. s \in Injection(D, U)
        BY <1>2 DEF Injection, IsInjective
    <2>3. s \in Surjection(D, U)
        BY <1>1, <2>1, <2>2, FS_Injection DEF c
    <2> QED
        BY <1>2, <2>3 DEF Surjection, ToSet
<1> QED
    BY <1>1, <1>2, <1>3, <1>4 DEF c

\* The n-th user has n - 1 before.
LEMMA Position ==
    ASSUME TableOK, NEW q, NEW s \in Orders(q, Listed(q)), NEW n \in 1 .. Len(s)
    PROVE  s[n] \in Listed(q) /\ Place(q, s[n]) = n - 1
<1> DEFINE A == Ahead(q, s[n])
           D == 1 .. n - 1
           f == [m \in D |-> s[m]]
<1>1. /\ s \in Seq(Listed(q)) /\ Len(s) \in Nat /\ ToSet(s) = Listed(q)
      /\ \A m, k \in 1 .. Len(s) : m # k => s[m] # s[k]
      /\ \A m, k \in 1 .. Len(s) : Before(q, s[m], s[k]) => m < k
      /\ Listed(q) \subseteq Id
    BY Ordered, OrderIs
<1>2. \A m \in 1 .. Len(s) : s[m] \in Listed(q)
    BY <1>1, ElementOfSeq
<1>3. ASSUME NEW m \in 1 .. Len(s)
      PROVE  s[m] \in A <=> m \in D
    <2>1. CASE m = n
        BY <1>2, <2>1, Ordered DEF Ahead
    <2>2. CASE m # n
        <3>1. Before(q, s[m], s[n]) <=> ~Before(q, s[n], s[m])
            BY <1>1, <1>2, <2>2, Ordered
        <3> QED
            BY <1>1, <1>2, <2>2, <3>1 DEF Ahead
    <2> QED
        BY <2>1, <2>2
<1>4. D \subseteq 1 .. Len(s)
    BY <1>1
<1>5. \A x \in A : \E m \in D : x = s[m]
    <2> SUFFICES ASSUME NEW x \in A
                 PROVE  \E m \in D : x = s[m]
        OBVIOUS
    <2>1. x \in ToSet(s)
        BY <1>1 DEF Ahead
    <2>2. PICK m \in 1 .. Len(s) : x = s[m]
        BY <1>1, <2>1 DEF ToSet
    <2> QED
        BY <1>3, <2>2
<1> HIDE DEF A
<1>6. f \in Bijection(D, A)
    <2>1. f \in [D -> A]
        BY <1>3, <1>4
    <2>2. \A m, k \in D : m # k => f[m] # f[k]
        BY <1>1, <1>4
    <2>3. \A x \in A : \E m \in D : f[m] = x
        BY <1>5
    <2> HIDE DEF f, D
    <2> QED
        BY <2>1, <2>2, <2>3 DEF Bijection, Injection, Surjection, IsInjective
<1>7. Cardinality(A) = n - 1
    <2>1. IsFiniteSet(D) /\ Cardinality(D) = n - 1
        <3>1. n - 1 \in Nat
            BY <1>1
        <3>2. IsFiniteSet(D) /\ Cardinality(D) = IF 1 > n - 1 THEN 0 ELSE n - 1 - 1 + 1
            BY <3>1, FS_Interval
        <3> HIDE DEF D
        <3> QED
            BY <3>1, <3>2
    <2>2. ExistsBijection(D, A)
        BY <1>6 DEF ExistsBijection
    <2> QED
        BY <2>1, <2>2, FS_Bijection
<1> QED
    BY <1>2, <1>7 DEF Place, A

\* The elements of a part of a sequence.
LEMMA SliceIs ==
    ASSUME NEW S, NEW s \in Seq(S), NEW a \in Nat, NEW e \in Nat, e <= Len(s)
    PROVE  \A x : x \in ToSet(SubSeq(s, a + 1, e)) <=> \E n \in a + 1 .. e : x = s[n]
<1> DEFINE w == SubSeq(s, a + 1, e)
<1>0. Len(s) \in Nat
    BY LenProperties
<1>1. \A i \in a + 1 .. e : i \in 1 .. Len(s)
    BY <1>0
<1>2. \A i \in a + 1 .. e : s[i] \in S
    BY <1>1, ElementOfSeq
<1>3. /\ w \in Seq(S) /\ Len(w) = IF a + 1 <= e THEN e - (a + 1) + 1 ELSE 0
      /\ \A i \in 1 .. e - (a + 1) + 1 : w[i] = s[a + 1 + i - 1]
    <2>1. a + 1 \in Int /\ e \in Int
        OBVIOUS
    <2> QED
        BY <1>2, <2>1, SubSeqProperties
<1>4. DOMAIN w = 1 .. Len(w)
    BY <1>3, LenProperties
<1> HIDE DEF w
<1>5. ASSUME NEW n \in a + 1 .. e
      PROVE  s[n] \in ToSet(w)
    <2> DEFINE i == n - a
    <2> HIDE DEF i
    <2>0. a + 1 <= e /\ n \in Int /\ i = n - a
        BY DEF i
    <2>1. i \in 1 .. e - (a + 1) + 1 /\ a + 1 + i - 1 = n /\ i \in 1 .. Len(w)
        <3>1. Len(w) = e - (a + 1) + 1
            BY <1>3, <2>0
        <3>2. i \in 1 .. e - (a + 1) + 1 /\ a + 1 + i - 1 = n
            BY <2>0
        <3> QED
            BY <3>1, <3>2
    <2>2. w[i] = s[n]
        BY <1>3, <2>1
    <2> QED
        BY <1>4, <2>1, <2>2 DEF ToSet
<1>6. ASSUME NEW x \in ToSet(w)
      PROVE  \E n \in a + 1 .. e : x = s[n]
    <2>1. PICK i \in 1 .. Len(w) : x = w[i]
        BY <1>4 DEF ToSet
    <2>2. i \in 1 .. e - (a + 1) + 1 /\ a + 1 + i - 1 \in a + 1 .. e
        BY <1>3
    <2> QED
        BY <1>3, <2>1, <2>2
<1> QED
    BY <1>5, <1>6 DEF w

\* The window of a page is the users with its places.
LEMMA WindowIs ==
    ASSUME TableOK, NEW q \in Query, NEW s \in Orders(q, Listed(q))
    PROVE  ToSet(Window(q, s)) =
               { i \in Listed(q) : Offset(q) <= Place(q, i) /\ Place(q, i) < Offset(q) + PageSize(q) }
<1>0. SUFFICES ASSUME NEW a, NEW b, NEW c, NEW e, a = Offset(q), b = a + PageSize(q),
                      c = Len(s), e = Min2(b, c)
               PROVE  ToSet(Window(q, s)) = { i \in Listed(q) : a <= Place(q, i) /\ Place(q, i) < b }
    OBVIOUS
<1>1. /\ a \in Nat /\ b \in Nat /\ a < b /\ c \in Nat
      /\ s \in Seq(Listed(q)) /\ ToSet(s) = Listed(q) /\ DOMAIN s = 1 .. c
    <2>1. PageSize(q) \in Nat \ {0} /\ Offset(q) \in Nat
        BY AskedIs
    <2>2. Len(s) \in Nat /\ s \in Seq(Listed(q)) /\ ToSet(s) = Listed(q) /\ DOMAIN s = 1 .. Len(s)
        BY Ordered, OrderIs, LenProperties
    <2> QED
        BY <1>0, <2>1, <2>2
<1>2. e \in Nat /\ e <= c /\ e <= b /\ (e = b \/ e = c)
    BY <1>0, <1>1 DEF Min2
<1>3. Window(q, s) = SubSeq(s, a + 1, e)
    BY <1>0 DEF Window
<1>4. \A x : x \in ToSet(Window(q, s)) <=> \E n \in a + 1 .. e : x = s[n]
    <2>1. s \in Seq(Listed(q)) /\ a \in Nat /\ e \in Nat /\ e <= Len(s)
        BY <1>0, <1>1, <1>2
    <2>2. \A x : x \in ToSet(SubSeq(s, a + 1, e)) <=> \E n \in a + 1 .. e : x = s[n]
        <3>1. \A S : \A y \in Seq(S) : \A m, n \in Nat :
                  n <= Len(y) => \A x : x \in ToSet(SubSeq(y, m + 1, n)) <=> \E k \in m + 1 .. n : x = y[k]
            BY SliceIs
        <3> QED
            BY <2>1, <3>1, Zenon
    <2> QED
        BY <1>3, <2>2, Zenon
<1>5. \A n \in 1 .. c : s[n] \in Listed(q) /\ Place(q, s[n]) = n - 1
    BY <1>0, Position
<1>6. \A i \in Listed(q) : \E n \in 1 .. c : i = s[n]
    BY <1>1 DEF ToSet
<1>7. \A n \in 1 .. c : n \in a + 1 .. e <=> a <= n - 1 /\ n - 1 < b
    BY <1>1, <1>2
<1>8. \A n \in a + 1 .. e : n \in 1 .. c
    BY <1>1, <1>2
<1>9. ASSUME NEW i \in Listed(q)
      PROVE  i \in ToSet(Window(q, s)) <=> a <= Place(q, i) /\ Place(q, i) < b
    <2>1. PICK n \in 1 .. c : i = s[n]
        BY <1>6
    <2>2. Place(q, i) = n - 1
        BY <1>5, <2>1
    <2>3. n \in a + 1 .. e => i \in ToSet(Window(q, s))
        BY <1>4, <2>1
    <2>4. i \in ToSet(Window(q, s)) => n \in a + 1 .. e
        <3> SUFFICES ASSUME NEW m \in a + 1 .. e, i = s[m]
                     PROVE  n \in a + 1 .. e
            BY <1>4
        <3>1. Place(q, i) = m - 1 /\ m \in 1 .. c
            BY <1>5, <1>8
        <3>2. m = n
            BY <1>1, <2>2, <3>1
        <3> QED
            BY <3>2
    <2> QED
        BY <1>7, <2>2, <2>3, <2>4
<1>10. ToSet(Window(q, s)) \subseteq Listed(q)
    BY <1>4, <1>5, <1>8
<1> QED
    BY <1>9, <1>10

\* How a change to user j moves the places of the others.
LEMMA PlacesMove ==
    ASSUME TableOK, TableOK', NEW q \in Query, NEW j \in Id,
           \A k \in Id \ {j} : rows'[k] = rows[k] /\ (k \in deleted' <=> k \in deleted)
    PROVE  /\ Listed(q)' \ {j} = Listed(q) \ {j}
           /\ \A i \in Listed(q) \ {j} :
                /\ Place(q, i) \in Nat /\ Place(q, i)' \in Nat
                /\ Place(q, i)' >= Place(q, i) - IF j \in Listed(q) THEN 1 ELSE 0
                /\ Place(q, i)' <= Place(q, i) + IF j \in Listed(q)' THEN 1 ELSE 0
<1>1. ASSUME NEW k \in Id \ {j}
      PROVE  k \in Listed(q)' <=> k \in Listed(q)
    <2>1. rows'[k] = rows[k] /\ (k \in deleted' <=> k \in deleted)
        OBVIOUS
    <2> QED
        BY <2>1 DEF Listed
<1>2. Listed(q) \subseteq Id /\ Listed(q)' \subseteq Id
    BY DEF Listed
<1>3. Listed(q)' \ {j} = Listed(q) \ {j}
    BY <1>1, <1>2
<1>4. ASSUME NEW i \in Listed(q) \ {j}
      PROVE  /\ Place(q, i) \in Nat /\ Place(q, i)' \in Nat
             /\ Place(q, i)' >= Place(q, i) - IF j \in Listed(q) THEN 1 ELSE 0
             /\ Place(q, i)' <= Place(q, i) + IF j \in Listed(q)' THEN 1 ELSE 0
    <2> DEFINE A == Ahead(q, i)
               B == Ahead(q, i)'
    <2>1. A \subseteq Listed(q) /\ B \subseteq Listed(q)'
        BY DEF Ahead
    <2>2. \A k \in Id \ {j} : Before(q, k, i)' <=> Before(q, k, i)
        BY <1>2 DEF Before
    <2>3. A \ {j} = B \ {j}
        BY <1>1, <1>2, <2>1, <2>2 DEF Ahead
    <2>4. Place(q, i) = Cardinality(A) /\ Place(q, i)' = Cardinality(B)
        BY DEF Place
    <2> HIDE DEF A, B
    <2>5. IsFiniteSet(A) /\ IsFiniteSet(B) /\ Cardinality(A) \in Nat /\ Cardinality(B) \in Nat
        BY <1>2, <2>1, UsersFinite
    <2>6. /\ Cardinality(A \ {j}) = IF j \in A THEN Cardinality(A) - 1 ELSE Cardinality(A)
          /\ Cardinality(B \ {j}) = IF j \in B THEN Cardinality(B) - 1 ELSE Cardinality(B)
        BY <2>5, FS_RemoveElement
    <2>7. j \notin Listed(q) => A \ {j} = A
        BY <2>1
    <2>8. j \notin Listed(q)' => B \ {j} = B
        BY <2>1
    <2>9. /\ Cardinality(B) >= Cardinality(A) - IF j \in Listed(q) THEN 1 ELSE 0
          /\ Cardinality(B) <= Cardinality(A) + IF j \in Listed(q)' THEN 1 ELSE 0
        <3> DEFINE n == Cardinality(A \ {j})
        <3>1. n \in {Cardinality(A), Cardinality(A) - 1} /\ n \in {Cardinality(B), Cardinality(B) - 1}
            BY <2>3, <2>6
        <3>2. j \notin Listed(q) => n = Cardinality(A)
            BY <2>7
        <3>3. j \notin Listed(q)' => n = Cardinality(B)
            BY <2>3, <2>8
        <3> HIDE DEF n
        <3> QED
            BY <2>5, <3>1, <3>2, <3>3
    <2> QED
        BY <2>4, <2>5, <2>9
<1> QED
    BY <1>3, <1>4

-----------------------------------------------------------------------------
(* Counting.                                                               *)

\* Fewer users.
LEMMA Fewer ==
    ASSUME NEW T \in SUBSET Id, NEW S \in SUBSET T
    PROVE  /\ Cardinality(S) \in Nat /\ Cardinality(T) \in Nat
           /\ Cardinality(S) <= Cardinality(T)
<1>1. S \subseteq Id /\ IsFiniteSet(T)
    BY UsersFinite
<1> QED
    BY <1>1, UsersFinite, FS_Subset

\* One user more.
LEMMA OneMore ==
    ASSUME NEW T \in SUBSET Id, NEW S \in SUBSET Id, NEW x, S \subseteq T \cup {x}
    PROVE  /\ Cardinality(S) \in Nat /\ Cardinality(T) \in Nat
           /\ Cardinality(S) <= Cardinality(T) + 1
<1>1. IsFiniteSet(S) /\ S \ {x} \in SUBSET T
    BY UsersFinite
<1>2. Cardinality(S \ {x}) = IF x \in S THEN Cardinality(S) - 1 ELSE Cardinality(S)
    BY <1>1, FS_RemoveElement
<1>3. Cardinality(S \ {x}) \in Nat /\ Cardinality(T) \in Nat /\ Cardinality(S \ {x}) <= Cardinality(T)
    BY <1>1, Fewer
<1>4. Cardinality(S) \in Nat
    BY UsersFinite
<1> QED
    BY <1>2, <1>3, <1>4

\* Two sets of users without a user in both.
LEMMA Together ==
    ASSUME NEW T \in SUBSET Id, NEW R \in SUBSET T, NEW S \in SUBSET T, R \cap S = {}
    PROVE  /\ Cardinality(R) \in Nat /\ Cardinality(S) \in Nat /\ Cardinality(T) \in Nat
           /\ Cardinality(R) + Cardinality(S) <= Cardinality(T)
<1>1. IsFiniteSet(R) /\ IsFiniteSet(S) /\ R \subseteq Id /\ S \subseteq Id
    BY UsersFinite
<1>2. Cardinality(R \cup S) = Cardinality(R) + Cardinality(S) - Cardinality(R \cap S)
    BY <1>1, FS_Union
<1>3. Cardinality(R \cap S) = 0
    BY FS_EmptySet
<1>4. R \cup S \in SUBSET T
    OBVIOUS
<1>5. Cardinality(R \cup S) <= Cardinality(T)
    BY <1>4, Fewer
<1>6. Cardinality(R) \in Nat /\ Cardinality(S) \in Nat /\ Cardinality(T) \in Nat
    BY <1>1, UsersFinite
<1> QED
    BY <1>2, <1>3, <1>5, <1>6

\* All of some users are in one of two sets.
LEMMA Apart ==
    ASSUME NEW R \in SUBSET Id, NEW S \in SUBSET Id, NEW T \in SUBSET (R \cup S)
    PROVE  /\ Cardinality(R) \in Nat /\ Cardinality(S) \in Nat /\ Cardinality(T) \in Nat
           /\ Cardinality(T) <= Cardinality(R) + Cardinality(S)
<1>1. IsFiniteSet(R) /\ IsFiniteSet(S) /\ R \cup S \in SUBSET Id
    BY UsersFinite
<1>2. Cardinality(R \cup S) = Cardinality(R) + Cardinality(S) - Cardinality(R \cap S)
    BY <1>1, FS_Union
<1>3. Cardinality(R) \in Nat /\ Cardinality(S) \in Nat /\ Cardinality(R \cap S) \in Nat
    BY UsersFinite
<1>4. /\ Cardinality(T) \in Nat /\ Cardinality(R \cup S) \in Nat
      /\ Cardinality(T) <= Cardinality(R \cup S)
    BY <1>1, Fewer
<1> QED
    BY <1>2, <1>3, <1>4

\* Users in a part of the list are no more than the places of the part.
LEMMA InPart ==
    ASSUME TableOK, NEW q, NEW a \in Nat, NEW b \in Nat, NEW S \in SUBSET Listed(q),
           \A i \in S : a <= Place(q, i) /\ Place(q, i) < a + b
    PROVE  Cardinality(S) \in Nat /\ Cardinality(S) <= b
<1> DEFINE D == a .. a + b - 1
           f == [i \in S |-> Place(q, i)]
<1>1. IsFiniteSet(S) /\ Cardinality(S) \in Nat
    BY Ordered, UsersFinite
<1>2. IsFiniteSet(D) /\ Cardinality(D) = b
    <2>1. a + b - 1 \in Int /\ (a > a + b - 1 <=> b = 0) /\ a + b - 1 - a + 1 = b
        OBVIOUS
    <2>2. IsFiniteSet(D) /\ Cardinality(D) = IF a > a + b - 1 THEN 0 ELSE a + b - 1 - a + 1
        BY <2>1, FS_Interval
    <2> HIDE DEF D
    <2> QED
        BY <2>1, <2>2
<1>3. f \in [S -> D]
    <2>1. \A i \in S : Place(q, i) \in Nat
        BY PlacesDiffer
    <2>2. \A i \in S : Place(q, i) \in D
        BY <2>1
    <2> QED
        BY <2>2
<1>4. \A i, j \in S : i # j => f[i] # f[j]
    BY PlacesDiffer
<1> HIDE DEF f, D
<1>5. f \in Injection(S, D)
    BY <1>3, <1>4 DEF Injection, IsInjective
<1>6. Cardinality(S) <= Cardinality(D)
    BY <1>2, <1>5, FS_Injection
<1> QED
    BY <1>1, <1>2, <1>6

\* How many times a user is in some pages.
TimesIn(s, i) == Cardinality({ n \in 1 .. Len(s) : s[n] = i })

LEMMA TimesIs ==
    ASSUME NEW s \in Seq(Id), NEW i
    PROVE  /\ TimesIn(s, i) \in Nat /\ TimesIn(s, i) <= Len(s)
           /\ TimesIn(s, i) = 0 <=> i \notin ToSet(s)
<1> DEFINE A == { n \in 1 .. Len(s) : s[n] = i }
           D == 1 .. Len(s)
<1>1. Len(s) \in Nat /\ DOMAIN s = D
    BY LenProperties
<1>2. IsFiniteSet(D) /\ Cardinality(D) = Len(s)
    <2>1. IsFiniteSet(D) /\ Cardinality(D) = IF 1 > Len(s) THEN 0 ELSE Len(s) - 1 + 1
        BY <1>1, FS_Interval
    <2> HIDE DEF D
    <2> QED
        BY <1>1, <2>1
<1>3. A \in SUBSET D
    OBVIOUS
<1>4. A = {} <=> i \notin ToSet(s)
    BY <1>1 DEF ToSet
<1> HIDE DEF A, D
<1>5. IsFiniteSet(A) /\ Cardinality(A) <= Len(s)
    BY <1>2, <1>3, FS_Subset
<1>6. Cardinality(A) \in Nat /\ (Cardinality(A) = 0 <=> A = {})
    BY <1>5, FS_CardinalityType, FS_EmptySet
<1> QED
    BY <1>4, <1>5, <1>6 DEF TimesIn, A

\* A page adds one to each of its users.
LEMMA TimesAfter ==
    ASSUME NEW s \in Seq(Id), NEW t \in Seq(Id), NEW i,
           \A m, n \in 1 .. Len(t) : m # n => t[m] # t[n]
    PROVE  /\ ToSet(s \o t) = ToSet(s) \cup ToSet(t)
           /\ Len(s \o t) = Len(s) + Len(t) /\ s \o t \in Seq(Id)
           /\ TimesIn(s \o t, i) = TimesIn(s, i) + IF i \in ToSet(t) THEN 1 ELSE 0
<1> DEFINE w == s \o t
           a == Len(s)
           b == Len(t)
           A == { n \in 1 .. a : s[n] = i }
           B == { n \in 1 .. a + b : w[n] = i }
<1>1. /\ w \in Seq(Id) /\ Len(w) = a + b /\ a \in Nat /\ b \in Nat
      /\ \A n \in 1 .. a + b : w[n] = IF n <= a THEN s[n] ELSE t[n - a]
      /\ DOMAIN w = 1 .. a + b /\ DOMAIN s = 1 .. a /\ DOMAIN t = 1 .. b
    <2>1. /\ w \in Seq(Id) /\ Len(w) = a + b
          /\ \A n \in 1 .. a + b : w[n] = IF n <= a THEN s[n] ELSE t[n - a]
        BY ConcatProperties
    <2>2. /\ DOMAIN w = 1 .. Len(w) /\ DOMAIN s = 1 .. a /\ DOMAIN t = 1 .. b
          /\ a \in Nat /\ b \in Nat
        BY <2>1, LenProperties
    <2> QED
        BY <2>1, <2>2
<1> HIDE DEF w, a, b
<1>2. \A n \in 1 .. a : n \in 1 .. a + b /\ w[n] = s[n]
    BY <1>1
<1>3. ASSUME NEW m \in 1 .. b
      PROVE  m + a \in 1 .. a + b /\ w[m + a] = t[m] /\ m + a \notin 1 .. a
    <2>1. m + a \in 1 .. a + b /\ ~(m + a <= a) /\ m + a - a = m
        BY <1>1
    <2> QED
        BY <1>1, <2>1
<1>4. ASSUME NEW n \in (1 .. a + b) \ (1 .. a)
      PROVE  n - a \in 1 .. b /\ w[n] = t[n - a] /\ (n - a) + a = n
    <2>1. ~(n <= a) /\ n - a \in 1 .. b /\ (n - a) + a = n
        BY <1>1
    <2> QED
        BY <1>1, <2>1
<1>5. ToSet(w) = ToSet(s) \cup ToSet(t)
    <2>1. ToSet(w) = { w[n] : n \in 1 .. a + b }
        BY <1>1 DEF ToSet
    <2>2. ToSet(s) = { s[n] : n \in 1 .. a } /\ ToSet(t) = { t[n] : n \in 1 .. b }
        BY <1>1 DEF ToSet
    <2> QED
        BY <1>2, <1>3, <1>4, <2>1, <2>2
<1>6. IsFiniteSet(A) /\ Cardinality(A) \in Nat
    <2>1. IsFiniteSet(1 .. a) /\ A \in SUBSET (1 .. a)
        BY <1>1, FS_Interval
    <2> HIDE DEF A
    <2> QED
        BY <2>1, FS_Subset, FS_CardinalityType
<1>7. CASE i \notin ToSet(t)
    <2>1. \A m \in 1 .. b : t[m] # i
        BY <1>1, <1>7 DEF ToSet
    <2>2. A = B
        BY <1>2, <1>4, <2>1
    <2>3. TimesIn(w, i) = TimesIn(s, i) /\ TimesIn(s, i) \in Nat
        BY <1>1, <1>6, <2>2 DEF TimesIn, a
    <2> QED
        BY <1>1, <1>5, <1>7, <2>3 DEF w, a, b
<1>8. CASE i \in ToSet(t)
    <2>1. PICK m \in 1 .. b : t[m] = i
        BY <1>1, <1>8 DEF ToSet
    <2>2. ASSUME NEW n \in B \ A
          PROVE  n = m + a
        <3>1. n \notin 1 .. a
            BY <1>2
        <3>2. n - a \in 1 .. b /\ t[n - a] = i /\ (n - a) + a = n
            BY <1>4, <3>1
        <3>3. n - a = m
            BY <2>1, <3>2 DEF b
        <3> QED
            BY <3>2, <3>3
    <2>3. B = A \cup {m + a} /\ m + a \notin A
        BY <1>2, <1>3, <2>1, <2>2
    <2> HIDE DEF A, B
    <2>4. Cardinality(B) = Cardinality(A) + 1
        BY <1>6, <2>3, FS_AddElement
    <2> QED
        BY <1>1, <1>5, <1>6, <1>8, <2>4 DEF TimesIn, w, a, b, A, B
<1> QED
    BY <1>7, <1>8

\* The second and later times of some users in some pages.
PairsIn(P, s) == { x \in P \X (2 .. Len(s)) : x[2] <= TimesIn(s, x[1]) }

LEMMA PairsIs ==
    ASSUME NEW P \in SUBSET Id, NEW s \in Seq(Id)
    PROVE  /\ IsFiniteSet(PairsIn(P, s)) /\ Cardinality(PairsIn(P, s)) \in Nat
           /\ \A R \in SUBSET P :
                 /\ Cardinality(PairsIn(R, s)) \in Nat
                 /\ Cardinality(PairsIn(R, s)) <= Cardinality(PairsIn(P, s))
<1> DEFINE D == 2 .. Len(s)
<1>1. IsFiniteSet(P) /\ IsFiniteSet(D)
    <2>1. Len(s) \in Int
        BY LenProperties
    <2> QED
        BY <2>1, UsersFinite, FS_Interval
<1>2. IsFiniteSet(P \X D)
    BY <1>1, FS_Product
<1>3. PairsIn(P, s) \in SUBSET (P \X D)
    BY DEF PairsIn
<1>4. IsFiniteSet(PairsIn(P, s)) /\ Cardinality(PairsIn(P, s)) \in Nat
    BY <1>2, <1>3, FS_Subset, FS_CardinalityType
<1>5. ASSUME NEW R \in SUBSET P
      PROVE  /\ Cardinality(PairsIn(R, s)) \in Nat
             /\ Cardinality(PairsIn(R, s)) <= Cardinality(PairsIn(P, s))
    <2>1. PairsIn(R, s) \in SUBSET PairsIn(P, s)
        BY DEF PairsIn
    <2> QED
        BY <1>4, <2>1, FS_Subset, FS_CardinalityType
<1> QED
    BY <1>4, <1>5

\* A page adds a pair for each of its users who were seen.
LEMMA PairsAfter ==
    ASSUME NEW P \in SUBSET Id, NEW s \in Seq(Id), NEW t \in Seq(Id),
           \A m, n \in 1 .. Len(t) : m # n => t[m] # t[n]
    PROVE  LET A == P \cap ToSet(s) \cap ToSet(t) IN
           /\ Cardinality(PairsIn(P, s \o t)) \in Nat
           /\ Cardinality(PairsIn(P, s \o t)) <= Cardinality(PairsIn(P, s)) + Cardinality(A)
<1> DEFINE w == s \o t
           A == P \cap ToSet(s) \cap ToSet(t)
           f == [i \in A |-> <<i, TimesIn(s, i) + 1>>]
           B == { f[i] : i \in A }
<1>1. w \in Seq(Id) /\ Len(s) \in Nat /\ Len(t) \in Nat /\ Len(w) = Len(s) + Len(t)
    BY TimesAfter, LenProperties
<1>2. IsFiniteSet(A) /\ Cardinality(A) \in Nat
    BY UsersFinite
<1>3. IsFiniteSet(B) /\ Cardinality(B) \in Nat /\ Cardinality(B) <= Cardinality(A)
    <2>1. f \in Surjection(A, B)
        BY DEF Surjection
    <2> HIDE DEF f, A, B
    <2> QED
        BY <1>2, <2>1, FS_Surjection, FS_CardinalityType
<1>4. PairsIn(P, w) \subseteq PairsIn(P, s) \cup B
    <2> SUFFICES ASSUME NEW x \in PairsIn(P, w), x \notin PairsIn(P, s)
                 PROVE  x \in B
        OBVIOUS
    <2> DEFINE i == x[1]
               n == x[2]
    <2>1. x = <<i, n>> /\ i \in P /\ n \in 2 .. Len(w) /\ n <= TimesIn(w, i)
        BY DEF PairsIn
    <2>2. /\ TimesIn(s, i) \in Nat /\ TimesIn(s, i) <= Len(s)
          /\ TimesIn(s, i) = 0 <=> i \notin ToSet(s)
        BY TimesIs
    <2>3. TimesIn(w, i) = TimesIn(s, i) + IF i \in ToSet(t) THEN 1 ELSE 0
        BY TimesAfter
    <2>4. ~(n \in 2 .. Len(s) /\ n <= TimesIn(s, i))
        BY <2>1 DEF PairsIn
    <2> HIDE DEF i, n, w
    <2>5. ~(n <= TimesIn(s, i))
        BY <1>1, <2>1, <2>2, <2>4
    <2>6. i \in ToSet(t)
        BY <2>1, <2>3, <2>2, <2>5
    <2>7. n = TimesIn(s, i) + 1 /\ i \in ToSet(s)
        BY <2>1, <2>2, <2>3, <2>5, <2>6
    <2>8. i \in A /\ x = f[i]
        BY <2>1, <2>6, <2>7
    <2> QED
        BY <2>8
<1> HIDE DEF A, B, w
<1>5. IsFiniteSet(PairsIn(P, s)) /\ Cardinality(PairsIn(P, s)) \in Nat
    BY PairsIs
<1>6. /\ IsFiniteSet(PairsIn(P, s) \cup B)
      /\ Cardinality(PairsIn(P, s) \cup B) =
             Cardinality(PairsIn(P, s)) + Cardinality(B) - Cardinality(PairsIn(P, s) \cap B)
    BY <1>3, <1>5, FS_Union
<1>7. Cardinality(PairsIn(P, s) \cap B) \in Nat
    BY <1>3, FS_Intersection, FS_CardinalityType
<1>8. /\ Cardinality(PairsIn(P, w)) \in Nat
      /\ Cardinality(PairsIn(P, w)) <= Cardinality(PairsIn(P, s) \cup B)
    <2>1. PairsIn(P, w) \in SUBSET (PairsIn(P, s) \cup B)
        BY <1>4
    <2> QED
        BY <1>1, <1>6, <2>1, FS_Subset, PairsIs
<1>9. Cardinality(PairsIn(P, s) \cup B) \in Nat
    BY <1>6, FS_CardinalityType
<1> QED
    BY <1>2, <1>3, <1>5, <1>6, <1>7, <1>8, <1>9 DEF A, w

-----------------------------------------------------------------------------
(* The invariant.                                                          *)

\* The list of the walk, and a user's place in it.
InList == Listed(url.query)
Rank(i) == Place(url.query, i)

\* The places the client has asked for so far, its users of the page in flight, and
\* all it has met.
OnList == url.path = Collection
Places == IF ~OnList THEN 0
          ELSE Offset(url.query) + IF ids = None THEN 0 ELSE PageSize(url.query)
Taken == IF OnList /\ ids # None THEN ids ELSE {}
Met == ToSet(seen) \cup Taken

\* Who stayed and was not met, who of them slipped below these places, who comes a
\* second time, and who was met and rose above them to be met again.
Missed == stayed \ Met
Skipped == { i \in Missed : Rank(i) < Places }
Again == stayed \cap Taken \cap ToSet(seen)
Overtaken == { i \in stayed \cap Met : Rank(i) >= Places }

Distinct(s) == \A m, n \in 1 .. Len(s) : m # n => s[m] # s[n]

WalkTypes ==
    /\ TableOK
    /\ step \in {"idle", "reading", "done"}
    /\ step # "idle" => url \in Url
    /\ ids \in (SUBSET Id) \cup {None}
    /\ items \in Seq(Id) \cup {None}
    /\ total \in Nat \cup {None}
    /\ seen \in Seq(Id) /\ stayed \subseteq Id
    /\ left \in Nat /\ came \in Nat /\ late \in Nat

PageOK ==
    /\ step = "idle" => ids = None /\ items = None /\ total = None /\ seen = <<>>
    /\ step = "reading" => stayed \subseteq InList
    /\ step = "reading" /\ ~OnList => seen = <<>>
    /\ step = "reading" /\ items # None =>
          /\ ids # None /\ Distinct(items)
          /\ stayed \cap ids \subseteq ToSet(items) /\ ToSet(items) \subseteq ids

\* Who slipped below was shifted by someone who left.
SkippedOK == step = "reading" => Cardinality(Skipped) <= left

\* A count that is not up to date misses only those who are late.
CountOK == step = "reading" /\ total # None /\ ids = None => Cardinality(InList) <= total + late

\* Where the count says that this is the last page, few are missed.
LastOK ==
    /\ step = "reading" /\ total # None /\ ids # None /\ OnList /\ total <= Places =>
          Cardinality(Missed) <= left + late
    /\ step = "done" => Cardinality(stayed \ ToSet(seen)) <= left + late

\* Whoever is met again was shifted by someone who came.
RepeatsOK ==
    /\ step = "reading" =>
          Cardinality(PairsIn(stayed, seen)) + Cardinality(Again) + Cardinality(Overtaken) <= came
    /\ step = "done" => Cardinality(PairsIn(stayed, seen)) <= came

WalkInv == WalkTypes /\ PageOK /\ SkippedOK /\ CountOK /\ LastOK /\ RepeatsOK

\* The list stays while the table does, on every page.
LEMMA RanksStay ==
    ASSUME UNCHANGED table, NEW q, NEW r, q = url.query, r = url'.query,
           Asked(r, "deleted") = Asked(q, "deleted"), Asked(r, "sortOrder") = Asked(q, "sortOrder")
    PROVE  InList' = InList /\ \A i : Rank(i)' = Rank(i)
<1>1. InList' = InList
    BY DEF InList, Listed, table
<1>2. ASSUME NEW i PROVE Ahead(url.query, i)' = Ahead(url.query, i)
    <2>1. ASSUME NEW k PROVE Before(url.query, k, i)' <=> Before(url.query, k, i)
        BY DEF Before, table
    <2> QED
        BY <1>1, <2>1 DEF Ahead, InList
<1>3. ASSUME NEW i PROVE Rank(i)' = Rank(i)
    BY <1>2 DEF Rank, Place
<1> QED
    BY <1>1, <1>3

\* How a change to user j moves the places of the others.
LEMMA RanksMove ==
    ASSUME TableOK, TableOK', url.query \in Query, UNCHANGED url, NEW j \in Id,
           \A k \in Id \ {j} : rows'[k] = rows[k] /\ (k \in deleted' <=> k \in deleted)
    PROVE  /\ InList' \ {j} = InList \ {j}
           /\ \A i \in InList \ {j} :
                /\ Rank(i) \in Nat /\ Rank(i)' \in Nat
                /\ Rank(i)' >= Rank(i) - IF j \in InList THEN 1 ELSE 0
                /\ Rank(i)' <= Rank(i) + IF j \in InList' THEN 1 ELSE 0
<1>1. PICK q \in Query : q = url.query
    OBVIOUS
<1>2. /\ Listed(q)' \ {j} = Listed(q) \ {j}
      /\ \A i \in Listed(q) \ {j} :
            /\ Place(q, i) \in Nat /\ Place(q, i)' \in Nat
            /\ Place(q, i)' >= Place(q, i) - IF j \in Listed(q) THEN 1 ELSE 0
            /\ Place(q, i)' <= Place(q, i) + IF j \in Listed(q)' THEN 1 ELSE 0
    BY PlacesMove
<1>3. InList = Listed(q) /\ InList' = Listed(q)'
    BY <1>1 DEF InList, Listed
<1>4. ASSUME NEW i PROVE Rank(i) = Place(q, i) /\ Rank(i)' = Place(q, i)'
    <2>1. Ahead(url.query, i)' = Ahead(q, i)'
        BY <1>1, <1>3 DEF Ahead, InList, Before
    <2> QED
        BY <1>1, <2>1 DEF Rank, Place
<1> QED
    BY <1>2, <1>3, <1>4

\* Who is in the list has a place of his own in it.
LEMMA RanksDiffer ==
    ASSUME TableOK
    PROVE  /\ InList \subseteq Id
           /\ \A i \in InList : Rank(i) \in Nat /\ Rank(i) < Cardinality(InList)
           /\ \A i, j \in InList : Rank(i) = Rank(j) => i = j
<1>1. InList \subseteq Id
    BY Ordered DEF InList
<1>2. ASSUME NEW i \in InList
      PROVE  /\ Rank(i) \in Nat /\ Rank(i) < Cardinality(InList)
             /\ \A j \in InList : Rank(i) = Rank(j) => i = j
    BY PlacesDiffer DEF InList, Rank
<1> QED
    BY <1>1, <1>2

\* The sets of the invariant.
LEMMA SetsIs ==
    ASSUME WalkTypes, step = "reading"
    PROVE  /\ url.query \in Query /\ url.path \in Path
           /\ Places \in Nat /\ Offset(url.query) \in Nat /\ PageSize(url.query) \in Nat \ {0}
           /\ Taken \subseteq Id /\ Met \subseteq Id /\ ToSet(seen) \subseteq Id
           /\ Missed \subseteq Id /\ Skipped \subseteq Id /\ Again \subseteq Id /\ Overtaken \subseteq Id
           /\ InList \subseteq Id
           /\ Cardinality(PairsIn(stayed, seen)) \in Nat
<1>1. url.query \in Query /\ url.path \in Path
    BY UrlIs DEF WalkTypes
<1>2. Offset(url.query) \in Nat /\ PageSize(url.query) \in Nat \ {0}
    BY <1>1, AskedIs
<1>3. Places \in Nat
    BY <1>2 DEF Places
<1>4. Taken \subseteq Id
    <2>1. ids # None => ids \subseteq Id
        BY DEF WalkTypes
    <2> QED
        BY <2>1 DEF Taken
<1>5. ToSet(seen) \subseteq Id
    <2>1. seen \in Seq(Id)
        BY DEF WalkTypes
    <2>2. DOMAIN seen = 1 .. Len(seen) /\ \A n \in 1 .. Len(seen) : seen[n] \in Id
        BY <2>1, LenProperties, ElementOfSeq
    <2> QED
        BY <2>2 DEF ToSet
<1>6. stayed \in SUBSET Id /\ seen \in Seq(Id)
    BY DEF WalkTypes
<1>7. InList \subseteq Id
    BY RanksDiffer DEF WalkTypes
<1> QED
    BY <1>1, <1>2, <1>3, <1>4, <1>5, <1>6, <1>7, PairsIs DEF Met, Missed, Skipped, Again, Overtaken

-----------------------------------------------------------------------------
(* The invariant holds.                                                    *)

LEMMA InitWalkInv == WalkInit => WalkInv
<1> SUFFICES ASSUME WalkInit
             PROVE  WalkInv
    OBVIOUS
<1>1. /\ seen \in Seq(Id) /\ stayed \subseteq Id /\ step = "idle" /\ seen = <<>>
      /\ ids = None /\ items = None /\ total = None /\ left = 0 /\ came = 0 /\ late = 0
    BY DEF WalkInit
<1>2. TableOK
    BY DEF WalkInit, TableOK
<1>3. WalkTypes /\ PageOK
    BY <1>1, <1>2 DEF WalkTypes, PageOK
<1> QED
    BY <1>1, <1>3 DEF WalkInv, SkippedOK, CountOK, LastOK, RepeatsOK

\* The walk begins: nothing is met.
LEMMA AskKeeps ==
    ASSUME WalkInv, NEW u \in Start, Ask(u)
    PROVE  WalkInv'
<1>1. /\ step = "idle" /\ step' = "reading" /\ url' = u /\ stayed' = Listed(u.query)
      /\ UNCHANGED table /\ ids' = None /\ items' = None /\ total' = None /\ seen' = <<>>
      /\ left' = left /\ came' = came /\ late' = late
    BY DEF Ask, WalkInv, PageOK
<1>2. u \in Url /\ Page(u.query) = 1 /\ u.query \in Query
    BY StartIs, UrlIs
<1>3. stayed' \subseteq Id /\ stayed' = InList' /\ TableOK'
    BY <1>1 DEF Listed, InList, table, TableOK, WalkInv, WalkTypes
<1>4. WalkTypes'
    BY <1>1, <1>2, <1>3 DEF WalkInv, WalkTypes
<1>5. PageOK'
    BY <1>1, <1>3 DEF PageOK
<1>6. Places' = 0
    <2>1. PageSize(u.query) \in Nat /\ Offset(u.query) = 0
        <3>1. PageSize(u.query) \in Nat
            BY <1>2, AskedIs
        <3> QED
            BY <1>2, <3>1 DEF Offset
    <2> QED
        BY <1>1, <2>1 DEF Places
<1>7. Taken' = {} /\ Met' = {}
    <2>1. ToSet(<<>>) = {}
        BY DEF ToSet
    <2> QED
        BY <1>1, <2>1 DEF Taken, Met
<1>8. Skipped' = {}
    <2>1. \A i \in stayed' : Rank(i)' \in Nat
        <3>1. \A i \in Listed(u.query) : Place(u.query, i) \in Nat
            BY PlacesDiffer DEF WalkInv, WalkTypes
        <3>2. ASSUME NEW i PROVE Rank(i)' = Place(u.query, i)
            <4>1. Ahead(url.query, i)' = Ahead(u.query, i)
                BY <1>1 DEF Ahead, Listed, Before, table
            <4> QED
                BY <4>1 DEF Rank, Place
        <3> QED
            BY <1>1, <3>1, <3>2
    <2>2. \A i \in stayed' : ~(Rank(i)' < Places')
        BY <1>6, <2>1
    <2> QED
        BY <2>2 DEF Skipped, Missed
<1>9. Again' = {} /\ Overtaken' = {}
    BY <1>7 DEF Again, Overtaken
<1>10. PairsIn(stayed, seen)' = {}
    <2>1. 2 .. Len(<<>>) = {}
        OBVIOUS
    <2> QED
        BY <1>1, <2>1 DEF PairsIn
<1>11. Cardinality({}) = 0
    BY FS_EmptySet
<1>12. SkippedOK' /\ CountOK' /\ LastOK'
    BY <1>1, <1>8, <1>11 DEF SkippedOK, CountOK, LastOK, WalkInv, WalkTypes
<1>13. RepeatsOK'
    <2>1. /\ Cardinality(PairsIn(stayed, seen)') = 0
          /\ Cardinality(Again') = 0 /\ Cardinality(Overtaken') = 0
        BY <1>9, <1>10, <1>11
    <2>2. came' \in Nat /\ step' # "done"
        BY <1>1 DEF WalkInv, WalkTypes
    <2> QED
        BY <2>1, <2>2 DEF RepeatsOK
<1> QED
    BY <1>4, <1>5, <1>12, <1>13 DEF WalkInv

\* The ids of a page: its places are taken by users who come again, or are met.
LEMMA ReadIdsKeeps ==
    ASSUME WalkInv, ReadIds
    PROVE  WalkInv'
<1>1. /\ step = "reading" /\ step' = "reading" /\ ids = None /\ items = None
      /\ UNCHANGED <<url, total, seen, stayed, left, came, late>> /\ UNCHANGED table
    BY DEF ReadIds, history, WalkInv, PageOK
<1>2. PICK s \in Orders(url.query, Listed(url.query)) :
          /\ ids' = ToSet(Window(url.query, s))
          /\ items' = IF ids' = {} THEN <<>> ELSE None
    BY DEF ReadIds
<1>3. /\ url.query \in Query /\ Places \in Nat /\ Offset(url.query) \in Nat
      /\ PageSize(url.query) \in Nat \ {0}
      /\ InList \subseteq Id /\ Missed \subseteq Id /\ Skipped \subseteq Id /\ Overtaken \subseteq Id
      /\ stayed \subseteq InList /\ ToSet(seen) \subseteq Id
    BY <1>1, SetsIs DEF WalkInv, PageOK
<1> DEFINE a == Offset(url.query)
           l == PageSize(url.query)
<1>4. ids' = { i \in InList : a <= Rank(i) /\ Rank(i) < a + l }
    BY <1>2, <1>3, WindowIs DEF WalkInv, WalkTypes, InList, Rank
<1> HIDE DEF a, l
<1>5. ids' \subseteq Id /\ ids' # None
    BY <1>3, <1>4, NullAssumption
<1>6. InList' = InList /\ \A i : Rank(i)' = Rank(i)
    BY <1>1, RanksStay
<1>7. \A i \in InList : Rank(i) \in Nat /\ Rank(i) < Cardinality(InList)
    BY RanksDiffer DEF WalkInv, WalkTypes
<1>8. TableOK' /\ items' \in Seq(Id) \cup {None}
    BY <1>1, <1>2 DEF TableOK, table, WalkInv, WalkTypes
<1>9. WalkTypes'
    BY <1>1, <1>5, <1>8 DEF WalkInv, WalkTypes
<1>10. PageOK'
    <2>1. items' # None => /\ Distinct(items') /\ ids' = {} /\ ToSet(items') = {}
        <3> SUFFICES ASSUME items' # None
                     PROVE  /\ Distinct(items') /\ ids' = {} /\ ToSet(items') = {}
            OBVIOUS
        <3>1. items' = <<>> /\ ids' = {}
            BY <1>2
        <3>2. Len(<<>>) = 0 /\ ToSet(<<>>) = {}
            BY DEF ToSet
        <3> QED
            BY <3>1, <3>2 DEF Distinct
    <2>2. (step = "reading" /\ ~OnList => seen = <<>>)'
        BY <1>1 DEF WalkInv, PageOK, OnList
    <2> QED
        BY <1>1, <1>3, <1>5, <1>6, <2>1, <2>2 DEF PageOK
<1>11. CASE OnList
    <2>1. /\ OnList' /\ Taken = {} /\ Taken' = ids'
          /\ Places = a /\ Places' = a + l
          /\ a \in Nat /\ l \in Nat
        BY <1>1, <1>3, <1>5, <1>11 DEF OnList, Taken, Places, a, l
    <2>2. Met = ToSet(seen) /\ Met' = ToSet(seen) \cup ids'
        BY <1>1, <2>1 DEF Met
    <2>3. Skipped' \in SUBSET Skipped
        <3>1. \A i \in InList : Rank(i) < a + l => Rank(i) < a \/ i \in ids'
            BY <1>4, <1>7, <2>1
        <3> QED
            BY <1>1, <1>3, <1>6, <2>1, <2>2, <3>1 DEF Skipped, Missed
    <2>4. SkippedOK'
        <3>1. /\ Cardinality(Skipped') \in Nat /\ Cardinality(Skipped) \in Nat
              /\ Cardinality(Skipped') <= Cardinality(Skipped)
            BY <1>3, <2>3, Fewer
        <3> QED
            BY <1>1, <3>1 DEF SkippedOK, WalkInv, WalkTypes
    <2>5. CountOK'
        BY <1>5 DEF CountOK
    <2>6. LastOK'
        <3> SUFFICES ASSUME total # None, total <= Places'
                     PROVE  Cardinality(Missed') <= left + late
            BY <1>1 DEF LastOK
        <3> DEFINE S == { i \in Missed' : ~(Rank(i) < a + l) }
        <3>0. total \in Nat /\ late \in Nat /\ left \in Nat
            BY DEF WalkInv, WalkTypes
        <3>1. /\ Cardinality(InList) <= total + late /\ Cardinality(InList) \in Nat
            BY <1>1, <1>3, UsersFinite DEF WalkInv, CountOK
        <3>2. S \in SUBSET Listed(url.query) /\ S \subseteq InList
            BY <1>1, <1>3 DEF Missed, InList
        <3>3. \A i \in S : a + l <= Place(url.query, i) /\ Place(url.query, i) < a + l + late
            <4>1. \A i \in S : ~(Rank(i) < a + l) /\ Rank(i) \in Nat /\ Rank(i) < Cardinality(InList)
                BY <1>7, <3>2
            <4> HIDE DEF S
            <4>2. \A i \in S : a + l <= Rank(i) /\ Rank(i) < a + l + late
                BY <2>1, <3>0, <3>1, <4>1
            <4> QED
                BY <4>2 DEF Rank
        <3>4. Cardinality(S) \in Nat /\ Cardinality(S) <= late
            <4>1. a + l \in Nat /\ TableOK
                BY <2>1 DEF WalkInv, WalkTypes
            <4> HIDE DEF S
            <4> QED
                BY <3>0, <3>2, <3>3, <4>1, InPart
        <3>5. Missed' \in SUBSET (Skipped' \cup S)
            BY <1>6, <2>1 DEF Skipped
        <3>6. Skipped' \in SUBSET Id /\ S \in SUBSET Id
            BY <1>3, <2>3, <3>2
        <3> HIDE DEF S
        <3>7. /\ Cardinality(Skipped') \in Nat /\ Cardinality(Missed') \in Nat
              /\ Cardinality(Missed') <= Cardinality(Skipped') + Cardinality(S)
            BY <3>5, <3>6, Apart
        <3>8. Cardinality(Skipped') <= left
            BY <1>1, <2>4 DEF SkippedOK
        <3> QED
            BY <3>0, <3>4, <3>7, <3>8
    <2>7. RepeatsOK'
        <3>1. Again = {} /\ Again' \in SUBSET Overtaken /\ Overtaken' \in SUBSET Overtaken
            <4>1. Again = {}
                BY <2>1 DEF Again
            <4>2. \A i \in ids' : Rank(i) >= a
                BY <1>4, <1>7, <2>1
            <4>3. Again' \in SUBSET Overtaken
                BY <1>1, <2>1, <2>2, <4>2 DEF Again, Overtaken
            <4>4. \A i \in InList : Rank(i) >= a + l => Rank(i) >= a /\ i \notin ids'
                BY <1>4, <1>7, <2>1
            <4>5. Overtaken' \in SUBSET Overtaken
                BY <1>1, <1>3, <1>6, <2>1, <2>2, <4>4 DEF Overtaken
            <4> QED
                BY <4>1, <4>3, <4>5
        <3>2. Again' \cap Overtaken' = {}
            <4>1. \A i \in ids' : i \in InList /\ ~(Rank(i) >= a + l)
                BY <1>4, <1>7, <2>1
            <4> QED
                BY <1>6, <2>1, <4>1 DEF Again, Overtaken
        <3>3. /\ Cardinality(Again') \in Nat /\ Cardinality(Overtaken') \in Nat
              /\ Cardinality(Overtaken) \in Nat
              /\ Cardinality(Again') + Cardinality(Overtaken') <= Cardinality(Overtaken)
            BY <1>3, <3>1, <3>2, Together
        <3>4. PairsIn(stayed, seen)' = PairsIn(stayed, seen)
            BY <1>1 DEF PairsIn, TimesIn
        <3>5. Cardinality(Again) = 0 /\ Cardinality(PairsIn(stayed, seen)) \in Nat
            BY <1>1, <3>1, FS_EmptySet, SetsIs DEF WalkInv
        <3>6. Cardinality(PairsIn(stayed, seen)) + Cardinality(Overtaken) <= came
            BY <1>1, <3>3, <3>5 DEF WalkInv, RepeatsOK
        <3>7. came \in Nat /\ came' = came /\ step' # "done"
            BY <1>1 DEF WalkInv, WalkTypes
        <3> QED
            BY <3>3, <3>4, <3>5, <3>6, <3>7 DEF RepeatsOK
    <2> QED
        BY <1>9, <1>10, <2>4, <2>5, <2>6, <2>7 DEF WalkInv
<1>12. CASE ~OnList
    <2>1. ~OnList' /\ Taken' = Taken /\ Places' = Places /\ Met' = Met
        BY <1>1, <1>12 DEF OnList, Taken, Places, Met
    <2>2. Missed' = Missed /\ Skipped' = Skipped /\ Again' = Again /\ Overtaken' = Overtaken
        BY <1>1, <1>6, <2>1 DEF Missed, Skipped, Again, Overtaken
    <2>3. PairsIn(stayed, seen)' = PairsIn(stayed, seen)
        BY <1>1 DEF PairsIn, TimesIn
    <2>4. SkippedOK' /\ CountOK' /\ LastOK' /\ RepeatsOK'
        BY <1>1, <1>5, <2>1, <2>2, <2>3 DEF WalkInv, SkippedOK, CountOK, LastOK, RepeatsOK
    <2> QED
        BY <1>9, <1>10, <2>4 DEF WalkInv
<1> QED
    BY <1>11, <1>12

\* The rows of a page: who stayed is among them.
LEMMA ReadRowsKeeps ==
    ASSUME WalkInv, ReadRows
    PROVE  WalkInv'
<1>1. /\ step = "reading" /\ step' = "reading" /\ ids # None /\ items = None
      /\ items' \in Orders(url.query, ids \cap Listed(url.query))
      /\ UNCHANGED <<url, ids, total, seen, stayed, left, came, late>> /\ UNCHANGED table
    BY DEF ReadRows, history
<1>2. ids \cap InList \subseteq Id /\ stayed \subseteq InList /\ InList \subseteq Id
    BY <1>1, SetsIs DEF WalkInv, PageOK
<1>3. /\ items' \in Seq(Id) /\ Distinct(items') /\ ToSet(items') = ids \cap InList
    <2>1. /\ items' \in Seq(ids \cap InList) /\ Distinct(items') /\ ToSet(items') = ids \cap InList
        BY <1>1, <1>2, OrderIs DEF InList, Distinct
    <2> QED
        BY <1>2, <2>1
<1>4. InList' = InList /\ \A i : Rank(i)' = Rank(i)
    BY <1>1, RanksStay
<1>5. TableOK'
    BY <1>1 DEF TableOK, table, WalkInv, WalkTypes
<1>6. WalkTypes'
    BY <1>1, <1>3, <1>5 DEF WalkInv, WalkTypes
<1>7. OnList' = OnList /\ Taken' = Taken /\ Places' = Places /\ Met' = Met
    BY <1>1 DEF OnList, Taken, Places, Met
<1>8. Missed' = Missed /\ Skipped' = Skipped /\ Again' = Again /\ Overtaken' = Overtaken
    BY <1>1, <1>4, <1>7 DEF Missed, Skipped, Again, Overtaken
<1>9. PairsIn(stayed, seen)' = PairsIn(stayed, seen)
    BY <1>1 DEF PairsIn, TimesIn
<1>10. PageOK'
    <2>1. stayed \cap ids \subseteq ToSet(items') /\ ToSet(items') \subseteq ids
        BY <1>2, <1>3
    <2> QED
        BY <1>1, <1>3, <1>4, <1>7, <2>1 DEF WalkInv, PageOK
<1>11. SkippedOK' /\ CountOK' /\ LastOK' /\ RepeatsOK'
    BY <1>1, <1>4, <1>7, <1>8, <1>9 DEF WalkInv, SkippedOK, CountOK, LastOK, RepeatsOK
<1> QED
    BY <1>6, <1>10, <1>11 DEF WalkInv

\* The count: it is the length of the list, and nobody beyond it is missed.
LEMMA CountRowsKeeps ==
    ASSUME WalkInv, CountRows
    PROVE  WalkInv'
<1>1. /\ step = "reading" /\ step' = "reading" /\ total' = Cardinality(InList)
      /\ UNCHANGED <<url, ids, items, seen, stayed, left, came, late>> /\ UNCHANGED table
    BY DEF CountRows, history, InList
<1>2. stayed \subseteq InList /\ InList \subseteq Id /\ Missed \subseteq Id /\ Skipped \subseteq Id
    BY <1>1, SetsIs DEF WalkInv, PageOK
<1>3. total' \in Nat
    BY <1>1, <1>2, UsersFinite
<1>4. InList' = InList /\ \A i : Rank(i)' = Rank(i)
    BY <1>1, RanksStay
<1>5. TableOK'
    BY <1>1 DEF TableOK, table, WalkInv, WalkTypes
<1>6. WalkTypes'
    BY <1>1, <1>3, <1>5 DEF WalkInv, WalkTypes
<1>7. OnList' = OnList /\ Taken' = Taken /\ Places' = Places /\ Met' = Met
    BY <1>1 DEF OnList, Taken, Places, Met
<1>8. Missed' = Missed /\ Skipped' = Skipped /\ Again' = Again /\ Overtaken' = Overtaken
    BY <1>1, <1>4, <1>7 DEF Missed, Skipped, Again, Overtaken
<1>9. PairsIn(stayed, seen)' = PairsIn(stayed, seen)
    BY <1>1 DEF PairsIn, TimesIn
<1>10. PageOK'
    BY <1>1, <1>4, <1>7 DEF WalkInv, PageOK
<1>11. SkippedOK' /\ RepeatsOK'
    BY <1>1, <1>8, <1>9 DEF WalkInv, SkippedOK, RepeatsOK
<1>12. CountOK'
    <2>1. late \in Nat
        BY DEF WalkInv, WalkTypes
    <2>2. Cardinality(InList)' = total' /\ total' <= total' + late'
        BY <1>1, <1>3, <1>4, <2>1
    <2> QED
        BY <2>2 DEF CountOK
<1>13. LastOK'
    <2> SUFFICES ASSUME total' <= Places
                 PROVE  Cardinality(Missed) <= left + late
        BY <1>1, <1>7, <1>8 DEF LastOK
    <2>1. \A i \in InList : Rank(i) \in Nat /\ Rank(i) < total'
        BY <1>1, RanksDiffer DEF WalkInv, WalkTypes
    <2>2. Places \in Nat /\ left \in Nat /\ late \in Nat
        BY <1>1, SetsIs DEF WalkInv, WalkTypes
    <2>3. \A i \in InList : Rank(i) < Places
        BY <1>3, <2>1, <2>2
    <2>4. Missed \in SUBSET Skipped
        BY <1>2, <2>3 DEF Missed, Skipped
    <2>5. /\ Cardinality(Missed) \in Nat /\ Cardinality(Skipped) \in Nat
          /\ Cardinality(Missed) <= Cardinality(Skipped)
        BY <1>2, <2>4, Fewer
    <2>6. Cardinality(Skipped) <= left
        BY <1>1 DEF WalkInv, SkippedOK
    <2> QED
        BY <2>2, <2>5, <2>6
<1> QED
    BY <1>6, <1>10, <1>11, <1>12, <1>13 DEF WalkInv

\* An answer leads to the next page, to the first one, or nowhere: then the count
\* is not beyond the page.
LEMMA RespondIs ==
    ASSUME WalkInv, Respond
    PROVE  /\ step = "reading" /\ items # None /\ total \in Nat /\ total # None
           /\ ids' = None /\ items' = None /\ total' = None
           /\ UNCHANGED <<stayed, left, came, late>> /\ UNCHANGED table
           /\ \/ /\ OnList /\ seen' = seen \o items
                 /\ step' = "reading"
                 /\ url' = BuildPageUrl(url, Page(url.query) + 1, PageSize(url.query))
              \/ /\ OnList /\ seen' = seen \o items
                 /\ step' = "done" /\ url' = url
                 /\ total <= Offset(url.query) + PageSize(url.query)
              \/ /\ ~OnList /\ seen' = seen
                 /\ step' = "reading"
                 /\ url' \in Url /\ url'.path = Collection /\ Page(url'.query) = 1
                 /\ Asked(url'.query, "deleted") = Asked(url.query, "deleted")
                 /\ Asked(url'.query, "sortOrder") = Asked(url.query, "sortOrder")
<1> DEFINE meta == BuildMeta(url.query, total)
           hidden == [NoExtras EXCEPT !.pagination = [meta |-> meta, links |-> None]]
           list == CreateSuccess(url, None, Payload("none", items, NoExtras, hidden))
           about == IF Last(url.path) = "pagination"
                    THEN BuildCollectionPagination(url, meta).links
                    ELSE BuildCollectionHateoas(url, meta)
           next == IF "next" \in DOMAIN list.links THEN list.links["next"] ELSE None
           first == about["first"]
           page == BuildPageUrl(url, Page(url.query) + 1, PageSize(url.query))
<1>1. /\ step = "reading" /\ items # None /\ total # None
      /\ UNCHANGED <<stayed, left, came, late>> /\ UNCHANGED table
      /\ IF url.path = Collection
         THEN seen' = seen \o items /\ Follow(next)
         ELSE seen' = seen /\ Follow(first)
    BY DEF Respond, history
<1>2. url \in Url /\ url.query \in Query /\ total \in Nat
    BY <1>1, UrlIs DEF WalkInv, WalkTypes
<1>3. /\ meta.currentPage = Page(url.query) /\ meta.totalPages \in Nat
      /\ meta.totalPages <= Page(url.query) => total <= Offset(url.query) + PageSize(url.query)
    BY <1>2, MetaIs
<1>4. IF meta.currentPage < meta.totalPages
      THEN "next" \in DOMAIN list.links /\ list.links["next"] = page
      ELSE "next" \notin DOMAIN list.links
    BY <1>2, NextLink
<1>5. url.path # Collection =>
          /\ first \in Url /\ first # None /\ first.path = Collection /\ Page(first.query) = 1
          /\ Asked(first.query, "deleted") = Asked(url.query, "deleted")
          /\ Asked(first.query, "sortOrder") = Asked(url.query, "sortOrder")
    BY <1>2, FirstLink
<1>6. page # None /\ Page(url.query) \in Nat
    <2>1. /\ Page(url.query) \in Nat \ {0} /\ PageSize(url.query) \in Nat \ {0}
          /\ PageSize(url.query) <= MaxLimit
        BY <1>2, AskedIs
    <2>2. Page(url.query) + 1 \in Nat \ {0}
        BY <2>1
    <2> QED
        BY <1>2, <2>1, <2>2, UrlOfPage
<1> HIDE DEF list, first, page, meta
<1>7. CASE meta.currentPage < meta.totalPages /\ url.path = Collection
    BY <1>1, <1>2, <1>4, <1>6, <1>7 DEF Follow, OnList, page
<1>8. CASE ~(meta.currentPage < meta.totalPages) /\ url.path = Collection
    <2>1. meta.totalPages <= Page(url.query)
        BY <1>3, <1>6, <1>8
    <2> QED
        BY <1>1, <1>2, <1>3, <1>4, <1>8, <2>1 DEF Follow, OnList
<1>9. CASE url.path # Collection
    BY <1>1, <1>2, <1>5, <1>9 DEF Follow, OnList
<1> QED
    BY <1>7, <1>8, <1>9

\* A page of the list is appended: the users met are those who are seen.
LEMMA RespondKeeps ==
    ASSUME WalkInv, Respond
    PROVE  WalkInv'
<1>1. /\ step = "reading" /\ items # None /\ total \in Nat /\ total # None
      /\ ids' = None /\ items' = None /\ total' = None
      /\ UNCHANGED <<stayed, left, came, late>> /\ UNCHANGED table
    BY RespondIs
<1>2. url \in Url /\ ids # None /\ items \in Seq(Id) /\ seen \in Seq(Id) /\ stayed \in SUBSET Id
    BY <1>1 DEF WalkInv, WalkTypes, PageOK
<1>3. /\ url.query \in Query /\ Places \in Nat /\ Offset(url.query) \in Nat
      /\ PageSize(url.query) \in Nat \ {0}
      /\ stayed \subseteq InList /\ InList \subseteq Id
      /\ Missed \subseteq Id /\ Skipped \subseteq Id /\ Again \subseteq Id /\ Overtaken \subseteq Id
    BY <1>1, SetsIs DEF WalkInv, PageOK
<1>4. /\ Page(url.query) \in Nat \ {0} /\ PageSize(url.query) <= MaxLimit
      /\ Page(url.query) + 1 \in Nat \ {0}
    <2>1. Page(url.query) \in Nat \ {0} /\ PageSize(url.query) <= MaxLimit
        BY <1>3, AskedIs
    <2> QED
        BY <2>1
<1>5. TableOK'
    BY <1>1 DEF TableOK, table, WalkInv, WalkTypes
<1>6. Cardinality({}) = 0
    BY FS_EmptySet
<1>7. Taken' = {} /\ Met' = ToSet(seen')
    BY <1>1 DEF Taken, Met
<1>8. CASE ~OnList
    <2>1. /\ seen' = seen /\ step' = "reading"
          /\ url' \in Url /\ url'.path = Collection /\ Page(url'.query) = 1
          /\ Asked(url'.query, "deleted") = Asked(url.query, "deleted")
          /\ Asked(url'.query, "sortOrder") = Asked(url.query, "sortOrder")
        BY <1>8, RespondIs
    <2>2. InList' = InList /\ \A i : Rank(i)' = Rank(i)
        BY <1>1, <2>1, RanksStay
    <2>3. seen = <<>> /\ ToSet(seen) = {} /\ Len(seen) = 0
        <3>1. seen = <<>>
            BY <1>1, <1>8 DEF WalkInv, PageOK
        <3>2. ToSet(<<>>) = {} /\ Len(<<>>) = 0
            BY DEF ToSet
        <3> QED
            BY <3>1, <3>2
    <2>4. Places' = 0
        <3>1. url'.query \in Query
            BY <2>1, UrlIs
        <3>2. PageSize(url'.query) \in Nat
            BY <3>1, AskedIs
        <3>3. Offset(url'.query) = 0
            BY <2>1, <3>2 DEF Offset
        <3> QED
            BY <1>1, <2>1, <3>3 DEF Places, OnList
    <2>5. Skipped' = {}
        <3>1. \A i \in stayed : Rank(i) \in Nat
            BY <1>3, RanksDiffer DEF WalkInv, WalkTypes
        <3>2. \A i \in stayed : ~(Rank(i) < 0)
            BY <3>1
        <3> QED
            BY <1>1, <2>2, <2>4, <3>2 DEF Skipped, Missed
    <2>6. Again' = {} /\ Overtaken' = {}
        BY <1>7, <2>1, <2>3 DEF Again, Overtaken
    <2>7. PairsIn(stayed, seen)' = {}
        <3>1. 2 .. 0 = {}
            OBVIOUS
        <3> QED
            BY <2>1, <2>3, <3>1 DEF PairsIn
    <2>8. WalkTypes'
        BY <1>1, <1>2, <1>5, <2>1 DEF WalkInv, WalkTypes
    <2>9. PageOK'
        BY <1>1, <1>3, <2>1, <2>2 DEF PageOK, OnList
    <2>10. SkippedOK' /\ CountOK' /\ LastOK'
        BY <1>1, <1>6, <2>1, <2>5 DEF SkippedOK, CountOK, LastOK, WalkInv, WalkTypes
    <2>11. RepeatsOK'
        <3>1. /\ Cardinality(PairsIn(stayed, seen)') = 0
              /\ Cardinality(Again') = 0 /\ Cardinality(Overtaken') = 0
            BY <1>6, <2>6, <2>7
        <3>2. came' \in Nat /\ step' # "done"
            BY <1>1, <2>1 DEF WalkInv, WalkTypes
        <3> QED
            BY <3>1, <3>2 DEF RepeatsOK
    <2> QED
        BY <2>8, <2>9, <2>10, <2>11 DEF WalkInv
<1>9. CASE OnList
    <2>1. /\ Distinct(items) /\ stayed \cap ids \subseteq ToSet(items) /\ ToSet(items) \subseteq ids
          /\ Taken = ids /\ Met = ToSet(seen) \cup ids
          /\ Places = Offset(url.query) + PageSize(url.query)
        BY <1>1, <1>2, <1>9 DEF WalkInv, PageOK, Taken, Met, Places
    <2>2. seen' = seen \o items
        BY <1>9, RespondIs
    <2>3. ToSet(seen') = ToSet(seen) \cup ToSet(items) /\ seen' \in Seq(Id)
        BY <1>2, <2>1, <2>2, TimesAfter DEF Distinct
    <2>4. /\ stayed \ ToSet(seen') \in SUBSET Missed
          /\ stayed \cap ToSet(seen') \subseteq Met
        BY <2>1, <2>3 DEF Missed
    <2>5. /\ Cardinality(stayed \ ToSet(seen')) \in Nat /\ Cardinality(Missed) \in Nat
          /\ Cardinality(stayed \ ToSet(seen')) <= Cardinality(Missed)
        BY <1>3, <2>4, Fewer
    <2>6. /\ Cardinality(PairsIn(stayed, seen')) \in Nat
          /\ Cardinality(PairsIn(stayed, seen')) <=
                 Cardinality(PairsIn(stayed, seen)) + Cardinality(Again)
        <3> DEFINE A == stayed \cap ToSet(seen) \cap ToSet(items)
        <3>1. /\ Cardinality(PairsIn(stayed, seen')) \in Nat
              /\ Cardinality(PairsIn(stayed, seen')) <= Cardinality(PairsIn(stayed, seen)) + Cardinality(A)
            BY <1>2, <2>1, <2>2, PairsAfter DEF Distinct
        <3>2. A \in SUBSET Again
            BY <2>1 DEF Again
        <3> HIDE DEF A
        <3>3. Cardinality(A) \in Nat /\ Cardinality(Again) \in Nat /\ Cardinality(A) <= Cardinality(Again)
            BY <1>3, <3>2, Fewer
        <3>4. Cardinality(PairsIn(stayed, seen)) \in Nat
            BY <1>2, PairsIs
        <3> QED
            BY <3>1, <3>3, <3>4
    <2>7. /\ Cardinality(PairsIn(stayed, seen)) \in Nat /\ Cardinality(Again) \in Nat
          /\ Cardinality(Overtaken) \in Nat
          /\ Cardinality(PairsIn(stayed, seen)) + Cardinality(Again) + Cardinality(Overtaken) <= came
          /\ came \in Nat /\ left \in Nat /\ late \in Nat
        BY <1>1, <1>2, <1>3, PairsIs, UsersFinite DEF WalkInv, WalkTypes, RepeatsOK
    <2>8. CASE step' = "reading"
        <3>1. url' = BuildPageUrl(url, Page(url.query) + 1, PageSize(url.query))
            BY <1>9, <2>8, RespondIs
        <3>2. /\ url' \in Url /\ url'.path = Collection
              /\ Page(url'.query) = Page(url.query) + 1 /\ PageSize(url'.query) = PageSize(url.query)
              /\ Asked(url'.query, "deleted") = Asked(url.query, "deleted")
              /\ Asked(url'.query, "sortOrder") = Asked(url.query, "sortOrder")
            BY <1>2, <1>3, <1>4, <1>9, <3>1, UrlOfPage DEF OnList
        <3>3. InList' = InList /\ \A i : Rank(i)' = Rank(i)
            BY <1>1, <3>2, RanksStay
        <3>4. Places' = Places
            <4>1. Offset(url'.query) = Offset(url.query) + PageSize(url.query)
                <5>1. ASSUME NEW p \in Nat, NEW l \in Nat
                      PROVE  (p + 1 - 1) * l = (p - 1) * l + l
                    OBVIOUS
                <5> QED
                    BY <1>3, <1>4, <3>2, <5>1 DEF Offset
            <4>2. Places' = Offset(url'.query) + 0
                BY <1>1, <3>2 DEF Places, OnList
            <4>3. Offset(url.query) + PageSize(url.query) \in Nat
                BY <1>3
            <4> QED
                BY <2>1, <4>1, <4>2, <4>3
        <3>5. WalkTypes'
            BY <1>1, <1>2, <1>5, <2>3, <2>8, <3>2 DEF WalkInv, WalkTypes
        <3>6. PageOK'
            BY <1>1, <1>3, <2>8, <3>2, <3>3 DEF PageOK, OnList
        <3>7. Skipped' \in SUBSET Skipped /\ Overtaken' \in SUBSET Overtaken /\ Again' = {}
            BY <1>1, <1>7, <2>4, <3>3, <3>4 DEF Skipped, Missed, Overtaken, Again
        <3>8. SkippedOK' /\ CountOK' /\ LastOK'
            <4>1. /\ Cardinality(Skipped') \in Nat /\ Cardinality(Skipped) \in Nat
                  /\ Cardinality(Skipped') <= Cardinality(Skipped)
                BY <1>3, <3>7, Fewer
            <4>2. Cardinality(Skipped) <= left
                BY <1>1 DEF WalkInv, SkippedOK
            <4> QED
                BY <1>1, <2>7, <2>8, <4>1, <4>2 DEF SkippedOK, CountOK, LastOK
        <3>9. RepeatsOK'
            <4>1. /\ Cardinality(Overtaken') \in Nat /\ Cardinality(Overtaken') <= Cardinality(Overtaken)
                BY <1>3, <3>7, Fewer
            <4>2. Cardinality(Again') = 0
                BY <1>6, <3>7
            <4>3. Cardinality(PairsIn(stayed, seen)') = Cardinality(PairsIn(stayed, seen'))
                BY <1>1 DEF PairsIn, TimesIn
            <4> QED
                BY <1>1, <2>6, <2>7, <2>8, <4>1, <4>2, <4>3 DEF RepeatsOK
        <3> QED
            BY <3>5, <3>6, <3>8, <3>9 DEF WalkInv
    <2>9. CASE step' = "done"
        <3>1. url' = url /\ total <= Places
            BY <1>9, <2>1, <2>9, RespondIs
        <3>2. WalkTypes'
            BY <1>1, <1>2, <1>5, <2>3, <2>9, <3>1 DEF WalkInv, WalkTypes
        <3>3. PageOK' /\ SkippedOK' /\ CountOK'
            BY <2>9 DEF PageOK, SkippedOK, CountOK
        <3>4. LastOK'
            <4>1. Cardinality(Missed) <= left + late
                BY <1>1, <1>2, <1>9, <3>1 DEF WalkInv, LastOK
            <4> QED
                BY <1>1, <2>5, <2>7, <2>9, <4>1 DEF LastOK
        <3>5. RepeatsOK'
            <4>1. Cardinality(PairsIn(stayed, seen)') = Cardinality(PairsIn(stayed, seen'))
                BY <1>1 DEF PairsIn, TimesIn
            <4> QED
                BY <1>1, <2>6, <2>7, <2>9, <4>1 DEF RepeatsOK
        <3> QED
            BY <3>2, <3>3, <3>4, <3>5 DEF WalkInv
    <2> QED
        BY <1>9, <2>8, <2>9, RespondIs
<1> QED
    BY <1>8, <1>9

\* A change to one user: others move by one place at most, and each place is one
\* user's.
LEMMA ObserveKeeps ==
    ASSUME WalkInv, step = "reading", TableOK', NEW j \in Id, Observe(j),
           \A k \in Id \ {j} : rows'[k] = rows[k] /\ (k \in deleted' <=> k \in deleted)
    PROVE  WalkInv'
<1> DEFINE l == IF j \in InList THEN 1 ELSE 0
           c == IF j \in InList' THEN 1 ELSE 0
<1>1. /\ UNCHANGED <<step, url, ids, items, total, seen>>
      /\ stayed' = stayed \ {j}
      /\ left' = left + l /\ came' = came + c
      /\ late' = IF total # None /\ ids = None THEN late + c ELSE late
    <2> DEFINE before == { k \in {j} : k \in Listed(url.query) }
               after == { k \in {j} : k \in Listed(url.query)' }
               stays == before = after /\ rows'[j] = rows[j]
               left1 == IF stays THEN 0 ELSE Cardinality(before)
               came1 == IF stays THEN 0 ELSE Cardinality(after)
    <2>1. /\ UNCHANGED <<step, url, ids, items, total, seen>>
          /\ stayed' = stayed \ {j}
          /\ left' = left + left1 /\ came' = came + came1
          /\ late' = IF total # None /\ ids = None THEN late + came1 ELSE late
          /\ left1 + came1 > 0
        BY DEF Observe, request
    <2>2. ~stays
        BY <2>1
    <2>3. Cardinality({}) = 0 /\ Cardinality({j}) = 1
        BY FS_EmptySet, FS_Singleton
    <2>4. /\ before = IF j \in InList THEN {j} ELSE {}
          /\ after = IF j \in InList' THEN {j} ELSE {}
        BY DEF InList
    <2>5. left1 = l /\ came1 = c
        BY <2>2, <2>3, <2>4
    <2> QED
        BY <2>1, <2>5
<1>2. l \in {0, 1} /\ c \in {0, 1}
    OBVIOUS
<1>3. /\ url.query \in Query /\ Places \in Nat
      /\ InList \subseteq Id /\ Missed \subseteq Id /\ Skipped \subseteq Id
      /\ Again \subseteq Id /\ Overtaken \subseteq Id /\ stayed \subseteq InList
      /\ stayed \in SUBSET Id /\ seen \in Seq(Id)
      /\ left \in Nat /\ came \in Nat /\ late \in Nat /\ total \in Nat \cup {None}
    BY SetsIs DEF WalkInv, WalkTypes, PageOK
<1>4. /\ InList' \ {j} = InList \ {j}
      /\ \A i \in InList \ {j} :
            /\ Rank(i) \in Nat /\ Rank(i)' \in Nat
            /\ Rank(i)' >= Rank(i) - l
            /\ Rank(i)' <= Rank(i) + c
    BY <1>1, <1>3, RanksMove DEF WalkInv, WalkTypes
<1>5. \A i, k \in InList : Rank(i) = Rank(k) => i = k
    BY RanksDiffer DEF WalkInv, WalkTypes
<1>6. /\ OnList' = OnList /\ Taken' = Taken /\ Places' = Places /\ Met' = Met
    BY <1>1 DEF OnList, Taken, Places, Met
<1>7. left' \in Nat /\ came' \in Nat /\ late' \in Nat /\ left' >= left /\ late' >= late
    BY <1>1, <1>2, <1>3
<1>8. WalkTypes'
    BY <1>1, <1>3, <1>7 DEF WalkInv, WalkTypes
<1>9. PageOK'
    <2>1. stayed' \subseteq InList'
        BY <1>1, <1>3, <1>4
    <2> QED
        BY <1>1, <1>6, <2>1 DEF WalkInv, PageOK
<1>10. SkippedOK'
    <2> SUFFICES Cardinality(Skipped') <= left'
        BY DEF SkippedOK
    <2>1. Cardinality(Skipped) <= left
        BY DEF WalkInv, SkippedOK
    <2>2. \A i \in Skipped' : i \in Missed /\ i \in InList \ {j} /\ Rank(i)' < Places
        BY <1>1, <1>3, <1>6 DEF Skipped, Missed
    <2>3. \A i \in Skipped' \ Skipped : l = 1 /\ Rank(i) = Places
        <3> SUFFICES ASSUME NEW i \in Skipped' \ Skipped
                     PROVE  l = 1 /\ Rank(i) = Places
            OBVIOUS
        <3>1. ~(Rank(i) < Places) /\ Rank(i)' < Places
            BY <2>2 DEF Skipped
        <3>2. Rank(i) \in Nat /\ Rank(i)' \in Nat /\ Rank(i)' >= Rank(i) - l
            BY <1>4, <2>2
        <3> HIDE DEF l
        <3> QED
            BY <1>2, <1>3, <3>1, <3>2
    <2>4. Skipped' \subseteq Id
        BY <1>3, <2>2
    <2>5. CASE Skipped' \subseteq Skipped
        <3>1. /\ Cardinality(Skipped') \in Nat /\ Cardinality(Skipped) \in Nat
              /\ Cardinality(Skipped') <= Cardinality(Skipped)
            BY <1>3, <2>5, Fewer
        <3> QED
            BY <1>3, <1>7, <2>1, <3>1
    <2>6. CASE ~(Skipped' \subseteq Skipped)
        <3>1. PICK x \in Skipped' \ Skipped : TRUE
            BY <2>6
        <3>2. Skipped' \subseteq Skipped \cup {x}
            BY <1>5, <2>2, <2>3, <3>1
        <3>3. /\ Cardinality(Skipped') \in Nat /\ Cardinality(Skipped) \in Nat
              /\ Cardinality(Skipped') <= Cardinality(Skipped) + 1
            BY <1>3, <2>4, <3>2, OneMore
        <3>4. left' = left + 1
            BY <1>1, <2>3, <3>1
        <3> QED
            BY <1>3, <2>1, <3>3, <3>4
    <2> QED
        BY <2>5, <2>6
<1>11. CountOK'
    <2> SUFFICES ASSUME total # None, ids = None
                 PROVE  Cardinality(InList') <= total + late'
        BY <1>1 DEF CountOK
    <2>1. Cardinality(InList) <= total + late /\ total \in Nat
        BY <1>3 DEF WalkInv, CountOK
    <2>2. late' = late + c
        BY <1>1
    <2>3. InList' \subseteq Id
        BY <1>3, <1>4
    <2>4. CASE j \in InList'
        <3>1. InList' \subseteq InList \cup {j}
            BY <1>4
        <3>2. /\ Cardinality(InList') \in Nat /\ Cardinality(InList) \in Nat
              /\ Cardinality(InList') <= Cardinality(InList) + 1
            BY <1>3, <2>3, <3>1, OneMore
        <3> QED
            BY <1>3, <2>1, <2>2, <2>4, <3>2
    <2>5. CASE j \notin InList'
        <3>1. InList' \in SUBSET InList
            BY <1>4, <2>5
        <3>2. /\ Cardinality(InList') \in Nat /\ Cardinality(InList) \in Nat
              /\ Cardinality(InList') <= Cardinality(InList)
            BY <1>3, <3>1, Fewer
        <3> QED
            BY <1>3, <2>1, <2>2, <2>5, <3>2
    <2> QED
        BY <2>4, <2>5
<1>12. LastOK'
    <2> SUFFICES ASSUME total # None, ids # None, OnList, total <= Places
                 PROVE  Cardinality(Missed') <= left' + late'
        BY <1>1, <1>6 DEF LastOK
    <2>1. Cardinality(Missed) <= left + late
        BY DEF WalkInv, LastOK
    <2>2. Missed' \in SUBSET Missed
        BY <1>1, <1>6 DEF Missed
    <2>3. /\ Cardinality(Missed') \in Nat /\ Cardinality(Missed) \in Nat
          /\ Cardinality(Missed') <= Cardinality(Missed)
        BY <1>3, <2>2, Fewer
    <2> QED
        BY <1>3, <1>7, <2>1, <2>3
<1>13. RepeatsOK'
    <2> SUFFICES Cardinality(PairsIn(stayed', seen)) + Cardinality(Again') + Cardinality(Overtaken')
                     <= came'
        BY <1>1 DEF RepeatsOK, PairsIn, TimesIn
    <2>1. Cardinality(PairsIn(stayed, seen)) + Cardinality(Again) + Cardinality(Overtaken) <= came
        BY DEF WalkInv, RepeatsOK
    <2>2. /\ Cardinality(PairsIn(stayed', seen)) \in Nat /\ Cardinality(PairsIn(stayed, seen)) \in Nat
          /\ Cardinality(PairsIn(stayed', seen)) <= Cardinality(PairsIn(stayed, seen))
        BY <1>1, <1>3, PairsIs
    <2>3. /\ Cardinality(Again') \in Nat /\ Cardinality(Again) \in Nat
          /\ Cardinality(Again') <= Cardinality(Again)
        <3>1. Again' \in SUBSET Again
            BY <1>1, <1>6 DEF Again
        <3> QED
            BY <1>3, <3>1, Fewer
    <2>4. \A i \in Overtaken' : i \in stayed \cap Met /\ i \in InList \ {j} /\ Rank(i)' >= Places
        BY <1>1, <1>3, <1>6 DEF Overtaken
    <2>5. \A i \in Overtaken' \ Overtaken : c = 1 /\ Rank(i) = Places - 1
        <3> SUFFICES ASSUME NEW i \in Overtaken' \ Overtaken
                     PROVE  c = 1 /\ Rank(i) = Places - 1
            OBVIOUS
        <3>1. ~(Rank(i) >= Places) /\ Rank(i)' >= Places
            BY <2>4 DEF Overtaken
        <3>2. Rank(i) \in Nat /\ Rank(i)' \in Nat /\ Rank(i)' <= Rank(i) + c
            BY <1>4, <2>4
        <3> HIDE DEF c
        <3> QED
            BY <1>2, <1>3, <3>1, <3>2
    <2>6. Overtaken' \subseteq Id
        BY <1>3, <2>4
    <2>7. Cardinality(Overtaken') \in Nat /\ Cardinality(Overtaken) \in Nat
        BY <1>3, <2>6, UsersFinite
    <2>8. CASE Overtaken' \subseteq Overtaken
        <3>1. Cardinality(Overtaken') <= Cardinality(Overtaken)
            BY <1>3, <2>8, Fewer
        <3> QED
            BY <1>1, <1>2, <1>3, <2>1, <2>2, <2>3, <2>7, <3>1
    <2>9. CASE ~(Overtaken' \subseteq Overtaken)
        <3>1. PICK x \in Overtaken' \ Overtaken : TRUE
            BY <2>9
        <3>2. Overtaken' \subseteq Overtaken \cup {x}
            BY <1>5, <2>4, <2>5, <3>1
        <3>3. Cardinality(Overtaken') <= Cardinality(Overtaken) + 1
            BY <1>3, <2>6, <3>2, OneMore
        <3>4. came' = came + 1
            BY <1>1, <2>5, <3>1
        <3> QED
            BY <1>3, <2>1, <2>2, <2>3, <2>7, <3>3, <3>4, SMTT(30)
    <2> QED
        BY <2>8, <2>9
<1> QED
    BY <1>8, <1>9, <1>10, <1>11, <1>12, <1>13 DEF WalkInv

\* Every step keeps the invariant.
LEMMA StepWalkInv ==
    ASSUME WalkInv, [WalkNext]_walking
    PROVE  WalkInv'
<1>1. ASSUME NEW u \in Start, Ask(u) PROVE WalkInv'
    BY <1>1, AskKeeps
<1>2. CASE ReadIds
    BY <1>2, ReadIdsKeeps
<1>3. CASE ReadRows
    BY <1>3, ReadRowsKeeps
<1>4. CASE CountRows
    BY <1>4, CountRowsKeeps
<1>5. CASE Respond
    BY <1>5, RespondKeeps
<1>6. TableOK
    BY DEF WalkInv, WalkTypes
<1>7. ASSUME NEW i \in Id, SoftDelete(i) PROVE WalkInv'
    <2>1. /\ step = "reading" /\ Observe(i) /\ rows' = rows /\ deleted' = deleted \cup {i}
        BY <1>7 DEF SoftDelete, Disturbed
    <2>2. TableOK' /\ \A k \in Id \ {i} : rows'[k] = rows[k] /\ (k \in deleted' <=> k \in deleted)
        BY <1>6, <2>1 DEF TableOK
    <2> QED
        BY <2>1, <2>2, ObserveKeeps
<1>8. ASSUME NEW i \in Id, HardDelete(i) PROVE WalkInv'
    <2>1. /\ step = "reading" /\ Observe(i) /\ rows' = [rows EXCEPT ![i] = None]
          /\ deleted' = deleted \ {i}
        BY <1>8 DEF HardDelete, Disturbed
    <2>2. TableOK' /\ \A k \in Id \ {i} : rows'[k] = rows[k] /\ (k \in deleted' <=> k \in deleted)
        BY <1>6, <2>1 DEF TableOK
    <2> QED
        BY <2>1, <2>2, ObserveKeeps
<1>9. ASSUME NEW i \in Id, NEW k \in Key, Create(i, k) \/ Update(i, k) PROVE WalkInv'
    <2>1. /\ step = "reading" /\ Observe(i) /\ rows' = [rows EXCEPT ![i] = k]
          /\ deleted' = deleted
        BY <1>9 DEF Create, Update, Disturbed
    <2>2. TableOK' /\ \A m \in Id \ {i} : rows'[m] = rows[m] /\ (m \in deleted' <=> m \in deleted)
        BY <1>6, <2>1 DEF TableOK
    <2> QED
        BY <2>1, <2>2, ObserveKeeps
<1>10. CASE UNCHANGED walking
    <2>1. UNCHANGED <<step, url, ids, items, total, seen, stayed, left, came, late>> /\ UNCHANGED table
        BY <1>10 DEF walking, request, history
    <2>2. InList' = InList /\ \A i : Rank(i)' = Rank(i)
        BY <2>1, RanksStay
    <2>3. TableOK'
        BY <1>6, <2>1 DEF TableOK, table
    <2>4. OnList' = OnList /\ Taken' = Taken /\ Places' = Places /\ Met' = Met
        BY <2>1 DEF OnList, Taken, Places, Met
    <2>5. Missed' = Missed /\ Skipped' = Skipped /\ Again' = Again /\ Overtaken' = Overtaken
        BY <2>1, <2>2, <2>4 DEF Missed, Skipped, Again, Overtaken
    <2>6. PairsIn(stayed, seen)' = PairsIn(stayed, seen)
        BY <2>1 DEF PairsIn, TimesIn
    <2>7. WalkTypes' /\ PageOK'
        BY <2>1, <2>2, <2>3, <2>4 DEF WalkInv, WalkTypes, PageOK
    <2>8. SkippedOK' /\ CountOK' /\ LastOK' /\ RepeatsOK'
        BY <2>1, <2>2, <2>4, <2>5, <2>6 DEF WalkInv, SkippedOK, CountOK, LastOK, RepeatsOK
    <2> QED
        BY <2>7, <2>8 DEF WalkInv
<1> QED
    BY <1>1, <1>2, <1>3, <1>4, <1>5, <1>7, <1>8, <1>9, <1>10 DEF WalkNext

LEMMA WalkInvariance == WalkSpec => []WalkInv
<1>1. WalkInv /\ [WalkNext]_walking => WalkInv'
    BY StepWalkInv
<1> QED
    BY InitWalkInv, <1>1, PTL DEF WalkSpec

\* A walk misses nobody who stayed, but for one for each who left the list or moved
\* in it, and for each who came between the count and the rows of a page.
THEOREM MissesNoOne == WalkSpec => []WalkMissesNoOne
<1>1. WalkInv => WalkMissesNoOne
    <2> SUFFICES ASSUME WalkInv, step = "done"
                 PROVE  Cardinality({ i \in stayed : Times(i) = 0 }) <= left + late
        BY DEF WalkMissesNoOne
    <2>1. \A i : Times(i) = 0 <=> i \notin ToSet(seen)
        <3>1. seen \in Seq(Id)
            BY DEF WalkInv, WalkTypes
        <3> QED
            BY <3>1, TimesIs DEF Times, TimesIn
    <2>2. { i \in stayed : Times(i) = 0 } = stayed \ ToSet(seen)
        BY <2>1
    <2> QED
        BY <2>2 DEF WalkInv, LastOK
<1> QED
    BY <1>1, WalkInvariance, PTL

\* A walk shows nobody who stayed twice, but for one time for each who came to the
\* list or moved in it.
THEOREM RepeatsNoOne == WalkSpec => []WalkRepeatsNoOne
<1>1. WalkInv => WalkRepeatsNoOne
    BY DEF WalkInv, RepeatsOK, WalkRepeatsNoOne, PairsIn, Times, TimesIn
<1> QED
    BY <1>1, WalkInvariance, PTL
=============================================================================
