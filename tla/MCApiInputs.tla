---------------------------- MODULE MCApiInputs ----------------------------
(* Routes, payloads, snapshots and exceptions for ApiRequests.             *)
EXTENDS ResponseEnvelopes, TLC

List == [path |-> <<"users">>, query |-> ("page" :> 2) @@ ("search" :> 7)]
Detail == [path |-> <<"users", "id">>, query |-> <<>>]

Routes ==
    { [url |-> u, skip |-> FALSE, withLimits |-> b] : u \in {List, Detail}, b \in BOOLEAN }
    \cup { [url |-> Detail, skip |-> TRUE, withLimits |-> TRUE] }

Meta(at, total) == [currentPage |-> at, totalPages |-> total, pageSize |-> 2]

Paginations ==
    { [meta |-> Meta(at, 3), links |-> None] : at \in 1..4 }
    \cup { BuildCollectionPagination(List, Meta(2, 3)), None }

Slots(strategy, given) == [strategy |-> strategy, given |-> given]
Snapshots ==
    { Slots("user", {}), Slots("parent", {"parentId"}), Slots("tree", {"level", "scopeField"}) }

Links == { None, "create" :> Detail, ("self" :> Detail) @@ ("next" :> List) }

Extras(paginations, links) ==
    { [pagination |-> p, limits |-> l, links |-> k] :
        p \in paginations, l \in {None, Slots("user", {}), Slots("user", {"parentId"})},
        k \in links }

Data == {"record", "list", None}
Hidden ==
    { NoExtras }
    \cup { [pagination |-> p, limits |-> None, links |-> k] : p \in Paginations, k \in Links }
    \cup { [NoExtras EXCEPT !.limits = Slots("parent", {"parentId"})] }

Payloads ==
    { Payload(shape, d, b, h) :
        shape \in {"data", "items"}, d \in Data,
        b \in Extras({None, Malformed, [meta |-> Meta(1, 1), links |-> None]},
                     Links \cup {Malformed}),
        h \in Hidden }
    \cup { Payload("record", d, NoExtras, h) : d \in {"record"}, h \in Hidden }
    \cup { Payload("none", d, NoExtras, NoExtras) : d \in {None} }

-----------------------------------------------------------------------------
Raw(form, code, validation, property) ==
    [form |-> form, code |-> code, validation |-> validation, property |-> property]

Texts ==
    { Raw("text", None, FALSE, None), Raw("generic", None, FALSE, None),
      Raw("key", "taken", FALSE, None), Raw("key", "min", TRUE, None),
      Raw("key", "min", TRUE, "email") }

Constraint(n) == [name |-> n, raw |-> IF n = "min" THEN Raw("key", "min", TRUE, None)
                                      ELSE Raw("text", None, FALSE, None)]
Constraints == { <<>>, <<Constraint("min")>>, <<Constraint("min"), Constraint("email")>> }

Node(p, cs, children) == [property |-> p, constraints |-> cs, children |-> children]
Leaves == { Node(p, cs, <<>>) : p \in {"email", "general", None}, cs \in Constraints }
Branches ==
    Leaves \cup { Node(p, cs, <<l>>) : p \in {"email", None}, cs \in Constraints, l \in Leaves }
Trees ==
    { <<>> } \cup { <<b>> : b \in Branches } \cup { <<b, c>> : b \in Branches, c \in Leaves }
    \cup { <<Node("email", <<>>, <<l, m>>)>> : l, m \in Leaves }
\* Lists of errors without children, and one level of nesting above them.
Lists == Trees \cup { <<l>> : l \in Leaves } \cup { <<l, m>> : l, m \in Leaves }
Depths == [l \in Lists |-> IF l = <<>> THEN 0
                           ELSE IF \A i \in 1..Len(l) : l[i].children = <<>> THEN 1 ELSE 2]

Failure == [code |-> "taken", raw |-> Raw("key", "taken", FALSE, None)]
Entry(path, kind, failures) == [path |-> path, kind |-> kind, failures |-> failures]
Bags ==
    { <<>>, <<Entry(<<"email">>, "field", <<>>)>>,
      <<Entry(<<"email">>, "field", <<Failure>>), Entry(<<"email">>, "business", <<Failure>>)>>,
      <<Entry(<<>>, "system", <<Failure, Failure>>)>> }

NoneGiven == [kind |-> "none", list |-> <<>>]
Errors == { NoneGiven } \cup { [kind |-> "bag", list |-> b] : b \in Bags }
Tree(t) == [kind |-> "tree", list |-> t]

Message(is, raws) == [is |-> is, raws |-> raws]
Messages ==
    { Message("none", <<>>), Message("template", <<>>) }
    \cup { Message("text", <<t>>) : t \in Texts }
    \cup { Message("texts", <<t>>) : t \in Texts } \cup { Message("texts", <<t, u>>) : t, u \in Texts }

Exception(class, status, body, message, errors) ==
    [class |-> class, status |-> status, body |-> body, message |-> message,
     errors |-> errors, kind |-> None, code |-> None]

Statuses == {400, 404, 413, 500}
Exceptions ==
    { [Exception("app", s, "record", Message("template", <<>>), e) EXCEPT !.kind = k, !.code = c] :
        s \in Statuses, e \in Errors, k \in {None, "business", "system"}, c \in {None, "taken"} }
    \cup { Exception("http", s, "record", m, e) : s \in Statuses, m \in Messages, e \in Errors }
    \cup { Exception("http", s, "text", Message("text", <<t>>), NoneGiven) :
             s \in Statuses, t \in Texts }
    \cup { Exception("other", s, "none", Message("none", ts), NoneGiven) :
             s \in Statuses \cup {None}, ts \in {<<>>} \cup { <<t>> : t \in Texts } }
    \cup { Exception("http", 400, "record", Message("template", <<>>), Tree(t)) : t \in Trees }
    \cup { Exception("i18nValidation", 400, "none", Message("none", <<>>), Tree(t)) : t \in Trees }
=============================================================================
