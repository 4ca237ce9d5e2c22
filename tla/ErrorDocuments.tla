--------------------------- MODULE ErrorDocuments ---------------------------
(***************************************************************************)
(* The document a failed request is answered with: ApiExceptionFilter maps *)
(* whatever was thrown to a status, a message and failures by path.        *)
(*                                                                         *)
(* A text is what the filter tells apart of it; what a text or a template  *)
(* is translated to is written as the text or the template itself.  Field  *)
(* paths are sequences of names; names every object inherits are left out. *)
(***************************************************************************)
EXTENDS ResponseEnvelopes, SequencesExt

CONSTANTS
    Violations,     \* bound: lists of validation errors, those of the children included
    Depth           \* how deep the errors of a list are nested

\* Lists are finite, and so is their nesting, as it is that of a request.
ASSUME ViolationsAssumption ==
    /\ Depth \in [Violations -> Nat]
    /\ \A list \in Violations :
          /\ Len(list) \in Nat
          /\ \A i \in 1..Len(list) :
                /\ list[i].property \in STRING \cup {None}
                /\ LET cs == list[i].constraints
                   IN  Len(cs) \in Nat /\ cs = [c \in 1..Len(cs) |-> cs[c]]
                /\ list[i].children \in Violations
                /\ Depth[list[i].children] < Depth[list]

General == <<"general">>
System == <<"system">>

\* The statuses getDefaultErrorMessage has a message and a code for.
Named == {400, 401, 403, 404, 408, 409, 429}

DefaultOf(status) == IF status \in Named THEN status ELSE 500

\* What is shown: the default text of a status, the validation text, the
\* template the exception carries, or a text it carries.
Says(what, of) == <<what, of>>
Default(status) == Says("default", DefaultOf(status))
Validation == Says("validation", None)
Own == Says("own", None)
Code(what, of) == <<what, of>>
DefaultCode(status) == Code("default", DefaultOf(status))

-----------------------------------------------------------------------------
(* Texts.  form: an i18n key, the generic text of a status, or any other.  *)
(* A key has its last segment as code, and is one of validation or not; it *)
(* may carry the name of a property.                                       *)

IsI18n(raw) == raw.form = "key"
IsValidationI18nMessage(raw) == IsI18n(raw) /\ raw.validation
GetI18nFailureCode(raw, fallback) == IF IsI18n(raw) THEN Code("key", raw.code) ELSE fallback
GetParsedI18nProperty(raw) == IF IsI18n(raw) THEN raw.property ELSE None
IsGenericHttpMessage(status, raw) == raw.form = "generic" /\ status \in Named

-----------------------------------------------------------------------------
(* Failures by path.                                                       *)

NoErrors == [path \in {} |-> {}]

AppendFailure(bag, path, code, says, kind) ==
    LET safe == IF path = <<>> THEN General ELSE path
        current == IF safe \in DOMAIN bag THEN bag[safe] ELSE [kind |-> kind, failures |-> <<>>]
        extended == [current EXCEPT !.failures = Append(@, [code |-> code, says |-> says])]
    IN  [p \in DOMAIN bag \cup {safe} |-> IF p = safe THEN extended ELSE bag[p]]

AppendFieldFailure(bag, path, code, says) == AppendFailure(bag, path, code, says, "field")
AppendBusinessFailure(bag, code, says) == AppendFailure(bag, General, code, says, "business")
AppendSystemFailure(bag, code, says) == AppendFailure(bag, System, code, says, "system")

\* Failures of a list, one after the other, in a bag.
Filing(path, code, says, kind) == [path |-> path, code |-> code, says |-> says, kind |-> kind]

AppendFailures(list) ==
    LET bag[n \in 0..Len(list)] ==
            IF n = 0 THEN NoErrors
            ELSE AppendFailure(bag[n - 1], list[n].path, list[n].code, list[n].says, list[n].kind)
    IN  bag[Len(list)]

HasApiErrors(bag) == DOMAIN bag # {}

ResolveDefaultErrorKind(status) == IF status >= 500 THEN "system" ELSE "business"

\* buildSingleErrorFromTemplate; no caller asks for the kind field.
Single(kind, code, says) ==
    IF kind = "system" THEN AppendSystemFailure(NoErrors, code, says)
    ELSE AppendBusinessFailure(NoErrors, code, says)

SingleDefault(status) ==
    Single(ResolveDefaultErrorKind(status), DefaultCode(status), Default(status))

\* ApiErrors the exception carries: entries [path, kind, failures], where paths that
\* differ by spaces only are one path.
NormalizeApiErrors(errors) ==
    LET Filings(entry) ==
            [i \in 1..Len(entry.failures) |->
                Filing(entry.path, Code("own", entry.failures[i].code),
                       Says("text", entry.failures[i].raw), entry.kind)]
        bag == AppendFailures(FlattenSeq([i \in 1..Len(errors.list) |-> Filings(errors.list[i])]))
    IN  IF errors.kind = "bag" /\ HasApiErrors(bag) THEN bag ELSE None

-----------------------------------------------------------------------------
(* Validation errors: trees of [property, constraints, children], as class- *)
(* validator makes them; a constraint is its name with its message.         *)

BuildValidationPath(parent, property) == IF property = None THEN parent ELSE Append(parent, property)

\* Mistake, for mutation: the children of an error with constraints are not visited.
FlattenValidationErrors_Shallow(errors, parent) ==
    LET Flatten[list \in Violations] ==
            [above \in Seq(STRING) |-> FlattenSeq([i \in 1..Len(list) |->
                LET path == BuildValidationPath(above, list[i].property)
                IN  IF path # <<>> /\ list[i].constraints # <<>>
                    THEN << [path |-> path, constraints |-> list[i].constraints] >>
                    ELSE Flatten[list[i].children][path]])]
    IN  Flatten[errors][parent]

FlattenValidationErrors(errors, parent) ==
    LET Flatten[list \in Violations] ==
            [above \in Seq(STRING) |-> FlattenSeq([i \in 1..Len(list) |->
                LET path == BuildValidationPath(above, list[i].property)
                    current == IF path # <<>> /\ list[i].constraints # <<>>
                               THEN << [path |-> path, constraints |-> list[i].constraints] >>
                               ELSE <<>>
                IN  current \o Flatten[list[i].children][path]])]
    IN  Flatten[errors][parent]

BuildValidationErrors(errors) ==
    LET Filings(item) ==
            [i \in 1..Len(item.constraints) |->
                LET c == item.constraints[i]
                IN  Filing(item.path, GetI18nFailureCode(c.raw, Code("constraint", c.name)),
                           Says("text", c.raw), "field")]
        items == FlattenValidationErrors(errors, <<>>)
    IN  AppendFailures(FlattenSeq([i \in 1..Len(items) |-> Filings(items[i])]))

BuildValidationErrorsOrGeneral(errors) ==
    LET bag == BuildValidationErrors(errors)
    IN  IF HasApiErrors(bag) THEN bag
        ELSE AppendBusinessFailure(NoErrors, DefaultCode(400), Validation)

-----------------------------------------------------------------------------
(* The four ways of the filter.                                            *)

Document(status, message, errors) == [status |-> status, message |-> message, errors |-> errors]

\* AppException: kind and code are given or follow from the status.
NormalizeAppException(e) ==
    LET kind == Or(e.kind, ResolveDefaultErrorKind(e.status))
        code == IF e.code = None THEN DefaultCode(e.status) ELSE Code("own", e.code)
    IN  Document(e.status, Own, Or(NormalizeApiErrors(e.errors), Single(kind, code, Own)))

BuildStringMessageErrors(raws, validation) ==
    LET Message(i) ==
            LET code == GetI18nFailureCode(raws[i], Code("message", i))
                property == GetParsedI18nProperty(raws[i])
            IN  IF validation /\ property # None
                THEN Filing(<<property>>, code, Says("text", raws[i]), "field")
                ELSE Filing(General, code, Says("text", raws[i]), "business")
    IN  AppendFailures([i \in 1..Len(raws) |-> Message(i)])

BuildHttpGeneralErrors(status, raw) ==
    LET says == IF IsGenericHttpMessage(status, raw) THEN Default(status) ELSE Says("text", raw)
        property == GetParsedI18nProperty(raw)
    IN  IF ~IsValidationI18nMessage(raw) THEN
            Single(ResolveDefaultErrorKind(status), DefaultCode(status), says)
        ELSE IF property # None THEN
            AppendFieldFailure(NoErrors, <<property>>, Code("key", raw.code), says)
        ELSE Single(ResolveDefaultErrorKind(status), Code("key", raw.code), says)

Title(status, validation) == IF validation THEN Validation ELSE Default(status)

\* The body of an HttpException: a text, or a record with a message and errors.  A
\* template passed as the whole body has no message.
NormalizeHttpExceptionObject(e) ==
    LET provided == NormalizeApiErrors(e.errors)
        raws == e.message.raws
        some == \E i \in 1..Len(raws) : IsValidationI18nMessage(raws[i])
    IN  CASE e.message.is = "template" ->
               Document(e.status, Own,
                        Or(provided, Single(ResolveDefaultErrorKind(e.status),
                                               DefaultCode(e.status), Own)))
          [] e.message.is = "text" ->
               Document(e.status, Title(e.status, some),
                        Or(provided, BuildHttpGeneralErrors(e.status, raws[1])))
          [] e.message.is = "texts" ->
               Document(e.status, Title(e.status, some),
                        Or(provided, BuildStringMessageErrors(raws, some)))
          [] e.message.is = "none" ->
               Document(e.status, Default(e.status), Or(provided, SingleDefault(e.status)))

\* Validation errors are taken for such wherever they are, no errors at all included.
NormalizeHttpException(e) ==
    IF e.errors.kind = "tree" THEN
        Document(e.status, Validation, BuildValidationErrorsOrGeneral(e.errors.list))
    ELSE IF e.body = "text" THEN
        Document(e.status, Default(e.status), BuildHttpGeneralErrors(e.status, e.message.raws[1]))
    ELSE NormalizeHttpExceptionObject(e)

\* Mistake, for mutation: the text of the error is told to the client, if it has one.
NormalizeUnknownException_Telling(e) ==
    LET status == Or(e.status, 500)
        says == IF e.message.raws = <<>> THEN Default(status) ELSE Says("text", e.message.raws[1])
    IN  Document(status, Default(status),
                 Single(ResolveDefaultErrorKind(status), DefaultCode(status), says))

\* Anything else that is thrown; its status is None if it is not one of 400..599.
NormalizeUnknownException(e) ==
    LET status == Or(e.status, 500)
        says == IF e.message.raws = <<>> THEN Default(status) ELSE Says("text", e.message.raws[1])
    IN  Document(status, Default(status),
            IF status >= 500 THEN SingleDefault(status)
            ELSE AppendBusinessFailure(NoErrors, DefaultCode(status), says))

NormalizeException(e) ==
    CASE e.class = "app" -> NormalizeAppException(e)
      [] e.class = "i18nValidation" ->
            Document(400, Validation, BuildValidationErrorsOrGeneral(e.errors.list))
      [] e.class = "http" -> NormalizeHttpException(e)
      [] e.class = "other" -> NormalizeUnknownException(e)
=============================================================================
