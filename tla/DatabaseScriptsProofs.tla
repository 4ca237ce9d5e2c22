----------------------- MODULE DatabaseScriptsProofs ------------------------
(***************************************************************************)
(* Theorems about DatabaseScripts, for any number of scripts that overlap, *)
(* any schemas, any manifest and any number of starts.                     *)
(***************************************************************************)
EXTENDS DatabaseScripts, FiniteSetTheorems, SequenceTheorems, WellFoundedInduction, TLAPS

\* The statements a script may have before it and after its first one.
Bare == { <<"terminate">>, <<"findToDrop">>, <<"drop">> }
Plain == { <<"close">>, <<"findToCreate">>, <<"create">>, <<"files">>, <<"generate">>,
           <<"pending">>, <<"last">>, <<"seed">>, <<"registry">> }
Fixed ==
    Bare \cup Plain
    \cup ({"schema", "wipe"} \X RequiredSet)
    \cup ({"list"} \X BOOLEAN)
    \cup ({"truncate"} \X (SUBSET Table) \X BOOLEAN)
    \cup ({"migrate"} \X (SUBSET Migrations))
    \cup ({"undo"} \X Migrations)
    \cup ({"asset"} \X Asset \X BOOLEAN)
\* Those of an asset come first only.
Install == {"run", "register", "runAndRegister"} \X Asset \X Versions
Statement == Fixed \cup Install

\* What a script has left: an asset that is not transactional is run and then
\* registered, with the same checksum.
Formed(q) ==
    \/ q \in Seq(Fixed)
    \/ \E a \in InSteps, v \in Versions, rest \in Seq(Fixed) :
          \/ q = << <<"run", a, v>>, <<"register", a, v>> >> \o rest
          \/ q = << <<"register", a, v>> >> \o rest
    \/ \E a \in Asset \ InSteps, v \in Versions, rest \in Seq(Fixed) :
          q = << <<"runAndRegister", a, v>> >> \o rest

Closed(q) == q # <<>> /\ q[Len(q)] = <<"close">>

\* A script that takes a connection closes it in the end.
Ended(s) == Closed(todo[s]) \/ (todo[s] \in Seq(Bare) /\ ~conn[s])

Programs ==
    /\ todo \in [Slot -> Seq(Statement)]
    /\ \A s \in Slot : Formed(todo[s]) /\ Ended(s)

-----------------------------------------------------------------------------
(* Sequences.                                                              *)

\* What goes before a sequence that closes does not change how it ends.
LEMMA ClosedConcat ==
    ASSUME NEW S, NEW q \in Seq(S), NEW t \in Seq(S), Closed(t)
    PROVE  Closed(q \o t)
<1>1. Len(t) \in Nat \ {0} /\ Len(q) \in Nat
    BY EmptySeq, LenProperties DEF Closed
<1>2. /\ q \o t \in Seq(S) /\ Len(q \o t) = Len(q) + Len(t)
      /\ \A i \in 1 .. Len(q) + Len(t) : (q \o t)[i] = IF i <= Len(q) THEN q[i] ELSE t[i - Len(q)]
    BY ConcatProperties
<1>3. (q \o t)[Len(q \o t)] = t[Len(t)]
    BY <1>1, <1>2
<1>4. q \o t # <<>>
    BY <1>1, <1>2, EmptySeq
<1> QED
    BY <1>3, <1>4 DEF Closed

\* A sequence that closes does so after its first statement, unless that is the close.
LEMMA ClosedTail ==
    ASSUME NEW S, NEW q \in Seq(S), Closed(q)
    PROVE  /\ Tail(q) = <<>> \/ Closed(Tail(q))
           /\ Head(q) # <<"close">> => Closed(Tail(q))
<1>1. Len(q) \in Nat \ {0}
    BY EmptySeq DEF Closed
<1>2. /\ Tail(q) \in Seq(S) /\ Len(Tail(q)) = Len(q) - 1
      /\ \A i \in 1 .. Len(Tail(q)) : Tail(q)[i] = q[i + 1]
    BY HeadTailProperties DEF Closed
<1>3. CASE Len(q) = 1
    <2>1. \A t \in Seq(S) : Len(t) = 0 => t = <<>>
        BY EmptySeq
    <2>2. Head(q) = <<"close">>
        BY <1>3 DEF Closed
    <2>3. Tail(q) \in Seq(S) /\ Len(Tail(q)) = 0
        BY <1>2, <1>3
    <2>4. Tail(q) = <<>>
        BY <2>1, <2>3
    <2> QED
        BY <2>2, <2>4
<1>4. CASE Len(q) # 1
    BY <1>1, <1>2, <1>4, EmptySeq DEF Closed
<1> QED
    BY <1>3, <1>4

\* What the first statement of a script tells of the rest.
LEMMA FirstFixed ==
    ASSUME NEW q, Formed(q), q # <<>>,
           Head(q)[1] \notin {"run", "register", "runAndRegister"}
    PROVE  q \in Seq(Fixed) /\ Head(q) \in Fixed /\ Tail(q) \in Seq(Fixed)
<1>1. \A h \in Install : Head(q) # h
    BY DEF Install
<1>2. \A rest \in Seq(Fixed) : rest \in Seq(Statement)
    BY SeqMonotonic DEF Statement
<1>3. ASSUME NEW a \in Asset, NEW v \in Versions, NEW rest \in Seq(Fixed)
      PROVE  /\ << <<"register", a, v>> >> \o rest # q
             /\ << <<"runAndRegister", a, v>> >> \o rest # q
             /\ << <<"run", a, v>>, <<"register", a, v>> >> \o rest # q
    <2> DEFINE h == <<"run", a, v>>
               g == <<"register", a, v>>
               f == <<"runAndRegister", a, v>>
    <2>1. h \in Install /\ g \in Install /\ f \in Install
        BY <1>3 DEF Install
    <2>2. rest \in Seq(Statement) /\ Install \subseteq Statement
        BY <1>2 DEF Statement
    <2> HIDE DEF h, g, f
    <2>3. Head(<<g>> \o rest) = g /\ Head(<<f>> \o rest) = f /\ Head(<<h, g>> \o rest) = h
        BY <2>1, <2>2
    <2>4. <<g>> \o rest # q /\ <<f>> \o rest # q /\ <<h, g>> \o rest # q
        BY <1>1, <2>1, <2>3
    <2> QED
        BY <2>4 DEF h, g, f
<1>4. q \in Seq(Fixed)
    BY <1>3, AssetsAssumption DEF Formed
<1> QED
    BY <1>4, HeadTailProperties

\* The arguments of each statement.
LEMMA FixedArguments ==
    ASSUME NEW x \in Fixed
    PROVE  /\ x[1] \notin {"run", "register", "runAndRegister"}
           /\ x[1] \in {"schema", "wipe"} => x[2] \in RequiredSet
           /\ x[1] = "list" => x[2] \in BOOLEAN
           /\ x[1] = "truncate" => x[2] \subseteq Table /\ x[3] \in BOOLEAN
           /\ x[1] = "migrate" => x[2] \subseteq Migrations
           /\ x[1] = "undo" => x[2] \in Migrations
           /\ x[1] = "asset" => x[2] \in Asset /\ x[3] \in BOOLEAN
<1>1. CASE x \in Bare
    <2>1. x[1] \in {"terminate", "findToDrop", "drop"}
        BY <1>1 DEF Bare
    <2> QED
        BY <2>1
<1>2. CASE x \in Plain
    <2>1. x[1] \in {"close", "findToCreate", "create", "files", "generate",
                    "pending", "last", "seed", "registry"}
        BY <1>2 DEF Plain
    <2> QED
        BY <2>1
<1>3. CASE x \in {"schema", "wipe"} \X RequiredSet
    <2>1. x[1] \in {"schema", "wipe"} /\ x[2] \in RequiredSet
        BY <1>3
    <2> QED
        BY <2>1
<1>4. CASE x \in {"list"} \X BOOLEAN
    <2>1. x[1] = "list" /\ x[2] \in BOOLEAN
        BY <1>4
    <2> QED
        BY <2>1
<1>5. CASE x \in {"truncate"} \X (SUBSET Table) \X BOOLEAN
    <2>1. x[1] = "truncate" /\ x[2] \subseteq Table /\ x[3] \in BOOLEAN
        BY <1>5
    <2> QED
        BY <2>1
<1>6. CASE x \in {"migrate"} \X (SUBSET Migrations)
    <2>1. x[1] = "migrate" /\ x[2] \subseteq Migrations
        BY <1>6
    <2> QED
        BY <2>1
<1>7. CASE x \in {"undo"} \X Migrations
    <2>1. x[1] = "undo" /\ x[2] \in Migrations
        BY <1>7
    <2> QED
        BY <2>1
<1>8. CASE x \in {"asset"} \X Asset \X BOOLEAN
    <2>1. x[1] = "asset" /\ x[2] \in Asset /\ x[3] \in BOOLEAN
        BY <1>8
    <2> QED
        BY <2>1
<1> QED
    BY <1>1, <1>2, <1>3, <1>4, <1>5, <1>6, <1>7, <1>8 DEF Fixed

\* A script at an asset runs it and registers it with the same checksum, or both at once.
LEMMA InstallShape ==
    ASSUME NEW q, Formed(q), q # <<>>
    PROVE  /\ Head(q)[1] = "run" =>
                /\ Head(q)[2] \in InSteps /\ Head(q)[3] \in Versions
                /\ Tail(q) # <<>> /\ Formed(Tail(q))
                /\ Head(Tail(q)) = <<"register", Head(q)[2], Head(q)[3]>>
           /\ Head(q)[1] = "register" =>
                Head(q)[2] \in InSteps /\ Head(q)[3] \in Versions /\ Tail(q) \in Seq(Fixed)
           /\ Head(q)[1] = "runAndRegister" =>
                Head(q)[2] \in Asset \ InSteps /\ Head(q)[3] \in Versions /\ Tail(q) \in Seq(Fixed)
           /\ q \in Seq(Statement)
<1>1. \A rest \in Seq(Fixed) : rest \in Seq(Statement)
    BY SeqMonotonic DEF Statement
<1>2. CASE q \in Seq(Fixed)
    <2>1. Head(q)[1] \notin {"run", "register", "runAndRegister"}
        BY <1>2, HeadTailProperties, FixedArguments
    <2> QED
        BY <1>1, <1>2, <2>1
<1>3. ASSUME NEW a \in InSteps, NEW v \in Versions, NEW rest \in Seq(Fixed),
             q = << <<"run", a, v>>, <<"register", a, v>> >> \o rest
      PROVE  /\ Head(q) = <<"run", a, v>> /\ Tail(q) # <<>> /\ Formed(Tail(q))
             /\ Head(Tail(q)) = <<"register", a, v>> /\ q \in Seq(Statement)
    <2> DEFINE h == <<"run", a, v>>
               g == <<"register", a, v>>
    <2>1. h \in Statement /\ g \in Statement
        BY <1>3, AssetsAssumption DEF Install, Statement
    <2>2. q = <<h, g>> \o rest /\ (Tail(q) = <<g>> \o rest => Formed(Tail(q)))
        BY <1>3 DEF Formed
    <2> HIDE DEF h, g
    <2>3. /\ Head(q) = h /\ Tail(q) = <<g>> \o rest /\ q \in Seq(Statement)
          /\ Tail(q) # <<>> /\ Head(Tail(q)) = g
        BY <1>1, <2>1, <2>2
    <2> QED
        BY <2>2, <2>3 DEF h, g
<1>4. ASSUME NEW x \in {"register", "runAndRegister"}, NEW a \in Asset, NEW v \in Versions,
             NEW rest \in Seq(Fixed), q = << <<x, a, v>> >> \o rest
      PROVE  Head(q) = <<x, a, v>> /\ Tail(q) = rest /\ q \in Seq(Statement)
    <2> DEFINE h == <<x, a, v>>
    <2>1. h \in Statement
        BY <1>4 DEF Install, Statement
    <2>2. q = <<h>> \o rest
        BY <1>4
    <2> HIDE DEF h
    <2>3. Head(q) = h /\ Tail(q) = rest /\ q \in Seq(Statement)
        BY <1>1, <2>1, <2>2
    <2> QED
        BY <2>3 DEF h
<1>5. CASE \E a \in InSteps, v \in Versions, rest \in Seq(Fixed) :
             q = << <<"run", a, v>>, <<"register", a, v>> >> \o rest
    <2>1. PICK a \in InSteps, v \in Versions, rest \in Seq(Fixed) :
             q = << <<"run", a, v>>, <<"register", a, v>> >> \o rest
        BY <1>5
    <2>2. /\ Head(q) = <<"run", a, v>> /\ Tail(q) # <<>> /\ Formed(Tail(q))
          /\ Head(Tail(q)) = <<"register", a, v>> /\ q \in Seq(Statement)
        BY <1>3, <2>1
    <2> QED
        BY <2>2
<1>6. CASE \E a \in InSteps, v \in Versions, rest \in Seq(Fixed) :
             q = << <<"register", a, v>> >> \o rest
    <2>1. PICK a \in InSteps, v \in Versions, rest \in Seq(Fixed) :
             q = << <<"register", a, v>> >> \o rest
        BY <1>6
    <2>2. Head(q) = <<"register", a, v>> /\ Tail(q) = rest /\ q \in Seq(Statement)
        BY <1>4, <2>1, AssetsAssumption
    <2>3. Head(q)[1] = "register" /\ Head(q)[2] = a /\ Head(q)[3] = v
        BY <2>2
    <2>4. Tail(q) \in Seq(Fixed) /\ q \in Seq(Statement)
        BY <2>2
    <2> QED
        BY <2>3, <2>4
<1>7. CASE \E a \in Asset \ InSteps, v \in Versions, rest \in Seq(Fixed) :
             q = << <<"runAndRegister", a, v>> >> \o rest
    <2>1. PICK a \in Asset \ InSteps, v \in Versions, rest \in Seq(Fixed) :
             q = << <<"runAndRegister", a, v>> >> \o rest
        BY <1>7
    <2>2. Head(q) = <<"runAndRegister", a, v>> /\ Tail(q) = rest /\ q \in Seq(Statement)
        BY <1>4, <2>1
    <2>3. Head(q)[1] = "runAndRegister" /\ Head(q)[2] = a /\ Head(q)[3] = v
        BY <2>2
    <2>4. Tail(q) \in Seq(Fixed) /\ q \in Seq(Statement)
        BY <2>2
    <2> QED
        BY <2>3, <2>4
<1> QED
    BY <1>2, <1>5, <1>6, <1>7 DEF Formed

\* The required schemas are the primary one and those of the application.
LEMMA RequiredMembers ==
    ASSUME NEW x \in RequiredSet
    PROVE  x = primary \/ \E i \in DOMAIN AppSchemas : x = AppSchemas[i]
<1>1. /\ <<primary>> \in Seq(STRING \cup {primary}) /\ AppSchemas \in Seq(STRING \cup {primary})
    <2>1. STRING \subseteq STRING \cup {primary}
        OBVIOUS
    <2>2. AppSchemas \in Seq(STRING \cup {primary})
        BY <2>1, SequencesAssumption, SeqMonotonic, Zenon
    <2> QED
        BY <2>2
<1>2. /\ DOMAIN AppSchemas = 1 .. Len(AppSchemas) /\ Len(AppSchemas) \in Nat
      /\ DOMAIN Required = 1 .. (1 + Len(AppSchemas))
       /\ \A i \in 1 .. (1 + Len(AppSchemas)) :
             Required[i] = IF i = 1 THEN primary ELSE AppSchemas[i - 1]
    BY <1>1 DEF Required
<1> QED
    BY <1>2 DEF RequiredSet

\* Every script ends in a statement that closes, unless it only drops.
LEMMA StepsFormed ==
    ASSUME NEW name \in Scripts
    PROVE  /\ Steps(name) \in Seq(Fixed) /\ Steps(name) # <<>>
           /\ Closed(Steps(name)) \/ Steps(name) \in Seq(Bare)
<1>1. Required \in [1 .. Len(Required) -> RequiredSet] /\ Len(Required) \in Nat
    <2>1. <<primary>> \in Seq(STRING \cup {primary}) /\ AppSchemas \in Seq(STRING \cup {primary})
        <3>1. STRING \subseteq STRING \cup {primary}
            OBVIOUS
        <3>2. AppSchemas \in Seq(STRING \cup {primary})
            BY <3>1, SequencesAssumption, SeqMonotonic, Zenon
        <3> QED
            BY <3>2
    <2>2. Required \in Seq(STRING \cup {primary})
        BY <2>1, ConcatProperties DEF Required
    <2> QED
        BY <2>2, LenProperties DEF RequiredSet
<1>2. ASSUME NEW q \in Seq(Fixed), NEW t \in Seq(Fixed), Closed(t)
      PROVE  q \o t \in Seq(Fixed) /\ Closed(q \o t)
    BY <1>2, ConcatProperties, ClosedConcat
<1>3. << <<"close">> >> \in Seq(Fixed) /\ Closed(<< <<"close">> >>)
    BY DEF Closed, Fixed, Plain
<1>4. Ensure \in Seq(Fixed) /\ Closed(Ensure)
    <2> DEFINE e == [i \in DOMAIN Required |-> <<"schema", Required[i]>>]
    <2>1. \A i \in 1 .. Len(Required) : <<"schema", Required[i]>> \in Fixed
        BY <1>1 DEF Fixed
    <2>2. e \in [1 .. Len(Required) -> Fixed]
        BY <1>1, <2>1
    <2>3. e \in Seq(Fixed)
        BY <1>1, <2>2, SeqDef
    <2> HIDE DEF e
    <2>4. e \o << <<"close">> >> \in Seq(Fixed) /\ Closed(e \o << <<"close">> >>)
        BY <1>2, <1>3, <2>3
    <2> QED
        BY <2>4 DEF e, Ensure
<1>5. ASSUME NEW q \in Seq(Fixed)
      PROVE  OnDataSource(q) \in Seq(Fixed) /\ Closed(OnDataSource(q))
    <2>1. Ensure \o q \in Seq(Fixed)
        BY <1>4, ConcatProperties
    <2> QED
        BY <1>2, <1>3, <2>1 DEF OnDataSource
<1>6. Drop \in Seq(Fixed) /\ Drop \in Seq(Bare) /\ Drop # <<>> /\ Create \in Seq(Fixed)
    BY DEF Drop, Create, Fixed, Bare, Plain
<1>7. CreateScript \in Seq(Fixed) /\ Closed(CreateScript)
    BY <1>2, <1>4, <1>6 DEF CreateScript
<1>8. ResetScript \in Seq(Fixed) /\ Closed(ResetScript)
    <2>1. Drop \o Create \in Seq(Fixed)
        BY <1>6, ConcatProperties
    <2> QED
        BY <1>2, <1>4, <2>1 DEF ResetScript
<1>9. ASSUME NEW public \in BOOLEAN
      PROVE  Wipes(public) \in Seq(Fixed)
    <2> DEFINE kept == IF public \/ primary # "public" THEN Required ELSE AppSchemas
               pair(i) == LET x == kept[(i + 1) \div 2] IN
                          IF i % 2 = 1 THEN <<"wipe", x>> ELSE <<"schema", x>>
    <2>1. kept \in [1 .. Len(kept) -> RequiredSet] /\ Len(kept) \in Nat
        <3>1. AppSchemas \in [1 .. Len(AppSchemas) -> RequiredSet] /\ Len(AppSchemas) \in Nat
            <4>1. AppSchemas \in [1 .. Len(AppSchemas) -> STRING] /\ Len(AppSchemas) \in Nat
                BY SequencesAssumption, LenProperties
            <4>2. /\ Len(Required) = 1 + Len(AppSchemas)
                  /\ \A i \in 1 .. Len(AppSchemas) : AppSchemas[i] = Required[i + 1]
                 <5>1. /\ <<primary>> \in Seq(STRING \cup {primary})
                       /\ AppSchemas \in Seq(STRING \cup {primary})
                    BY SequencesAssumption, SeqMonotonic
                <5> QED
                    BY <4>1, <5>1 DEF Required
            <4> QED
                BY <1>1, <4>1, <4>2
        <3> QED
            BY <1>1, <3>1
    <2> HIDE DEF kept
    <2>2. \A i \in 1 .. 2 * Len(kept) : kept[(i + 1) \div 2] \in RequiredSet
        <3>1. \A i \in 1 .. 2 * Len(kept) : (i + 1) \div 2 \in 1 .. Len(kept)
            BY <2>1
        <3> QED
            BY <2>1, <3>1
    <2>3. \A i \in 1 .. 2 * Len(kept) : pair(i) \in Fixed
        BY <2>2 DEF Fixed
    <2> HIDE DEF pair
    <2>4. [i \in 1 .. 2 * Len(kept) |-> pair(i)] \in Seq(Fixed)
        BY <2>1, <2>3, SeqDef
    <2> QED
        BY <2>4 DEF Wipes, kept, pair
<1>10. \A x \in Fixed : <<x>> \in Seq(Fixed)
    OBVIOUS
<1>11. ResetSchemasScript(TRUE) \in Seq(Fixed) /\ Closed(ResetSchemasScript(TRUE))
       /\ ResetSchemasScript(FALSE) \in Seq(Fixed) /\ Closed(ResetSchemasScript(FALSE))
    BY <1>5, <1>9 DEF ResetSchemasScript
<1>12. \A all \in BOOLEAN : TruncateScript(all) \in Seq(Fixed) /\ Closed(TruncateScript(all))
    <2>1. ASSUME NEW all \in BOOLEAN
          PROVE  << <<"list", all>> >> \in Seq(Fixed)
        <3>1. <<"list", all>> \in Fixed
            BY <2>1 DEF Fixed
        <3> QED
            BY <1>10, <3>1
    <2> QED
        BY <1>5, <2>1 DEF TruncateScript
<1>13. \A command \in {"pending", "last"} :
            MigrateScript(command) \in Seq(Fixed) /\ Closed(MigrateScript(command))
    <2>1. <<"pending">> \in Fixed /\ <<"last">> \in Fixed
        BY DEF Fixed, Plain
    <2> QED
        BY <1>5, <1>10, <2>1 DEF MigrateScript
<1>14. SeedScript \in Seq(Fixed) /\ Closed(SeedScript)
    <2>1. <<"list", FALSE>> \in Fixed /\ <<"seed">> \in Fixed
        BY DEF Fixed, Plain
    <2>2. << <<"list", FALSE>>, <<"seed">> >> \in Seq(Fixed)
        BY <2>1
    <2> QED
        BY <1>5, <2>2 DEF SeedScript
<1>15. \A force \in BOOLEAN : SyncScript(force) \in Seq(Fixed) /\ Closed(SyncScript(force))
    <2> TAKE force \in BOOLEAN
    <2> DEFINE e == [i \in DOMAIN Assets |-> <<"asset", Assets[i], force>>]
    <2>1. DOMAIN Assets = 1 .. Len(Assets) /\ Len(Assets) \in Nat
        BY SequencesAssumption, LenProperties
    <2>2. \A i \in 1 .. Len(Assets) : <<"asset", Assets[i], force>> \in Fixed
        BY <2>1 DEF Fixed, Asset
    <2>3. e \in Seq(Fixed)
        BY <2>1, <2>2, SeqDef
    <2>4. <<"registry">> \in Fixed
        BY DEF Fixed, Plain
    <2> HIDE DEF e
    <2>5. << <<"registry">> >> \o e \in Seq(Fixed)
        BY <1>10, <2>3, <2>4, ConcatProperties
    <2>6. OnDataSource(<< <<"registry">> >> \o e) \in Seq(Fixed)
          /\ Closed(OnDataSource(<< <<"registry">> >> \o e))
        BY <1>5, <2>5
    <2> QED
        BY <2>6 DEF SyncScript, e
<1>16. FreshScript \in Seq(Fixed) /\ Closed(FreshScript)
    <2> DEFINE g == << <<"generate">>, <<"close">> >>
    <2>1. << <<"files">> >> \in Seq(Fixed) /\ g \in Seq(Fixed)
        BY DEF Fixed, Plain
    <2> HIDE DEF g
    <2>2. << <<"files">> >> \o Drop \in Seq(Fixed)
        BY <1>6, <2>1, ConcatProperties
    <2>3. << <<"files">> >> \o Drop \o CreateScript \in Seq(Fixed)
        BY <1>7, <2>2, ConcatProperties
    <2>4. << <<"files">> >> \o Drop \o CreateScript \o Ensure \in Seq(Fixed)
        BY <1>4, <2>3, ConcatProperties
    <2>5. << <<"files">> >> \o Drop \o CreateScript \o Ensure \o g \in Seq(Fixed)
        BY <2>1, <2>4, ConcatProperties
    <2>6. MigrateScript("pending") \in Seq(Fixed) /\ Closed(MigrateScript("pending"))
        BY <1>13
    <2> QED
        BY <1>2, <2>5, <2>6 DEF FreshScript, g
<1>17. Closed(Steps(name)) \/ Steps(name) = Drop
    BY <1>4, <1>7, <1>8, <1>11, <1>12, <1>13, <1>14, <1>15, <1>16 DEF Steps, Scripts
<1>18. Steps(name) \in Seq(Fixed)
    BY <1>4, <1>6, <1>7, <1>8, <1>11, <1>12, <1>13, <1>14, <1>15, <1>16 DEF Steps, Scripts
<1> QED
    BY <1>6, <1>17, <1>18 DEF Closed

-----------------------------------------------------------------------------
(* What a script has left stays in shape.                                  *)

\* The part of TypeOK about the scripts.
Control ==
    /\ script \in [Slot -> Scripts \cup {"none"}]
    /\ conn \in [Slot -> BOOLEAN]
    /\ \A s \in Slot : todo[s] = <<>> <=> script[s] = "none"
    /\ quiet \in [Slot -> BOOLEAN]
    /\ starts \in 0 .. MaxStarts

\* The configuration, and with it the set of statements, never changes.
LEMMA FixedKept ==
    ASSUME primary' = primary
    PROVE  Fixed' = Fixed /\ Statement' = Statement /\ RequiredSet' = RequiredSet
BY DEF Fixed, Statement, Install, RequiredSet, Required

\* An asset is registered right after it was run.
Follows(q, t) == Formed(t) /\ (t # <<>> /\ Head(t)[1] = "register" => Head(q)[1] = "run")

\* A sequence with no statement of an asset may follow any statement.
LEMMA FixedFollows ==
    ASSUME NEW q, NEW t \in Seq(Fixed)
    PROVE  Follows(q, t)
<1>1. t # <<>> => Head(t) \in Fixed
    BY HeadTailProperties
<1> QED
    BY <1>1, FixedArguments DEF Follows, Formed

\* The rest of a script may follow its first statement.
LEMMA TailFollows ==
    ASSUME NEW q, Formed(q), q # <<>>
    PROVE  Follows(q, Tail(q))
<1>1. CASE Head(q)[1] = "run"
    BY <1>1, InstallShape DEF Follows
<1>2. CASE Head(q)[1] # "run"
    <2>1. Tail(q) \in Seq(Fixed)
        BY <1>2, FirstFixed, InstallShape
    <2> QED
        BY <2>1, FixedFollows
<1> QED
    BY <1>1, <1>2

\* A script that does not drop the database closes in the end.
LEMMA ClosesLater ==
    ASSUME Programs, NEW s \in Slot, todo[s] # <<>>,
           Head(todo[s])[1] \notin {"terminate", "findToDrop", "drop"}
    PROVE  Closed(todo[s])
<1>1. ASSUME todo[s] \in Seq(Bare)
      PROVE  Head(todo[s])[1] \in {"terminate", "findToDrop", "drop"}
    <2>1. Head(todo[s]) \in Bare
        BY <1>1, HeadTailProperties
    <2> QED
        BY <2>1 DEF Bare
<1> QED
    BY <1>1 DEF Programs, Ended

\* What every step does to the script that takes it.
LEMMA Proceeds ==
    ASSUME Control, Programs, NEW s \in Slot, todo[s] # <<>>, NEW more \in Seq(Statement),
           Proceed(s, more), Follows(todo[s], more \o Tail(todo[s])), primary' = primary,
           conn' \in [Slot -> BOOLEAN], \A q \in Slot \ {s} : conn'[q] => conn[q],
           \/ Closed(todo[s]) /\ Head(todo[s]) # <<"close">>
           \/ more = <<>> /\ ~conn'[s]
           \/ more \in Seq(Bare) /\ todo[s] \in Seq(Bare) /\ ~conn'[s]
    PROVE  Programs' /\ Control' /\ Follows(todo[s], todo'[s])
<1> DEFINE rest == Tail(todo[s])
<1>1. todo[s] \in Seq(Statement) /\ rest \in Seq(Statement)
    BY HeadTailProperties DEF Programs
<1>2. more \o rest \in Seq(Statement)
    BY <1>1, ConcatProperties
<1>3. /\ todo' \in [Slot -> Seq(Statement)] /\ todo'[s] = more \o rest
      /\ \A q \in Slot \ {s} : todo'[q] = todo[q]
    BY <1>2 DEF Proceed, Programs
<1>4. Closed(more \o rest) \/ (more \o rest \in Seq(Bare) /\ ~conn'[s])
    <2>1. CASE Closed(todo[s]) /\ Head(todo[s]) # <<"close">>
        <3>1. Closed(rest)
            BY <1>1, <2>1, ClosedTail
        <3> QED
            BY <1>1, <3>1, ClosedConcat
    <2>2. CASE more = <<>> /\ ~conn'[s]
        <3>1. more \o rest = rest
            BY <1>1, <2>2, ConcatEmptySeq
        <3>2. CASE Closed(todo[s])
            BY <1>1, <2>2, <3>1, <3>2, ClosedTail, EmptySeq
        <3>3. CASE todo[s] \in Seq(Bare)
            BY <2>2, <3>1, <3>3, HeadTailProperties
        <3> QED
            BY <3>2, <3>3 DEF Programs, Ended
    <2>3. CASE more \in Seq(Bare) /\ todo[s] \in Seq(Bare) /\ ~conn'[s]
        <3>1. rest \in Seq(Bare)
            BY <2>3, HeadTailProperties
        <3> QED
            BY <2>3, <3>1, ConcatProperties
    <2> QED
        BY <2>1, <2>2, <2>3
<1> HIDE DEF rest
 <1>5. \A q \in Slot :
          Formed(todo'[q]) /\ (Closed(todo'[q]) \/ (todo'[q] \in Seq(Bare) /\ ~conn'[q]))
    BY <1>3, <1>4 DEF Programs, Ended, Control, Follows, rest
<1>6. Programs'
    <2>1. Fixed' = Fixed /\ Statement' = Statement
        BY FixedKept
    <2>2. \A q \in Slot : Formed(todo[q])'
        BY <1>5, <2>1 DEF Formed
    <2>3. \A q \in Slot : Ended(q)'
        BY <1>5 DEF Ended, Closed, Bare
    <2> QED
        BY <1>3, <2>1, <2>2, <2>3 DEF Programs
<1>7. Control'
    BY <1>3 DEF Control, Proceed, rest
<1> QED
    BY <1>3, <1>6, <1>7 DEF rest

\* Each step keeps the scripts in shape.
LEMMA StepPrograms ==
    ASSUME TypeOK, Programs, NEW s \in Slot, Step(s)
    PROVE  Programs' /\ Control' /\ Follows(todo[s], todo'[s])
<1>0. Control /\ conn \in [Slot -> BOOLEAN]
    BY DEF TypeOK, Control
<1> DEFINE q == todo[s]
           rest == Tail(q)
<1>1. primary' = primary /\ q # <<>>
    BY DEF Step, Terminate, FindToDrop, DropDatabase, FindToCreate, CreateDatabase, CreateSchema,
           WipeSchema, ListTables, TruncateTables, Close, FindPending, Migrate, FindLast, Undo,
           RemoveInitialSchemaMigrations, Generate, Seed, EnsureRegistryTable, CheckAsset, RunAsset,
           UpsertRegistry, RunAndRegister, Runs, At, Query, environment
<1>2. /\ q \in Seq(Statement) /\ rest \in Seq(Statement) /\ <<>> \o rest = rest
      /\ <<>> \in Seq(Statement) /\ <<>> \in Seq(Bare) /\ Formed(q) /\ Follows(q, <<>> \o rest)
    <2>1. q \in Seq(Statement) /\ rest \in Seq(Statement) /\ Formed(q)
        BY <1>1, HeadTailProperties DEF Programs
    <2>2. <<>> \o rest = rest
        BY <2>1, ConcatEmptySeq
    <2> QED
        BY <1>1, <2>1, <2>2, TailFollows, EmptySeq
<1>3. ASSUME NEW more \in Seq(Fixed), Head(q)[1] \notin {"run", "register", "runAndRegister"}
      PROVE  more \in Seq(Statement) /\ Follows(q, more \o rest)
    <2>1. rest \in Seq(Fixed)
        BY <1>1, <1>2, <1>3, FirstFixed
    <2>2. more \o rest \in Seq(Fixed)
        BY <1>3, <2>1, ConcatProperties
    <2> QED
        BY <1>3, <2>2, FixedFollows, SeqMonotonic DEF Statement
<1>4. ASSUME NEW more \in Seq(Statement), Proceed(s, more), Follows(q, more \o rest),
             Head(q)[1] \notin {"close", "terminate", "findToDrop", "drop"},
             conn' \in [Slot -> BOOLEAN], \A p \in Slot \ {s} : conn'[p] => conn[p]
      PROVE  Programs' /\ Control' /\ Follows(todo[s], todo'[s])
    <2>1. Closed(todo[s]) /\ Head(todo[s]) # <<"close">>
        BY <1>1, <1>4, ClosesLater
    <2> QED
        BY <1>0, <1>1, <1>4, <2>1, Proceeds
<1>5. ASSUME NEW more \in Seq(Statement), Query(s, more), Follows(q, more \o rest),
             Head(q)[1] \notin {"close", "terminate", "findToDrop", "drop"}
      PROVE  Programs' /\ Control' /\ Follows(todo[s], todo'[s])
    BY <1>0, <1>4, <1>5 DEF Query
<1>6. ASSUME Query(s, <<>>), Head(q)[1] \notin {"close", "terminate", "findToDrop", "drop"}
      PROVE  Programs' /\ Control' /\ Follows(todo[s], todo'[s])
    BY <1>2, <1>5, <1>6
<1>7. ASSUME Proceed(s, <<>>), conn' \in [Slot -> BOOLEAN], ~conn'[s],
             \A p \in Slot \ {s} : conn'[p] => conn[p]
      PROVE  Programs' /\ Control' /\ Follows(todo[s], todo'[s])
    BY <1>0, <1>1, <1>2, <1>7, Proceeds
<1> HIDE DEF rest
<1>8. CASE CreateSchema(s) \/ WipeSchema(s) \/ TruncateTables(s) \/ Migrate(s) \/ Undo(s) \/ Seed(s)
           \/ EnsureRegistryTable(s) \/ RunAsset(s) \/ UpsertRegistry(s) \/ RunAndRegister(s)
    BY <1>6, <1>8 DEF CreateSchema, WipeSchema, TruncateTables, Migrate, Undo, Seed,
        EnsureRegistryTable, RunAsset, UpsertRegistry, RunAndRegister, Runs, At
<1>9. CASE Close(s) \/ Terminate(s)
    BY <1>0, <1>7, <1>9 DEF Close, Terminate
<1>10. CASE DropDatabase(s)
    BY <1>0, <1>7, <1>10 DEF DropDatabase, Runs, Works
<1>11. CASE FindToDrop(s)
    <2>1. Head(q)[1] = "findToDrop" /\ conn' = conn
        BY <1>11 DEF FindToDrop, Runs, At
    <2>2. \E more \in Seq(Bare) : Proceed(s, more)
        <3>1. << <<"drop">> >> \in Seq(Bare) /\ <<>> \in Seq(Bare)
            BY DEF Bare
        <3> QED
            BY <1>11, <3>1 DEF FindToDrop
    <2>3. PICK more \in Seq(Bare) : Proceed(s, more)
        BY <2>2
    <2>4. more \in Seq(Fixed)
        BY SeqMonotonic DEF Fixed
    <2>5. more \in Seq(Statement) /\ Follows(q, more \o rest)
        BY <1>3, <2>1, <2>4
    <2>6. Follows(q, more \o Tail(todo[s]))
        BY <2>5 DEF rest
    <2>7. CASE Closed(todo[s])
        BY <1>0, <1>1, <2>1, <2>3, <2>5, <2>6, <2>7, Proceeds
    <2>8. CASE todo[s] \in Seq(Bare) /\ ~conn[s]
        BY <1>0, <1>1, <2>1, <2>3, <2>5, <2>6, <2>8, Proceeds
    <2> QED
        BY <2>7, <2>8 DEF Programs, Ended
<1>12. CASE FindToCreate(s)
    <2>1. Head(q)[1] = "findToCreate" /\ conn' = conn
        BY <1>12 DEF FindToCreate, Runs, At
    <2>2. << <<"create">> >> \in Seq(Fixed) /\ <<>> \in Seq(Fixed)
        BY DEF Fixed, Plain
    <2>3. PICK more \in Seq(Fixed) : Proceed(s, more)
        BY <1>12, <2>2 DEF FindToCreate
    <2> QED
        BY <1>0, <1>3, <1>4, <2>1, <2>3
<1>13. CASE CreateDatabase(s) \/ RemoveInitialSchemaMigrations(s) \/ Generate(s)
    <2>1. Proceed(s, <<>>) /\ (conn' = conn \/ conn' = [conn EXCEPT ![s] = TRUE])
        BY <1>13 DEF CreateDatabase, RemoveInitialSchemaMigrations, Generate
    <2>2. Head(q)[1] \in {"create", "files", "generate"}
        BY <1>13 DEF CreateDatabase, RemoveInitialSchemaMigrations, Generate, Runs, At
    <2>3. conn' \in [Slot -> BOOLEAN] /\ \A p \in Slot \ {s} : conn'[p] => conn[p]
        BY <1>0, <2>1
    <2> QED
        BY <1>2, <1>4, <2>1, <2>2, <2>3
\* A statement that is found adds one at most.
<1>14. ASSUME NEW x \in Fixed, Query(s, <<x>>) \/ Query(s, <<>>),
              Head(q)[1] \notin {"run", "register", "runAndRegister",
                                 "close", "terminate", "findToDrop", "drop"}
       PROVE  Programs' /\ Control' /\ Follows(todo[s], todo'[s])
    <2>1. <<x>> \in Seq(Fixed) /\ <<>> \in Seq(Fixed)
        BY <1>14
    <2>2. \E more \in Seq(Fixed) : Query(s, more)
        BY <1>14, <2>1, Zenon
    <2>3. PICK more \in Seq(Fixed) : Query(s, more)
        BY <2>2
    <2> QED
        BY <1>3, <1>5, <1>14, <2>3
<1>15. CASE ListTables(s)
    <2>1. Head(q)[1] = "list" /\ Head(q) \in Fixed
        BY <1>1, <1>2, <1>15, FirstFixed DEF ListTables, Runs, At
    <2>2. Head(q)[2] \in BOOLEAN
        BY <2>1, FixedArguments
    <2> DEFINE found == { t \in data.tables : t # "migrations" \/ Arg(s, 2) }
    <2>3. found \subseteq Table
        BY DEF TypeOK, Databases
    <2> HIDE DEF found
    <2>4. <<"truncate", found, Head(q)[2]>> \in Fixed
        BY <2>2, <2>3 DEF Fixed
    <2>5. Query(s, << <<"truncate", found, Head(q)[2]>> >>) \/ Query(s, <<>>)
        BY <1>15 DEF ListTables, found, Arg
    <2> QED
        BY <1>14, <2>1, <2>4, <2>5
<1>16. CASE FindPending(s)
    <2>1. Head(q)[1] = "pending"
        BY <1>16 DEF FindPending, Runs, At
    <2> DEFINE pending == files \ data.record
    <2>2. <<"migrate", pending>> \in Fixed
        BY DEF Fixed, TypeOK
    <2>3. Query(s, << <<"migrate", pending>> >>) \/ Query(s, <<>>)
        BY <1>16 DEF FindPending
    <2> HIDE DEF pending
    <2> QED
        BY <1>14, <2>1, <2>2, <2>3
<1>17. CASE FindLast(s)
    <2>1. Head(q)[1] = "last"
        BY <1>17 DEF FindLast, Runs, At
    <2>2. CASE Query(s, <<>>)
        BY <1>2, <1>5, <2>1, <2>2
    <2>3. CASE \E m \in data.record : Query(s, << <<"undo", m>> >>)
        <3>1. PICK m \in data.record : Query(s, << <<"undo", m>> >>)
            BY <2>3
        <3>2. <<"undo", m>> \in Fixed
            BY DEF Fixed, TypeOK, Databases
        <3> QED
            BY <1>14, <2>1, <3>1, <3>2
    <2> QED
        BY <1>17, <2>2, <2>3 DEF FindLast
<1>18. CASE CheckAsset(s)
    <2>1. Head(q)[1] = "asset" /\ Head(q) \in Fixed /\ rest \in Seq(Fixed)
        BY <1>1, <1>2, <1>18, FirstFixed DEF CheckAsset, Runs, At, rest
    <2> DEFINE a == Arg(s, 2)
               v == source[a]
    <2>2. a \in Asset /\ v \in Versions
        BY <2>1, FixedArguments DEF Arg, TypeOK
    <2>3. \/ Query(s, <<>>)
          \/ a \in InSteps /\ Query(s, << <<"run", a, v>>, <<"register", a, v>> >>)
          \/ a \notin InSteps /\ Query(s, << <<"runAndRegister", a, v>> >>)
        BY <1>18 DEF CheckAsset
    <2> HIDE DEF a, v
    <2>4. CASE Query(s, <<>>)
        BY <1>6, <2>1, <2>4
    <2>5. CASE a \in InSteps /\ Query(s, << <<"run", a, v>>, <<"register", a, v>> >>)
        <3>1. << <<"run", a, v>>, <<"register", a, v>> >> \in Seq(Statement)
            <4>1. <<"run", a, v>> \in Statement /\ <<"register", a, v>> \in Statement
                BY <2>2 DEF Statement, Install
            <4> QED
                BY <4>1
        <3>2. Formed(<< <<"run", a, v>>, <<"register", a, v>> >> \o rest)
            BY <2>1, <2>2, <2>5 DEF Formed
        <3>3. Head(<< <<"run", a, v>>, <<"register", a, v>> >> \o rest)[1] # "register"
            <4> DEFINE h == <<"run", a, v>>
                       g == <<"register", a, v>>
            <4>1. h[1] # "register" /\ h \in Statement /\ g \in Statement
                BY <2>2 DEF Statement, Install
            <4> HIDE DEF h, g
            <4>2. Head(<<h, g>> \o rest) = h
                BY <2>1, <4>1
            <4> QED
                BY <4>1, <4>2 DEF h, g
        <3> QED
            BY <1>5, <2>1, <2>5, <3>1, <3>2, <3>3 DEF Follows
    <2>6. CASE a \notin InSteps /\ Query(s, << <<"runAndRegister", a, v>> >>)
        <3>1. << <<"runAndRegister", a, v>> >> \in Seq(Statement)
            <4>1. <<"runAndRegister", a, v>> \in Statement
                BY <2>2 DEF Statement, Install
            <4> QED
                BY <4>1
        <3>2. Formed(<< <<"runAndRegister", a, v>> >> \o rest)
            BY <2>1, <2>2, <2>6 DEF Formed
        <3>3. Head(<< <<"runAndRegister", a, v>> >> \o rest)[1] # "register"
            <4> DEFINE h == <<"runAndRegister", a, v>>
            <4>1. h[1] # "register" /\ h \in Statement
                BY <2>2 DEF Statement, Install
            <4> HIDE DEF h
            <4>2. Head(<<h>> \o rest) = h
                BY <2>1, <4>1
            <4> QED
                BY <4>1, <4>2 DEF h
        <3> QED
            BY <1>5, <2>1, <2>6, <3>1, <3>2, <3>3 DEF Follows
    <2> QED
        BY <2>3, <2>4, <2>5, <2>6
<1> QED
    BY <1>8, <1>9, <1>10, <1>11, <1>12, <1>13, <1>15, <1>16, <1>17, <1>18 DEF Step

-----------------------------------------------------------------------------
(* Types.                                                                  *)

\* The part of TypeOK about what the database holds.
Holds(d) ==
    /\ d \in Databases
    /\ d.tables \subseteq UNION { TablesIn(x) : x \in d.schemas }
    /\ "app" \notin d.tables => d.rows = {}

\* There may be nothing, or an empty public schema.
LEMMA BlankHolds ==
    /\ Holds(Blank)
    /\ Holds([Blank EXCEPT !.schemas = {"public"}])
BY DEF Holds, Databases, Blank, Nothing, Table

\* Of the contents an SQL file may have, one is the first.
LEMMA FirstIsVersion == First \in Versions
<1> DEFINE R == OpToRel(<, Nat)
<1>1. IsWellFoundedOn(R, Nat)
    BY NatLessThanWellFounded, Zenon
<1>2. Versions \subseteq Nat /\ Versions # {}
    BY BoundsAssumption
<1>3. \E x \in Versions : \A y \in Versions : <<y, x>> \notin R
    <2> HIDE DEF R
    <2> QED
        BY <1>1, <1>2, WFMin, Zenon
<1>4. PICK x \in Versions : \A y \in Versions : <<y, x>> \notin R
    BY <1>3
<1>5. \A y \in Versions : <<y, x>> \in R <=> y < x
    BY <1>2 DEF OpToRel
<1> HIDE DEF R
<1>6. \A y \in Versions : x <= y
    <2>1. \A y \in Versions : ~(y < x)
        BY <1>4, <1>5, Zenon
    <2> QED
        BY <1>2, <2>1
<1> QED
    BY <1>6 DEF First

\* Dropping tables takes the rows, the record, the registry and the attached assets with them.
LEMMA WithoutHolds ==
    ASSUME NEW d, Holds(d), NEW gone \in SUBSET Table
    PROVE  /\ Holds(Without(d, gone))
           /\ Without(d, gone).schemas = d.schemas
           /\ Without(d, gone).tables = d.tables \ gone
           /\ \A a \in Asset :
                /\ Without(d, gone).object[a] =
                     IF "app" \in gone /\ a \in OnTable THEN 0 ELSE d.object[a]
                /\ Without(d, gone).registry[a] =
                     IF "registry" \in gone THEN 0 ELSE d.registry[a]
BY DEF Holds, Databases, Without, Nothing, Table

\* The primary schema is required, and that of the entities.
LEMMA SchemasRequired == Entities \in RequiredSet /\ primary \in RequiredSet
<1>1. /\ <<primary>> \in Seq(STRING \cup {primary}) /\ AppSchemas \in Seq(STRING \cup {primary})
    BY SequencesAssumption, SeqMonotonic
<1>2. Len(AppSchemas) \in Nat \ {0}
    BY SequencesAssumption, SchemasAssumption, EmptySeq
<1>3. Required[1] = primary /\ Required[2] = AppSchemas[1] /\ Len(Required) = 1 + Len(AppSchemas)
    BY <1>1, <1>2 DEF Required
<1>4. DOMAIN Required = 1 .. Len(Required)
    BY <1>1, ConcatProperties, LenProperties DEF Required
<1> QED
    BY <1>2, <1>3, <1>4 DEF RequiredSet, Entities

\* The initial states have their types, and no script has begun.
LEMMA InitTypes == Init => TypeOK /\ Programs
<1> SUFFICES ASSUME Init PROVE TypeOK /\ Programs
    OBVIOUS
<1>1. Holds(data) /\ (~db => data = Blank)
    <2>1. First \in Versions
        BY FirstIsVersion
    <2>2. Entities \in RequiredSet /\ primary \in RequiredSet
        BY SchemasRequired
    <2>3. ASSUME NEW m \in Migrations
          PROVE  Holds(Deployed(m))
        <3>1. Deployed(m) \in Databases
            BY <2>1, <2>3 DEF Deployed, Databases, Table
        <3>2. Table \subseteq TablesIn(Entities) \cup TablesIn(primary)
            BY DEF Table, TablesIn
        <3> QED
            BY <2>2, <3>1, <3>2 DEF Holds, Deployed, Table
    <2>4. ASSUME NEW m \in Migrations
          PROVE  Holds([Deployed(m) EXCEPT !.rows = {}, !.record = {}, !.registry = Nothing])
        BY <2>3 DEF Holds, Databases, Nothing, Deployed
    <2>5. ASSUME NEW m \in Migrations
          PROVE  Holds(Without(Deployed(m), {"app"}))
        <3>1. "app" \in Table
            BY DEF Table
        <3> QED
            BY <2>3, <2>5, <3>1, WithoutHolds
    <2>6. CASE db = FALSE /\ data = Blank
        BY <2>6, BlankHolds
    <2>7. CASE data = [Blank EXCEPT !.schemas = {"public"}] /\ db = TRUE
        BY <2>7, BlankHolds
    <2>8. CASE \E m \in Migrations :
                db = TRUE /\ data \in { Deployed(m), Without(Deployed(m), {"app"}),
                         [Deployed(m) EXCEPT !.rows = {}, !.record = {}, !.registry = Nothing] }
        BY <2>3, <2>4, <2>5, <2>8
    <2> QED
        BY <2>6, <2>7, <2>8 DEF Init
<1>2. Programs
    BY EmptySeq DEF Init, Programs, Formed, Ended
<1>3. source \in [Asset -> Versions]
    BY FirstIsVersion DEF Init
<1>4. starts \in 0 .. MaxStarts
    <2>1. starts = 0
        BY DEF Init
    <2> QED
        BY <2>1, BoundsAssumption
<1>5. Control
    BY <1>4 DEF Init, Control
<1>6. files \subseteq Migrations /\ suspect \subseteq Asset /\ skewed \in BOOLEAN /\ db \in BOOLEAN
    BY AssetsAssumption DEF Init
<1>7. client = FALSE /\ primary \in Primary /\ \A s \in Slot : ~conn[s]
    BY DEF Init
<1> QED
    BY <1>1, <1>2, <1>3, <1>5, <1>6, <1>7 DEF TypeOK, Holds, Control

\* Statements work on a database that is there.
LEMMA Connected ==
    ASSUME TypeOK, NEW s \in Slot, Works(s), Head(todo[s])[1] \in OnPool \cup OnRunner
    PROVE  db
BY DEF TypeOK, Works

\* What there is to show of a step.
LEMMA TypesAfter ==
    ASSUME TypeOK, Programs', Control', primary' = primary, source' \in [Asset -> Versions],
           db' \in BOOLEAN, client' \in BOOLEAN, client' => db', ~db' => data' = Blank,
           Holds(data'), files' \subseteq Migrations,
           \A s \in Slot : conn'[s] => db',
           suspect' \subseteq Asset, skewed' \in BOOLEAN
    PROVE  TypeOK'
<1>1. RequiredSet' = RequiredSet
    BY FixedKept
<1>2. data' \in Databases'
    BY <1>1 DEF Holds, Databases
<1>3. (data.tables \subseteq UNION { TablesIn(x) : x \in data.schemas })'
    BY DEF Holds, TablesIn
<1>4. \A s \in Slot : conn'[s] => todo'[s] # <<>>
    BY DEF Programs, Ended, Closed
<1> QED
    BY <1>2, <1>3, <1>4 DEF TypeOK, Holds, Control

\* Each step of a script keeps the types.
LEMMA StepTypes ==
    ASSUME TypeOK, Programs, NEW s \in Slot, Step(s)
    PROVE  TypeOK' /\ Programs'
<1>1. Programs' /\ Control'
    BY StepPrograms
<1>2. Holds(data) /\ conn \in [Slot -> BOOLEAN] /\ suspect \subseteq Asset /\ skewed \in BOOLEAN
      /\ files \subseteq Migrations
    BY DEF TypeOK, Holds
\* A query of the pool, or of a runner, keeps everything but the data.
<1>3. ASSUME Works(s), Head(todo[s])[1] \in OnPool \cup OnRunner,
             conn' = [conn EXCEPT ![s] = TRUE], UNCHANGED <<environment, db, client>>,
             Holds(data'), suspect' \subseteq Asset, skewed' \in BOOLEAN
      PROVE  TypeOK' /\ Programs'
    <2>1. db
        BY <1>3, Connected
    <2>2. UNCHANGED <<primary, db, client, source, files>>
        BY <1>3 DEF environment
    <2>3. client \in BOOLEAN /\ source \in [Asset -> Versions]
        BY DEF TypeOK
    <2> QED
        BY <1>1, <1>2, <1>3, <2>1, <2>2, <2>3, TypesAfter
 <1>4. /\ Formed(todo[s])
       /\ todo[s] # <<>> /\ (At(s, "run") \/ At(s, "register") \/ At(s, "runAndRegister")) =>
             Arg(s, 2) \in Asset /\ Arg(s, 3) \in Versions
    BY InstallShape, AssetsAssumption DEF Programs, At, Arg
 <1>5. todo[s] # <<>> /\ Head(todo[s])[1] \notin {"run", "register", "runAndRegister"} =>
          Head(todo[s]) \in Fixed
    BY <1>4, FirstFixed
<1>6. CASE Terminate(s)
    BY <1>1, <1>2, <1>6, TypesAfter DEF Terminate, TypeOK, environment, history
<1>7. CASE FindToDrop(s) \/ FindToCreate(s) \/ RemoveInitialSchemaMigrations(s)
    BY <1>1, <1>2, <1>7, TypesAfter DEF FindToDrop, FindToCreate, RemoveInitialSchemaMigrations, TypeOK,
       environment, history
<1>8. CASE Close(s)
    BY <1>1, <1>2, <1>8, TypesAfter DEF Close, TypeOK, environment, history
<1>9. CASE DropDatabase(s)
    <2>1. ~client /\ \A q \in Slot : ~conn[q]
        BY <1>9 DEF DropDatabase, Runs, Works
    <2> QED
        BY <1>1, <1>2, <1>9, <2>1, TypesAfter, BlankHolds DEF DropDatabase, TypeOK, environment
<1>10. CASE CreateDatabase(s)
    BY <1>1, <1>2, <1>10, TypesAfter, BlankHolds DEF CreateDatabase, TypeOK, environment, history
<1>11. CASE Generate(s)
    <2>1. db
        BY <1>11, Connected DEF Generate, Runs, At, OnPool
    <2> QED
        BY <1>1, <1>2, <1>11, <2>1, TypesAfter DEF Generate, TypeOK, history
<1>12. CASE CreateSchema(s)
    <2>1. Head(todo[s])[1] = "schema" /\ todo[s] # <<>>
        BY <1>12 DEF CreateSchema, Runs, At
    <2>2. Head(todo[s])[2] \in RequiredSet
        BY <1>5, <2>1, FixedArguments
    <2>3. Holds(data')
        BY <1>2, <1>12, <2>2 DEF CreateSchema, Holds, Databases, Arg
    <2> QED
        BY <1>2, <1>3, <1>12, <2>1, <2>3 DEF Query, CreateSchema, Runs, OnPool, history
<1>13. CASE WipeSchema(s)
    <2>1. Head(todo[s])[1] = "wipe" /\ todo[s] # <<>>
        BY <1>13 DEF WipeSchema, Runs, At
    <2> DEFINE x == Arg(s, 2)
               d == Without(data, TablesIn(x))
               e == [d EXCEPT !.schemas = @ \ {x},
                              !.object = [a \in Asset |-> IF Home(a) = x THEN 0 ELSE @[a]]]
    <2>2. TablesIn(x) \subseteq Table
        BY DEF TablesIn, Table
    <2>3. Holds(d) /\ d.schemas = data.schemas /\ d.tables = data.tables \ TablesIn(x)
        BY <1>2, <2>2, WithoutHolds
    <2>4. data' = e
        BY <1>13 DEF WipeSchema
    <2> HIDE DEF d, x
    <2>5. e \in Databases /\ e.rows = d.rows /\ e.tables = d.tables /\ e.schemas = d.schemas \ {x}
        BY <2>3 DEF Holds, Databases
    <2>6. Holds(e)
        BY <1>2, <2>3, <2>5 DEF Holds
    <2>7. suspect' \subseteq Asset /\ skewed' \in BOOLEAN
        BY <1>2, <1>13, AssetsAssumption DEF WipeSchema, Orphans
    <2> QED
        BY <1>3, <1>13, <2>1, <2>4, <2>6, <2>7 DEF Query, WipeSchema, Runs, OnPool
<1>14. CASE ListTables(s) \/ CheckAsset(s)
    <2>1. conn' = [conn EXCEPT ![s] = TRUE] /\ UNCHANGED <<environment, db, client, data, history>>
        BY <1>14 DEF ListTables, CheckAsset, Query
    <2>2. Works(s) /\ Head(todo[s])[1] \in OnPool \cup OnRunner
        BY <1>14 DEF ListTables, CheckAsset, Runs, At, OnPool, OnRunner
    <2> QED
        BY <1>2, <1>3, <2>1, <2>2 DEF history
<1>15. CASE TruncateTables(s)
    <2>1. Head(todo[s])[1] = "truncate" /\ todo[s] # <<>>
        BY <1>15 DEF TruncateTables, Runs, At
    <2>2. Head(todo[s])[3] \in BOOLEAN
        BY <1>5, <2>1, FixedArguments
    <2>3. Holds(data')
        BY <1>2, <1>15 DEF TruncateTables, Holds, Databases, Nothing
    <2> QED
        BY <1>2, <1>3, <1>15, <2>1, <2>2, <2>3 DEF Query, TruncateTables, Runs, OnPool, Arg
<1>16. CASE FindPending(s) \/ FindLast(s)
    <2>1. conn' = [conn EXCEPT ![s] = TRUE] /\ UNCHANGED <<environment, db, client, history>>
        BY <1>16 DEF FindPending, FindLast, Query
    <2>2. Works(s) /\ Head(todo[s])[1] \in OnPool /\ primary \in data.schemas
        BY <1>16 DEF FindPending, FindLast, Runs, At, Works, OnPool
    <2>3. data' = [data EXCEPT !.tables = @ \cup {"migrations"}]
        BY <1>16 DEF FindPending, FindLast
    <2>4. Holds(data')
        BY <1>2, <2>2, <2>3 DEF Holds, Databases, Table, TablesIn
    <2> QED
        BY <1>2, <1>3, <2>1, <2>2, <2>4 DEF history
<1>17. CASE Migrate(s)
    <2>1. Head(todo[s])[1] = "migrate" /\ todo[s] # <<>> /\ Works(s)
        BY <1>17 DEF Migrate, Runs, At
    <2>2. Head(todo[s])[2] \subseteq Migrations
        BY <1>5, <2>1, FixedArguments
    <2>3. Entities \in data.schemas
        BY <2>1 DEF Works, At
    <2>4. Holds(data')
        <3>1. data' = [data EXCEPT !.tables = @ \cup {"app"}, !.record = @ \cup Arg(s, 2)]
            BY <1>17 DEF Migrate
        <3>2. data' \in Databases /\ data'.schemas = data.schemas /\ data'.tables = data.tables \cup {"app"}
            BY <1>2, <2>2, <3>1 DEF Holds, Databases, Table, Arg
        <3>3. "app" \in TablesIn(Entities)
            BY DEF TablesIn
        <3>4. data.tables \subseteq UNION { TablesIn(x) : x \in data.schemas }
            BY <1>2 DEF Holds
        <3>5. data'.tables \subseteq UNION { TablesIn(x) : x \in data'.schemas }
            BY <2>3, <3>2, <3>3, <3>4
        <3> QED
            BY <3>2, <3>5 DEF Holds
    <2> QED
        BY <1>2, <1>3, <1>17, <2>1, <2>4 DEF Query, Migrate, OnRunner, history
<1>18. CASE Undo(s)
    <2>1. Head(todo[s])[1] = "undo" /\ todo[s] # <<>> /\ Works(s)
        BY <1>18 DEF Undo, Runs, At
    <2> DEFINE d == Without(data, {"app"})
    <2>2. {"app"} \subseteq Table
        BY DEF Table
    <2>3. Holds(d)
        BY <1>2, <2>2, WithoutHolds
    <2>4. data' = [d EXCEPT !.record = @ \ {Arg(s, 2)}]
        BY <1>18 DEF Undo
    <2> HIDE DEF d
    <2>5. Holds(data')
        BY <2>3, <2>4 DEF Holds, Databases
    <2>6. suspect' \subseteq Asset /\ skewed' \in BOOLEAN
        BY <1>2, <1>18, AssetsAssumption DEF Undo
    <2> QED
        BY <1>3, <1>18, <2>1, <2>5, <2>6 DEF Query, Undo, OnRunner
<1>19. CASE Seed(s)
    <2>1. Head(todo[s])[1] = "seed" /\ todo[s] # <<>> /\ Works(s)
        BY <1>19 DEF Seed, Runs, At
    <2>2. "app" \in data.tables
        BY <2>1 DEF Works, At
    <2>3. Holds(data')
        BY <1>2, <1>19, <2>2 DEF Seed, Holds, Databases
    <2> QED
        BY <1>2, <1>3, <1>19, <2>1, <2>3 DEF Query, Seed, OnPool, history
<1>20. CASE EnsureRegistryTable(s)
    <2>1. Head(todo[s])[1] = "registry" /\ Works(s)
        BY <1>20 DEF EnsureRegistryTable, Runs, At
    <2>2. primary \in RequiredSet
        BY SchemasRequired
    <2>3. Holds(data')
        <3>1. data' = [data EXCEPT !.schemas = @ \cup {primary}, !.tables = @ \cup {"registry"}]
            BY <1>20 DEF EnsureRegistryTable
        <3>2. /\ data' \in Databases /\ data'.schemas = data.schemas \cup {primary}
              /\ data'.tables = data.tables \cup {"registry"} /\ data'.rows = data.rows
            BY <1>2, <2>2, <3>1 DEF Holds, Databases, Table
        <3>3. "registry" \in TablesIn(primary)
            BY DEF TablesIn
        <3>4. data.tables \subseteq UNION { TablesIn(x) : x \in data.schemas }
            BY <1>2 DEF Holds
        <3>5. data'.tables \subseteq UNION { TablesIn(x) : x \in data'.schemas }
            BY <3>2, <3>3, <3>4
        <3> QED
            BY <1>2, <3>2, <3>5 DEF Holds
    <2> QED
        BY <1>2, <1>3, <1>20, <2>1, <2>3 DEF Query, EnsureRegistryTable, OnPool, history
<1>21. CASE RunAsset(s) \/ UpsertRegistry(s) \/ RunAndRegister(s)
    <2>1. Head(todo[s])[1] \in {"run", "register", "runAndRegister"} /\ Works(s) /\ todo[s] # <<>>
          /\ Query(s, <<>>)
        BY <1>21 DEF RunAsset, UpsertRegistry, RunAndRegister, Runs, At
    <2>2. Arg(s, 2) \in Asset /\ Arg(s, 3) \in Versions
        BY <1>4, <2>1 DEF At
    <2>3. /\ data.object \in [Asset -> Versions \cup {0}]
          /\ data.registry \in [Asset -> Versions \cup {0}]
        BY <1>2 DEF Holds, Databases
    <2>4. \/ data' = [data EXCEPT !.object[Arg(s, 2)] = Arg(s, 3)]
          \/ data' = [data EXCEPT !.registry[Arg(s, 2)] = Arg(s, 3)]
          \/ data' = [data EXCEPT !.object[Arg(s, 2)] = Arg(s, 3), !.registry[Arg(s, 2)] = Arg(s, 3)]
        BY <1>21 DEF RunAsset, UpsertRegistry, RunAndRegister
    <2>5. Holds(data')
        <3>1. CASE data' = [data EXCEPT !.object[Arg(s, 2)] = Arg(s, 3)]
            BY <1>2, <2>2, <2>3, <3>1 DEF Holds, Databases
        <3>2. CASE data' = [data EXCEPT !.registry[Arg(s, 2)] = Arg(s, 3)]
            BY <1>2, <2>2, <2>3, <3>2 DEF Holds, Databases
        <3>3. CASE data' = [data EXCEPT !.object[Arg(s, 2)] = Arg(s, 3),
                                        !.registry[Arg(s, 2)] = Arg(s, 3)]
            BY <1>2, <2>2, <2>3, <3>3 DEF Holds, Databases
        <3> QED
            BY <2>4, <3>1, <3>2, <3>3
    <2>6. suspect' \subseteq Asset /\ skewed' \in BOOLEAN
        BY <1>2, <1>21, <2>2 DEF RunAsset, UpsertRegistry, RunAndRegister, history
    <2> QED
        BY <1>3, <2>1, <2>5, <2>6 DEF Query, OnRunner
<1> QED
    BY <1>1, <1>6, <1>7, <1>8, <1>9, <1>10, <1>11, <1>12, <1>13, <1>14, <1>15, <1>16, <1>17, <1>18,
       <1>19, <1>20, <1>21 DEF Step

\* So do starts and failures ...
LEMMA SlotTypes ==
    ASSUME TypeOK, Programs, NEW s \in Slot,
           (\E name \in Scripts : Start(s, name)) \/ Fail(s)
    PROVE  TypeOK' /\ Programs'
<1>1. Holds(data) /\ Control
    BY DEF TypeOK, Holds, Control
<1>2. CASE \E name \in Scripts : Start(s, name)
    <2>1. PICK name \in Scripts : Start(s, name)
        BY <1>2
    <2>2. /\ Steps(name) \in Seq(Fixed) /\ Steps(name) # <<>>
          /\ Closed(Steps(name)) \/ Steps(name) \in Seq(Bare)
        BY StepsFormed
    <2>3. Steps(name) \in Seq(Statement) /\ Formed(Steps(name))
        BY <2>2, SeqMonotonic DEF Statement, Formed
    <2>4. /\ todo' = [todo EXCEPT ![s] = Steps(name)] /\ conn' = conn /\ ~conn[s]
          /\ UNCHANGED <<primary, db, data, client, files, source, suspect, skewed>>
        BY <2>1 DEF Start, TypeOK, environment, history
    <2>5. Programs'
        <3>1. Fixed' = Fixed /\ Statement' = Statement
            BY <2>4, FixedKept
        <3>2. todo' \in [Slot -> Seq(Statement)]
            BY <2>3, <2>4 DEF Programs
        <3>3. \A q \in Slot : Formed(todo'[q])
                  /\ (Closed(todo'[q]) \/ (todo'[q] \in Seq(Bare) /\ ~conn'[q]))
            BY <2>2, <2>3, <2>4 DEF Programs, Ended
        <3>4. \A q \in Slot : Formed(todo[q])'
            BY <3>1, <3>3 DEF Formed
        <3>5. \A q \in Slot : Ended(q)'
            BY <3>3 DEF Ended, Closed, Bare
        <3> QED
            BY <3>1, <3>2, <3>4, <3>5 DEF Programs
    <2>6. Control'
        <3>1. starts' \in 0 .. MaxStarts
            BY <1>1, <2>1, BoundsAssumption DEF Start, Control
        <3>2. quiet' \in [Slot -> BOOLEAN]
            BY <2>1 DEF Start
        <3>3. script' \in [Slot -> Scripts \cup {"none"}]
            BY <1>1, <2>1 DEF Start, Control
        <3>4. name # "none"
            BY DEF Scripts
        <3>5. \A q \in Slot : todo'[q] = <<>> <=> script'[q] = "none"
            BY <1>1, <2>1, <2>2, <3>4 DEF Start, Control, Programs
        <3> QED
            BY <1>1, <2>4, <3>1, <3>2, <3>3, <3>5 DEF Control
    <2> QED
        BY <1>1, <2>4, <2>5, <2>6, TypesAfter DEF TypeOK
<1>3. CASE Fail(s)
    <2>1. /\ todo' = [todo EXCEPT ![s] = <<>>] /\ conn' = [conn EXCEPT ![s] = FALSE]
          /\ UNCHANGED <<primary, db, data, client, files, source, starts, skewed>>
        BY <1>3 DEF Fail, environment
    <2>2. Programs'
        <3>1. Fixed' = Fixed /\ Statement' = Statement
            BY <2>1, FixedKept
        <3>2. todo' \in [Slot -> Seq(Statement)]
            BY <2>1, EmptySeq DEF Programs
        <3>3. <<>> \in Seq(Bare) /\ Formed(<<>>)
            BY EmptySeq DEF Formed
        <3>4. \A q \in Slot : Formed(todo'[q])
                  /\ (Closed(todo'[q]) \/ (todo'[q] \in Seq(Bare) /\ ~conn'[q]))
            BY <1>1, <2>1, <3>3 DEF Programs, Ended, Control
        <3>5. \A q \in Slot : Formed(todo[q])'
            BY <3>1, <3>4 DEF Formed
        <3>6. \A q \in Slot : Ended(q)'
            BY <3>4 DEF Ended, Closed, Bare
        <3> QED
            BY <3>1, <3>2, <3>5, <3>6 DEF Programs
    <2>3. Control'
        BY <1>1, <1>3, <2>1 DEF Fail, Control, Programs
    <2>4. suspect' \subseteq Asset
        BY <1>3, AssetsAssumption DEF Fail, TypeOK
    <2> QED
        BY <1>1, <2>1, <2>2, <2>3, <2>4, TypesAfter DEF TypeOK
<1> QED
    BY <1>2, <1>3

\* ... and everybody else.
LEMMA OtherTypes ==
    ASSUME TypeOK, Programs,
           \/ ClientConnects \/ ClientWrites
           \/ \E a \in Asset, v \in Versions : EditAsset(a, v)
           \/ UNCHANGED vars
    PROVE  TypeOK' /\ Programs'
<1>1. Holds(data) /\ Control
    BY DEF TypeOK, Holds, Control
<1>2. ASSUME UNCHANGED <<todo, conn, primary>>
      PROVE  Programs'
    <2>1. Fixed' = Fixed /\ Statement' = Statement
        BY <1>2, FixedKept
    <2>2. \A q \in Slot : Formed(todo[q])'
        BY <1>2, <2>1 DEF Programs, Formed
    <2>3. \A q \in Slot : Ended(q)'
        BY <1>2 DEF Programs, Ended, Closed, Bare
    <2> QED
        BY <1>2, <2>1, <2>2, <2>3 DEF Programs
<1>3. CASE ClientConnects
    <2>1. Programs' /\ Control'
        BY <1>1, <1>2, <1>3 DEF ClientConnects, Disturb, environment, Control
    <2> QED
        BY <1>1, <1>3, <2>1, TypesAfter DEF ClientConnects, Disturb, environment, history, TypeOK
<1>4. CASE ClientWrites
    <2>1. Programs' /\ Control'
        BY <1>1, <1>2, <1>4 DEF ClientWrites, Disturb, environment, Control
    <2>2. Holds(data')
        BY <1>1, <1>4 DEF ClientWrites, Holds, Databases
    <2> QED
        BY <1>1, <1>4, <2>1, <2>2, TypesAfter
           DEF ClientWrites, Disturb, environment, history, TypeOK
<1>5. CASE \E a \in Asset, v \in Versions : EditAsset(a, v)
    <2>1. PICK a \in Asset, v \in Versions : EditAsset(a, v)
        BY <1>5
    <2>2. Programs' /\ Control'
        BY <1>1, <1>2, <2>1 DEF EditAsset, Disturb, Control
    <2>3. source' \in [Asset -> Versions]
        BY <2>1 DEF EditAsset, TypeOK
    <2>4. UNCHANGED <<primary, db, data, files, client, suspect, skewed, conn>>
        BY <2>1 DEF EditAsset, Disturb, history
    <2> QED
        BY <1>1, <2>2, <2>3, <2>4, TypesAfter DEF TypeOK
<1>6. CASE UNCHANGED vars
    <2>1. Programs' /\ Control'
        BY <1>1, <1>2, <1>6 DEF vars, environment, process, Control
    <2> QED
        BY <1>1, <1>6, <2>1, TypesAfter DEF vars, environment, process, history, TypeOK
<1> QED
    BY <1>3, <1>4, <1>5, <1>6

\* Every variable keeps its type: a table is in a schema that is there, and a
\* script that holds a connection has a statement left that closes it.
THEOREM TypeCorrect == Spec => []TypeOK
<1>1. Init => TypeOK /\ Programs
    BY InitTypes
<1>2. ASSUME TypeOK /\ Programs, [Next]_vars
      PROVE  (TypeOK /\ Programs)'
    <2>1. CASE \E s \in Slot : Step(s)
        BY <1>2, <2>1, StepTypes
    <2>2. CASE \E s \in Slot : (\E name \in Scripts : Start(s, name)) \/ Fail(s)
        BY <1>2, <2>2, SlotTypes
    <2>3. CASE \/ ClientConnects \/ ClientWrites
               \/ \E a \in Asset, v \in Versions : EditAsset(a, v)
               \/ UNCHANGED vars
        BY <1>2, <2>3, OtherTypes
    <2> QED
        BY <1>2, <2>1, <2>2, <2>3 DEF Next
<1> QED
    BY <1>1, <1>2, PTL DEF Spec

-----------------------------------------------------------------------------
(* The registry.                                                           *)

\* A connected sync that has run an asset will register what is installed.
Registered(a) ==
    a \in InSteps /\ a \notin suspect =>
        \A s \in Registering(a) : conn[s] => data.object[a] = Arg(s, 3)

Truthful(a) ==
    /\ data.registry[a] # 0
    /\ a \notin suspect
    /\ a \in InSteps => Registering(a) = {}
    => data.object[a] = data.registry[a]

\* The inductive invariant.
IInv == TypeOK /\ Programs /\ \A a \in Asset : Registered(a) /\ Truthful(a)

\* A step that takes no script to a registration or from it.
LEMMA RegisteringKept ==
    ASSUME Programs, NEW s \in Slot, NEW t, todo' = [todo EXCEPT ![s] = t],
           ~At(s, "register"), t # <<>> => Head(t)[1] # "register", NEW a
    PROVE  /\ Registering(a)' = Registering(a)
           /\ \A q \in Registering(a) : q # s /\ Arg(q, 3)' = Arg(q, 3)
<1>1. /\ todo'[s] = t /\ s \in Slot
      /\ \A q \in Slot \ {s} : todo'[q] = todo[q]
    BY DEF Programs
<1>2. /\ \A q \in Slot \ {s} : (At(q, "register") <=> At(q, "register")') /\ Arg(q, 2)' = Arg(q, 2)
                                /\ Arg(q, 3)' = Arg(q, 3)
      /\ ~At(s, "register")'
    BY <1>1 DEF At, Arg
<1> QED
    BY <1>2 DEF Registering

\* A step that keeps the registrations, and changes nothing of an asset unless
\* it makes it suspect or takes it out of the registry.
LEMMA AssetKept ==
    ASSUME NEW a \in Asset, Registered(a), Truthful(a),
           Registering(a)' = Registering(a),
           \A q \in Registering(a) : Arg(q, 3)' = Arg(q, 3) /\ (conn'[q] => conn[q]),
           a \in suspect => a \in suspect',
           \/ a \in suspect'
           \/ data'.object[a] = data.object[a] /\ data'.registry[a] \in {0, data.registry[a]}
           \/ /\ data'.registry[a] = 0
              /\ a \in InSteps => \A q \in Registering(a) : ~conn'[q]
    PROVE  Registered(a)' /\ Truthful(a)'
BY DEF Registered, Truthful

\* Each step of a script keeps what the registry says true.
LEMMA StepRegistry ==
    ASSUME IInv, NEW s \in Slot, Step(s), NEW a \in Asset
    PROVE  Registered(a)' /\ Truthful(a)'
<1>1. /\ Registered(a) /\ Truthful(a) /\ Formed(todo[s])
      /\ data.object \in [Asset -> Versions \cup {0}] /\ data.registry \in [Asset -> Versions \cup {0}]
      /\ Holds(data) /\ conn \in [Slot -> BOOLEAN] /\ todo \in [Slot -> Seq(Statement)]
    BY DEF IInv, TypeOK, Programs, Databases, Holds
<1>2. Follows(todo[s], todo'[s])
    BY StepPrograms DEF IInv
<1>3. todo[s] # <<>> /\ \A q \in Slot \ {s} : conn'[q] => conn[q]
    BY <1>1 DEF Step, Terminate, FindToDrop, DropDatabase, FindToCreate, CreateDatabase, CreateSchema, WipeSchema,
           ListTables, TruncateTables, Close, FindPending, Migrate, FindLast, Undo,
           RemoveInitialSchemaMigrations, Generate, Seed, EnsureRegistryTable, CheckAsset, RunAsset,
           UpsertRegistry, RunAndRegister, Runs, At, Query
<1>4. todo' = [todo EXCEPT ![s] = todo'[s]]
    BY <1>1 DEF Step, Terminate, FindToDrop, DropDatabase, FindToCreate, CreateDatabase, CreateSchema, WipeSchema,
           ListTables, TruncateTables, Close, FindPending, Migrate, FindLast, Undo,
           RemoveInitialSchemaMigrations, Generate, Seed, EnsureRegistryTable, CheckAsset, RunAsset,
           UpsertRegistry, RunAndRegister, Query, Proceed
<1>5. ASSUME Head(todo[s])[1] \notin {"run", "register"}
      PROVE  /\ Registering(a)' = Registering(a)
             /\ \A q \in Registering(a) : Arg(q, 3)' = Arg(q, 3) /\ (conn'[q] => conn[q])
    <2>1. ~At(s, "register") /\ (todo'[s] # <<>> => Head(todo'[s])[1] # "register")
        BY <1>2, <1>5 DEF At, Follows
    <2>2. /\ Registering(a)' = Registering(a)
          /\ \A q \in Registering(a) : q # s /\ Arg(q, 3)' = Arg(q, 3)
        BY <1>4, <2>1, RegisteringKept DEF IInv
    <2> QED
        BY <1>3, <2>2 DEF Registering
\* Steps that leave the assets alone.
<1>6. CASE \/ Terminate(s) \/ FindToDrop(s) \/ FindToCreate(s) \/ RemoveInitialSchemaMigrations(s)
           \/ Close(s) \/ Generate(s) \/ CreateSchema(s) \/ ListTables(s) \/ CheckAsset(s)
           \/ FindPending(s) \/ FindLast(s) \/ Migrate(s) \/ Seed(s) \/ EnsureRegistryTable(s)
    <2>1. Head(todo[s])[1] \notin {"run", "register"}
        BY <1>6 DEF Terminate, FindToDrop, FindToCreate, RemoveInitialSchemaMigrations, Close, Generate,
            CreateSchema, ListTables, CheckAsset, FindPending, FindLast, Migrate, Seed,
            EnsureRegistryTable, Runs, At
    <2>2. suspect' = suspect
        BY <1>6 DEF Terminate, FindToDrop, FindToCreate, RemoveInitialSchemaMigrations, Close, Generate,
            CreateSchema, ListTables, CheckAsset, FindPending, FindLast, Migrate, Seed,
            EnsureRegistryTable, history
    <2>3. data'.object = data.object /\ data'.registry = data.registry
        BY <1>1, <1>6 DEF Terminate, FindToDrop, FindToCreate, RemoveInitialSchemaMigrations, Close, Generate,
            CreateSchema, ListTables, CheckAsset, FindPending, FindLast, Migrate, Seed,
            EnsureRegistryTable, history, Holds, Databases
    <2> QED
        BY <1>1, <1>5, <2>1, <2>2, <2>3, AssetKept
\* Steps that take the registry with them, or make suspect what they drop.
<1>7. CASE DropDatabase(s)
    <2>1. Head(todo[s])[1] = "drop" /\ \A q \in Slot : ~conn[q]
        BY <1>7 DEF DropDatabase, Runs, At, Works
    <2>2. data' = Blank /\ conn' = conn
        BY <1>7 DEF DropDatabase
    <2>3. data'.registry[a] = 0 /\ data'.object[a] = 0
        BY <2>2 DEF Blank, Nothing
    <2>4. /\ Registering(a)' = Registering(a)
          /\ \A q \in Registering(a) : ~conn'[q]
        BY <1>5, <2>1, <2>2 DEF Registering
    <2> QED
        BY <2>3, <2>4 DEF Registered, Truthful
<1>8. CASE CreateDatabase(s)
    <2>1. Head(todo[s])[1] = "create" /\ ~db
        BY <1>8 DEF CreateDatabase, Runs, At, Works
    <2>2. data = Blank /\ data' = [Blank EXCEPT !.schemas = {"public"}] /\ suspect' = suspect
        BY <1>8, <2>1 DEF CreateDatabase, IInv, TypeOK, history
    <2>3. data'.registry = data.registry /\ data'.object = data.object
        BY <2>2 DEF Blank
    <2> QED
        BY <1>1, <1>5, <2>1, <2>2, <2>3, AssetKept
<1>9. CASE WipeSchema(s)
    <2> DEFINE x == Arg(s, 2)
               d == Without(data, TablesIn(x))
               e == [d EXCEPT !.schemas = @ \ {x},
                              !.object = [b \in Asset |-> IF Home(b) = x THEN 0 ELSE @[b]]]
    <2>1. Head(todo[s])[1] = "wipe" /\ data' = e
        BY <1>9 DEF WipeSchema, Runs, At
    <2>2. x \in RequiredSet
        BY <1>1, <1>3, <2>1, FirstFixed, FixedArguments DEF Arg
    <2>3. /\ suspect' = suspect \cup Orphans(TablesIn(x))
                         \cup { b \in InSteps : Home(b) = x /\ Registering(b) # {} }
        BY <1>9 DEF WipeSchema
    <2>4. TablesIn(x) \subseteq Table
        BY DEF TablesIn, Table
    <2>5. /\ Holds(d)
          /\ d.object[a] = IF "app" \in TablesIn(x) /\ a \in OnTable THEN 0 ELSE data.object[a]
          /\ d.registry[a] = IF "registry" \in TablesIn(x) THEN 0 ELSE data.registry[a]
        BY <1>1, <2>4, WithoutHolds
    <2>6. "app" \in TablesIn(x) <=> x = Entities
        BY DEF TablesIn
    <2> HIDE DEF d, x
    <2>7. data'.registry = d.registry /\ data'.object[a] = IF Home(a) = x THEN 0 ELSE d.object[a]
        BY <2>1, <2>5 DEF Holds, Databases
    <2>8. CASE a \in suspect'
        BY <1>1, <1>5, <2>1, <2>8, AssetKept
    <2>9. CASE a \notin suspect' /\ Home(a) # x
        <3>1. a \in OnTable => x # Entities
            BY <2>9 DEF Home
        <3>2. data'.object[a] = data.object[a] /\ data'.registry[a] \in {0, data.registry[a]}
            BY <2>5, <2>6, <2>7, <2>9, <3>1
        <3> QED
            BY <1>1, <1>5, <2>1, <2>3, <3>2, AssetKept
    <2>10. CASE a \notin suspect' /\ Home(a) = x
        <3>1. a \notin OnTable
            BY <2>3, <2>6, <2>10 DEF Home, Orphans
        <3>2. x = "public"
            BY <2>10, <3>1 DEF Home
        <3>3. primary = "public"
            BY <2>2, <3>2, RequiredMembers, SchemasAssumption
        <3>4. data'.registry[a] = 0
            BY <2>5, <2>7, <3>2, <3>3 DEF TablesIn
        <3>5. a \in InSteps => Registering(a) = {}
            BY <2>3, <2>10
        <3> QED
            BY <1>1, <1>5, <2>1, <2>3, <3>4, <3>5, AssetKept
    <2> QED
        BY <2>8, <2>9, <2>10
<1>10. CASE TruncateTables(s)
    <2>1. Head(todo[s])[1] = "truncate" /\ suspect' = suspect
        BY <1>10 DEF TruncateTables, Runs, At
    <2>2. data'.object = data.object /\ data'.registry \in {Nothing, data.registry}
        BY <1>1, <1>10 DEF TruncateTables, Holds, Databases
    <2>3. data'.object[a] = data.object[a] /\ data'.registry[a] \in {0, data.registry[a]}
        BY <2>2 DEF Nothing
    <2> QED
        BY <1>1, <1>5, <2>1, <2>3, AssetKept
<1>11. CASE Undo(s)
    <2>1. Head(todo[s])[1] = "undo" /\ suspect' = suspect \cup OnTable
        BY <1>11 DEF Undo, Runs, At
    <2> DEFINE d == Without(data, {"app"})
    <2>2. {"app"} \subseteq Table
        BY DEF Table
    <2>3. /\ Holds(d) /\ (a \notin OnTable => d.object[a] = data.object[a])
          /\ d.registry[a] = data.registry[a]
        BY <1>1, <2>2, WithoutHolds
    <2>4. data' = [d EXCEPT !.record = @ \ {Arg(s, 2)}]
        BY <1>11 DEF Undo
    <2> HIDE DEF d
    <2>5. data'.object = d.object /\ data'.registry = d.registry
        BY <2>3, <2>4 DEF Holds, Databases
    <2> QED
        BY <1>1, <1>5, <2>1, <2>3, <2>5, AssetKept
\* A sync.
<1>12. CASE RunAsset(s)
    <2> DEFINE b == Head(todo[s])[2]
               v == Head(todo[s])[3]
    <2>1. Head(todo[s])[1] = "run"
        BY <1>12 DEF RunAsset, Runs, At
    <2>2. /\ b \in InSteps /\ Tail(todo[s]) # <<>>
          /\ Head(Tail(todo[s])) = <<"register", b, v>>
        BY <1>1, <1>3, <2>1, InstallShape
    <2>3. todo'[s] = Tail(todo[s])
        <3>1. Tail(todo[s]) \in Seq(Statement)
            BY <1>1, <1>3, HeadTailProperties
        <3>2. <<>> \o Tail(todo[s]) = Tail(todo[s])
            BY <3>1, ConcatEmptySeq
        <3> QED
            BY <1>1, <1>12, <3>2 DEF RunAsset, Query, Proceed
    <2>4. /\ data'.object = [data.object EXCEPT ![b] = v] /\ data'.registry = data.registry
        BY <1>1, <1>12 DEF RunAsset, Arg, Holds, Databases
    <2>5. suspect' = IF Registering(b) = {} THEN suspect \ {b} ELSE suspect \cup ({b} \cap InSteps)
        BY <1>12 DEF RunAsset, Arg
    <2>6. \A q \in Slot \ {s} : (At(q, "register") <=> At(q, "register")') /\ Arg(q, 2)' = Arg(q, 2)
                                 /\ Arg(q, 3)' = Arg(q, 3)
        BY <1>1, <1>4 DEF At, Arg
    <2>7. At(s, "register")' /\ ~At(s, "register") /\ Arg(s, 2)' = b /\ Arg(s, 3)' = v
        BY <2>1, <2>2, <2>3 DEF At, Arg
    <2> HIDE DEF b, v
    <2>8. CASE a = b
        <3>1. Registering(a)' = Registering(a) \cup {s}
            BY <2>6, <2>7, <2>8 DEF Registering
        <3>2. CASE Registering(a) = {}
            BY <1>1, <2>4, <2>7, <2>8, <3>1, <3>2, <2>2 DEF Registered, Truthful
        <3>3. CASE Registering(a) # {}
            BY <2>2, <2>5, <2>8, <3>3 DEF Registered, Truthful
        <3> QED
            BY <3>2, <3>3
    <2>9. CASE a # b
        <3>1. Registering(a)' = Registering(a) /\ s \notin Registering(a)
            BY <2>6, <2>7, <2>9 DEF Registering
        <3>2. \A q \in Registering(a) : Arg(q, 3)' = Arg(q, 3) /\ (conn'[q] => conn[q])
            BY <1>3, <2>6, <3>1 DEF Registering
        <3>3. data'.object[a] = data.object[a] /\ data'.registry[a] = data.registry[a]
            BY <1>1, <2>4, <2>9
        <3> QED
            BY <1>1, <2>5, <2>9, <3>1, <3>2, <3>3, AssetKept
    <2> QED
        BY <2>8, <2>9
<1>13. CASE UpsertRegistry(s)
    <2> DEFINE b == Head(todo[s])[2]
               v == Head(todo[s])[3]
    <2>1. Head(todo[s])[1] = "register" /\ Works(s)
        BY <1>13 DEF UpsertRegistry, Runs, At
    <2>2. b \in InSteps /\ conn[s]
        BY <1>1, <1>3, <2>1, InstallShape DEF Works, OnRunner
    <2>3. ~At(s, "register")'
        BY <1>2, <2>1 DEF Follows, At
    <2>4. /\ data'.registry = [data.registry EXCEPT ![b] = v] /\ data'.object = data.object
          /\ suspect' = suspect
        BY <1>1, <1>13 DEF UpsertRegistry, Arg, Holds, Databases, history
    <2>5. \A q \in Slot \ {s} : (At(q, "register") <=> At(q, "register")') /\ Arg(q, 2)' = Arg(q, 2)
                                 /\ Arg(q, 3)' = Arg(q, 3)
        BY <1>1, <1>4 DEF At, Arg
    <2>6. At(s, "register") /\ Arg(s, 2) = b /\ Arg(s, 3) = v
        BY <1>3, <2>1 DEF At, Arg
    <2> HIDE DEF b, v
    <2>7. /\ Registering(a)' = Registering(a) \ {s}
          /\ s \in Registering(a) <=> a = b
          /\ \A q \in Registering(a) \ {s} : Arg(q, 3)' = Arg(q, 3) /\ (conn'[q] => conn[q])
        BY <1>3, <2>3, <2>5, <2>6 DEF Registering
    <2>8. CASE a = b
        <3>1. a \notin suspect => data.object[a] = v
            BY <1>1, <2>2, <2>6, <2>7, <2>8 DEF Registered
        <3>2. data'.registry[a] = v /\ data'.object[a] = data.object[a]
            BY <1>1, <2>4, <2>8
        <3> QED
            BY <1>1, <2>4, <2>7, <3>1, <3>2 DEF Registered, Truthful
    <2>9. CASE a # b
        <3>1. data'.registry[a] = data.registry[a] /\ data'.object[a] = data.object[a]
            BY <1>1, <2>4, <2>9
        <3> QED
            BY <1>1, <2>4, <2>7, <2>9, <3>1, AssetKept
    <2> QED
        BY <2>8, <2>9
<1>14. CASE RunAndRegister(s)
    <2> DEFINE b == Head(todo[s])[2]
               v == Head(todo[s])[3]
    <2>1. Head(todo[s])[1] = "runAndRegister"
        BY <1>14 DEF RunAndRegister, Runs, At
    <2>2. b \in Asset \ InSteps
        BY <1>1, <1>3, <2>1, InstallShape
    <2>3. /\ data'.object = [data.object EXCEPT ![b] = v]
          /\ data'.registry = [data.registry EXCEPT ![b] = v]
          /\ suspect' = suspect \ {b}
        BY <1>1, <1>14 DEF RunAndRegister, Arg, Holds, Databases
    <2> HIDE DEF b, v
    <2>4. CASE a = b
        BY <1>1, <2>2, <2>3, <2>4 DEF Registered, Truthful
    <2>5. CASE a # b
        <3>1. data'.registry[a] = data.registry[a] /\ data'.object[a] = data.object[a]
            BY <1>1, <2>3, <2>5
        <3> QED
            BY <1>1, <1>5, <2>1, <2>3, <2>5, <3>1, AssetKept
    <2> QED
        BY <2>4, <2>5
<1> QED
    BY <1>6, <1>7, <1>8, <1>9, <1>10, <1>11, <1>12, <1>13, <1>14 DEF Step

\* The registry is true to begin with.
LEMMA InitRegistry == Init /\ TypeOK => \A a \in Asset : Registered(a) /\ Truthful(a)
<1> SUFFICES ASSUME Init, TypeOK, NEW a \in Asset
             PROVE  Registered(a) /\ Truthful(a)
    OBVIOUS
<1>1. Registering(a) = {}
    BY DEF Init, Registering, At
<1>2. data.registry[a] # 0 /\ a \notin suspect => data.object[a] = data.registry[a]
    <2>1. CASE data.registry = Nothing
        BY <2>1 DEF Nothing
    <2>2. ASSUME NEW m \in Migrations, data = Deployed(m)
          PROVE  data.object[a] = data.registry[a]
        BY <2>2 DEF Deployed
    <2>3. ASSUME NEW m \in Migrations, data = Without(Deployed(m), {"app"}), suspect = OnTable
          PROVE  a \notin suspect => data.object[a] = data.registry[a]
        BY <2>3 DEF Deployed, Without
    <2>4. \/ data.registry = Nothing
          \/ \E m \in Migrations : data = Deployed(m)
          \/ \E m \in Migrations : data = Without(Deployed(m), {"app"}) /\ suspect = OnTable
        <3>1. /\ Blank.registry = Nothing /\ [Blank EXCEPT !.schemas = {"public"}].registry = Nothing
              /\ \A m \in Migrations :
                    [Deployed(m) EXCEPT !.rows = {}, !.record = {}, !.registry = Nothing].registry = Nothing
            BY DEF Blank, Deployed
        <3> QED
            BY <3>1 DEF Init
    <2> QED
        BY <2>1, <2>2, <2>3, <2>4
<1> QED
    BY <1>1, <1>2 DEF Registered, Truthful

\* Starting a script changes nothing of an asset; a script that fails at a
\* registration leaves it suspect.
LEMMA SlotRegistry ==
    ASSUME IInv, NEW s \in Slot, (\E name \in Scripts : Start(s, name)) \/ Fail(s), NEW a \in Asset
    PROVE  Registered(a)' /\ Truthful(a)'
<1>1. /\ Registered(a) /\ Truthful(a) /\ Formed(todo[s]) /\ Programs
      /\ conn \in [Slot -> BOOLEAN] /\ todo \in [Slot -> Seq(Statement)]
    BY DEF IInv, TypeOK, Programs
<1>2. CASE \E name \in Scripts : Start(s, name)
    <2>1. PICK name \in Scripts : Start(s, name)
        BY <1>2
    <2> DEFINE t == Steps(name)
    <2>2. t # <<>> => Head(t)[1] # "register"
        <3>1. t # <<>> => Head(t) \in Fixed
            BY StepsFormed, HeadTailProperties
        <3> QED
            BY <3>1, FixedArguments
    <2> HIDE DEF t
    <2>3. ~At(s, "register") /\ todo' = [todo EXCEPT ![s] = t]
        BY <2>1 DEF Start, At, t
    <2>4. UNCHANGED <<data, conn, suspect>>
        BY <2>1 DEF Start, history
    <2>5. /\ Registering(a)' = Registering(a)
          /\ \A q \in Registering(a) : Arg(q, 3)' = Arg(q, 3)
        BY <1>1, <2>2, <2>3, RegisteringKept
    <2> QED
        BY <1>1, <2>4, <2>5, AssetKept
<1>3. CASE Fail(s)
    <2>1. /\ todo' = [todo EXCEPT ![s] = <<>>] /\ conn' = [conn EXCEPT ![s] = FALSE] /\ data' = data
          /\ suspect' = suspect \cup { b \in InSteps : s \in Registering(b) }
        BY <1>3 DEF Fail
    <2>2. CASE s \in Registering(a)
        <3>1. a \in InSteps
            BY <1>1, <2>2, InstallShape DEF Registering, At, Arg
        <3> QED
            BY <2>1, <2>2, <3>1 DEF Registered, Truthful
    <2>3. CASE s \notin Registering(a)
        <3>1. \A q \in Slot \ {s} : todo'[q] = todo[q]
            BY <1>1, <2>1
        <3>2. todo'[s] = <<>>
            BY <1>1, <2>1
        <3>3. /\ Registering(a)' = Registering(a)
              /\ \A q \in Registering(a) : Arg(q, 3)' = Arg(q, 3)
            BY <2>3, <3>1, <3>2 DEF Registering, At, Arg
        <3> QED
            BY <1>1, <2>1, <3>3, AssetKept DEF Registering
    <2> QED
        BY <2>2, <2>3
<1> QED
    BY <1>2, <1>3

\* Every step keeps that.
LEMMA RegistryKept == ASSUME IInv, [Next]_vars PROVE IInv'
<1>1. CASE \E s \in Slot : Step(s)
    <2>1. PICK s \in Slot : Step(s)
        BY <1>1
    <2>2. (TypeOK /\ Programs)'
        BY <2>1, StepTypes DEF IInv
    <2>3. \A a \in Asset : Registered(a)' /\ Truthful(a)'
        BY <2>1, StepRegistry
    <2> QED
        BY <2>2, <2>3 DEF IInv
<1>2. CASE \E s \in Slot : (\E name \in Scripts : Start(s, name)) \/ Fail(s)
    <2>1. PICK s \in Slot : (\E name \in Scripts : Start(s, name)) \/ Fail(s)
        BY <1>2
    <2>2. (TypeOK /\ Programs)'
        BY <2>1, SlotTypes DEF IInv
    <2>3. \A a \in Asset : Registered(a)' /\ Truthful(a)'
        BY <2>1, SlotRegistry
    <2> QED
        BY <2>2, <2>3 DEF IInv
<1>3. CASE \/ ClientConnects \/ ClientWrites
           \/ \E a \in Asset, v \in Versions : EditAsset(a, v)
           \/ UNCHANGED vars
    <2>1. (TypeOK /\ Programs)'
        BY <1>3, OtherTypes DEF IInv
    <2>2. /\ UNCHANGED <<todo, conn, suspect>>
          /\ data'.object = data.object /\ data'.registry = data.registry
        BY <1>3 DEF ClientConnects, ClientWrites, EditAsset, Disturb, history, vars, process,
            IInv, TypeOK, Databases
    <2>3. \A a \in Asset : Registered(a)' /\ Truthful(a)'
        BY <2>2 DEF IInv, Registered, Truthful, Registering, At, Arg
    <2> QED
        BY <2>1, <2>3 DEF IInv
<1> QED
    BY <1>1, <1>2, <1>3 DEF Next

\* What the registry says was synced is what is installed, for any manifest and
\* however many scripts overlap, fail or are killed: but for the assets whose sync
\* stopped or was crossed between its two steps, or whose table was dropped.
THEOREM RegistryAlwaysTellsTruth == Spec => []RegistryTellsTruth
<1>1. Init => IInv
    BY InitTypes, InitRegistry DEF IInv
<1>2. IInv /\ [Next]_vars => IInv'
    BY RegistryKept
<1>3. IInv => RegistryTellsTruth
    BY DEF IInv, Truthful, RegistryTellsTruth
<1> QED
    BY <1>1, <1>2, <1>3, PTL DEF Spec

-----------------------------------------------------------------------------
(* Undisturbed scripts.  The statements of db:drop, db:create and db:reset *)
(* are stretches of those of db:fresh, so one account of what db:fresh has *)
(* established after k statements serves all four; the other scripts share *)
(* their beginning and their end, and differ in the part between.          *)

\* The number of schemas that are ensured.
N == Len(Required)

\* What is left of the first l statements of a script once k are done.
Left(p, k, l) == SubSeq(p, k + 1, l)

\* Its first statement, and what is left after it.
LEMMA LeftIs ==
    ASSUME NEW S, NEW p \in Seq(S), NEW l \in 0 .. Len(p), NEW k \in 0 .. l
    PROVE  /\ Left(p, k, l) \in Seq(S)
           /\ k = l => Left(p, k, l) = <<>>
           /\ k < l => /\ Left(p, k, l) # <<>> /\ Head(Left(p, k, l)) = p[k + 1]
                       /\ Tail(Left(p, k, l)) = Left(p, k + 1, l)
<1>1. Len(p) \in Nat /\ l \in Nat /\ k \in Nat /\ l <= Len(p)
    BY LenProperties
<1>2. \A i \in k + 1 .. l : p[i] \in S
    BY <1>1, ElementOfSeq
<1>3. /\ Left(p, k, l) \in Seq(S)
      /\ Len(Left(p, k, l)) = IF k + 1 <= l THEN l - (k + 1) + 1 ELSE 0
    BY <1>1, <1>2, SubSeqProperties DEF Left
<1>4. CASE k = l
    BY <1>1, <1>3, <1>4, SubSeqEmpty DEF Left
<1>5. CASE k < l
    <2>1. k + 1 \in 1 .. Len(p) /\ l \in k + 1 .. Len(p)
        BY <1>1, <1>5
    <2>2. Head(Left(p, k, l)) = p[k + 1] /\ Tail(Left(p, k, l)) = SubSeq(p, k + 1 + 1, l)
        BY <2>1, HeadTailOfSubSeq DEF Left
    <2>3. Len(Left(p, k, l)) # 0
        BY <1>1, <1>3, <1>5
    <2>4. Left(p, k, l) # <<>>
        BY <2>3, EmptySeq
    <2> QED
        BY <1>3, <1>5, <2>2, <2>4 DEF Left
<1> QED
    BY <1>1, <1>3, <1>4, <1>5

\* A statement that is put before others comes first ...
LEMMA Comes ==
    ASSUME NEW S, NEW x \in S, NEW q \in Seq(S)
    PROVE  << x >> \o q # <<>> /\ Head(<< x >> \o q) = x /\ Tail(<< x >> \o q) = q
<1>1. << x >> \in Seq(S) /\ Len(<< x >>) = 1 /\ Len(q) \in Nat
    BY LenProperties
<1>2. /\ << x >> \o q \in Seq(S) /\ Len(<< x >> \o q) = 1 + Len(q)
      /\ \A i \in 1 .. 1 + Len(q) : (<< x >> \o q)[i] = IF i <= 1 THEN << x >>[i] ELSE q[i - 1]
    BY <1>1, ConcatProperties
<1>3. << x >> \o q # <<>>
    BY <1>1, <1>2, EmptySeq
<1>4. /\ Tail(<< x >> \o q) \in Seq(S) /\ Len(Tail(<< x >> \o q)) = Len(q)
      /\ \A i \in 1 .. Len(q) : Tail(<< x >> \o q)[i] = (<< x >> \o q)[i + 1]
    BY <1>1, <1>2, <1>3, HeadTailProperties
<1>5. \A i \in 1 .. Len(q) : Tail(<< x >> \o q)[i] = q[i]
    BY <1>1, <1>2, <1>4
<1>6. Tail(<< x >> \o q) = q
    BY <1>4, <1>5, SeqEqual
<1> QED
    BY <1>1, <1>2, <1>3, <1>6

\* Where the elements of two sequences are in their concatenation.
LEMMA Join ==
    ASSUME NEW S, NEW p \in Seq(S), NEW q \in Seq(S)
    PROVE  /\ p \o q \in Seq(S) /\ Len(p \o q) = Len(p) + Len(q)
           /\ \A i \in 1 .. Len(p) : (p \o q)[i] = p[i]
           /\ \A i \in 1 .. Len(q) : (p \o q)[Len(p) + i] = q[i]
<1>1. Len(p) \in Nat /\ Len(q) \in Nat
    BY LenProperties
<1>2. /\ p \o q \in Seq(S) /\ Len(p \o q) = Len(p) + Len(q)
      /\ \A i \in 1 .. Len(p) + Len(q) : (p \o q)[i] = IF i <= Len(p) THEN p[i] ELSE q[i - Len(p)]
    BY ConcatProperties
<1>3. \A i \in 1 .. Len(p) : (p \o q)[i] = p[i]
    BY <1>1, <1>2
<1>4. ASSUME NEW i \in 1 .. Len(q)
      PROVE  (p \o q)[Len(p) + i] = q[i]
    <2>1. Len(p) + i \in 1 .. Len(p) + Len(q) /\ ~(Len(p) + i <= Len(p)) /\ Len(p) + i - Len(p) = i
        BY <1>1
    <2> QED
        BY <1>2, <2>1
<1> QED
    BY <1>2, <1>3, <1>4

\* ... and so does the first of two.
LEMMA ComesTwo ==
    ASSUME NEW S, NEW x \in S, NEW y \in S, NEW q \in Seq(S)
    PROVE  /\ << x, y >> \o q # <<>> /\ Head(<< x, y >> \o q) = x
           /\ Tail(<< x, y >> \o q) = << y >> \o q
<1> DEFINE r == << y >> \o q
<1>1. << x >> \in Seq(S) /\ << y >> \in Seq(S) /\ r \in Seq(S)
    BY ConcatProperties
<1>2. << x, y >> = << x >> \o << y >>
    <2>1. << x, y >> \in Seq(S) /\ Len(<< x, y >>) = 2
        OBVIOUS
    <2>2. /\ << x >> \o << y >> \in Seq(S) /\ Len(<< x >> \o << y >>) = 2
          /\ (<< x >> \o << y >>)[1] = x /\ (<< x >> \o << y >>)[1 + 1] = y
        BY <1>1, Join
    <2>3. \A i \in 1 .. 2 : << x, y >>[i] = (<< x >> \o << y >>)[i]
        BY <2>2
    <2> QED
        BY <2>1, <2>2, <2>3, SeqEqual
<1>3. << x, y >> \o q = << x >> \o r
    BY <1>1, <1>2, ConcatAssociative
<1> HIDE DEF r
<1>4. << x >> \o r # <<>> /\ Head(<< x >> \o r) = x /\ Tail(<< x >> \o r) = r
    BY <1>1, Comes
<1> QED
    BY <1>3, <1>4 DEF r

\* The schemas are ensured one by one, and the connection is closed.
LEMMA EnsureIs ==
    /\ N \in Nat /\ Ensure \in Seq(Fixed) /\ Len(Ensure) = N + 1
    /\ \A i \in 1 .. N : Ensure[i] = <<"schema", Required[i]>>
    /\ Ensure[N + 1] = <<"close">>
    /\ \A x \in RequiredSet : \E i \in 1 .. N : x = Required[i]
    /\ \A i \in 1 .. N : Required[i] \in RequiredSet
<1>1. Required \in [1 .. N -> RequiredSet] /\ N \in Nat
    <2>1. <<primary>> \in Seq(STRING \cup {primary}) /\ AppSchemas \in Seq(STRING \cup {primary})
        <3>1. STRING \subseteq STRING \cup {primary}
            OBVIOUS
        <3>2. AppSchemas \in Seq(STRING \cup {primary})
            BY <3>1, SequencesAssumption, SeqMonotonic, Zenon
        <3> QED
            BY <3>2
    <2>2. Required \in Seq(STRING \cup {primary})
        BY <2>1, ConcatProperties DEF Required
    <2> QED
        BY <2>2, LenProperties DEF RequiredSet, N
<1> DEFINE e == [i \in DOMAIN Required |-> <<"schema", Required[i]>>]
           c == << <<"close">> >>
<1>2. e \in [1 .. N -> Fixed] /\ \A i \in 1 .. N : e[i] = <<"schema", Required[i]>>
    <2>1. \A i \in 1 .. N : <<"schema", Required[i]>> \in Fixed
        BY <1>1 DEF Fixed
    <2> QED
        BY <1>1, <2>1
<1>3. e \in Seq(Fixed) /\ Len(e) = N
    BY <1>1, <1>2, SeqDef
<1>4. c \in Seq(Fixed) /\ Len(c) = 1 /\ c[1] = <<"close">>
    BY DEF Fixed, Plain
<1>5. Ensure = e \o c
    BY DEF Ensure
<1> HIDE DEF e, c
<1>6. /\ e \o c \in Seq(Fixed) /\ Len(e \o c) = N + 1
      /\ \A i \in 1 .. N + 1 : (e \o c)[i] = IF i <= N THEN e[i] ELSE c[i - N]
    BY <1>3, <1>4, ConcatProperties
<1>7. RequiredSet = { Required[i] : i \in 1 .. N }
    BY <1>1 DEF RequiredSet
<1> QED
    BY <1>1, <1>2, <1>4, <1>5, <1>6, <1>7

\* The statements of db:fresh, which hold those of db:drop, db:create and db:reset.
LEMMA FreshIs ==
    /\ FreshScript \in Seq(Fixed) /\ Len(FreshScript) = 11 + 3 * N
    /\ FreshScript[1] = <<"files">> /\ FreshScript[2] = <<"terminate">>
    /\ FreshScript[3] = <<"findToDrop">> /\ FreshScript[4] = <<"findToCreate">>
    /\ \A i \in 1 .. N : /\ FreshScript[4 + i] = <<"schema", Required[i]>>
                         /\ FreshScript[5 + N + i] = <<"schema", Required[i]>>
                         /\ FreshScript[8 + 2 * N + i] = <<"schema", Required[i]>>
    /\ \A i \in {5 + N, 6 + 2 * N, 8 + 2 * N, 9 + 3 * N, 11 + 3 * N} : FreshScript[i] = <<"close">>
    /\ FreshScript[7 + 2 * N] = <<"generate">> /\ FreshScript[10 + 3 * N] = <<"pending">>
<1> DEFINE f == << <<"files">> >> \o Drop
           c == CreateScript
           g == << <<"generate">>, <<"close">> >>
           p == << <<"pending">> >>
           z == << <<"close">> >>
           m == Ensure \o p \o z
<1>1. /\ N \in Nat /\ Ensure \in Seq(Fixed) /\ Len(Ensure) = N + 1
      /\ \A i \in 1 .. N : Ensure[i] = <<"schema", Required[i]>>
      /\ Ensure[N + 1] = <<"close">>
    BY EnsureIs
<1>2. /\ f \in Seq(Fixed) /\ Len(f) = 3 /\ f[1] = <<"files">> /\ f[2] = <<"terminate">>
      /\ f[3] = <<"findToDrop">>
    <2> DEFINE h == << <<"files">> >>
    <2>1. /\ h \in Seq(Fixed) /\ Len(h) = 1 /\ h[1] = <<"files">>
          /\ Drop \in Seq(Fixed) /\ Len(Drop) = 2 /\ Drop[1] = <<"terminate">>
          /\ Drop[2] = <<"findToDrop">>
        BY DEF Drop, Fixed, Bare, Plain
    <2> HIDE DEF h
    <2>2. /\ h \o Drop \in Seq(Fixed) /\ Len(h \o Drop) = Len(h) + Len(Drop)
          /\ \A i \in 1 .. Len(h) : (h \o Drop)[i] = h[i]
          /\ \A i \in 1 .. Len(Drop) : (h \o Drop)[Len(h) + i] = Drop[i]
        BY <2>1, Join
    <2>3. f = h \o Drop
        BY DEF f, h
    <2>4. Len(f) = 3 /\ f[1] = h[1] /\ f[1 + 1] = Drop[1] /\ f[1 + 2] = Drop[2]
        BY <2>1, <2>2, <2>3
    <2> QED
        BY <2>1, <2>2, <2>3, <2>4
<1>3. /\ c \in Seq(Fixed) /\ Len(c) = N + 2 /\ c[1] = <<"findToCreate">>
      /\ \A i \in 1 .. N : c[1 + i] = <<"schema", Required[i]>>
      /\ c[N + 2] = <<"close">>
    <2> DEFINE h == Create
    <2>1. h \in Seq(Fixed) /\ Len(h) = 1 /\ h[1] = <<"findToCreate">>
        BY DEF Create, Fixed, Plain
    <2>2. c = h \o Ensure
        BY DEF CreateScript
    <2> HIDE DEF h
    <2>3. /\ h \o Ensure \in Seq(Fixed) /\ Len(h \o Ensure) = 1 + (N + 1)
          /\ (h \o Ensure)[1] = h[1]
          /\ \A i \in 1 .. N + 1 : (h \o Ensure)[1 + i] = Ensure[i]
        <3>1. /\ h \o Ensure \in Seq(Fixed) /\ Len(h \o Ensure) = Len(h) + Len(Ensure)
              /\ \A i \in 1 .. Len(h) : (h \o Ensure)[i] = h[i]
              /\ \A i \in 1 .. Len(Ensure) : (h \o Ensure)[Len(h) + i] = Ensure[i]
            BY <1>1, <2>1, Join
        <3> QED
            BY <1>1, <2>1, <3>1
    <2>4. 1 + (N + 1) = N + 2 /\ \A i \in 1 .. N : i \in 1 .. N + 1
        BY <1>1
    <2>5. (h \o Ensure)[N + 2] = Ensure[N + 1]
        BY <1>1, <2>3, <2>4
    <2> QED
        BY <1>1, <2>1, <2>2, <2>3, <2>4, <2>5
<1>4. /\ g \in Seq(Fixed) /\ Len(g) = 2 /\ g[1] = <<"generate">> /\ g[2] = <<"close">>
      /\ p \in Seq(Fixed) /\ Len(p) = 1 /\ p[1] = <<"pending">>
      /\ z \in Seq(Fixed) /\ Len(z) = 1 /\ z[1] = <<"close">>
    BY DEF Fixed, Plain
<1>5. FreshScript = f \o c \o Ensure \o g \o m
    BY DEF FreshScript, MigrateScript, OnDataSource
<1> HIDE DEF f, c, g, p, z
<1>6. /\ m \in Seq(Fixed) /\ Len(m) = N + 3
      /\ \A i \in 1 .. N + 1 : m[i] = Ensure[i]
      /\ m[N + 2] = <<"pending">> /\ m[N + 3] = <<"close">>
    <2>1. /\ Ensure \o p \in Seq(Fixed) /\ Len(Ensure \o p) = N + 1 + 1
          /\ \A i \in 1 .. N + 1 : (Ensure \o p)[i] = Ensure[i]
          /\ \A i \in 1 .. 1 : (Ensure \o p)[N + 1 + i] = p[i]
        BY <1>1, <1>4, Join
    <2>2. /\ m \in Seq(Fixed) /\ Len(m) = N + 1 + 1 + 1
          /\ \A i \in 1 .. N + 1 + 1 : m[i] = (Ensure \o p)[i]
          /\ \A i \in 1 .. 1 : m[N + 1 + 1 + i] = z[i]
        BY <1>4, <2>1, Join
    <2>3. N + 1 + 1 = N + 2 /\ N + 1 + 1 + 1 = N + 3 /\ \A i \in 1 .. N + 1 : i \in 1 .. N + 1 + 1
        BY <1>1
    <2>4. m[N + 2] = p[1] /\ m[N + 3] = z[1]
        BY <1>1, <2>1, <2>2, <2>3
    <2> QED
        BY <1>4, <2>1, <2>2, <2>3, <2>4
<1> HIDE DEF m
<1>7. /\ f \o c \in Seq(Fixed) /\ Len(f \o c) = N + 5
      /\ \A i \in 1 .. 3 : (f \o c)[i] = f[i]
      /\ \A i \in 1 .. N + 2 : (f \o c)[3 + i] = c[i]
    <2>1. 3 + (N + 2) = N + 5
        BY <1>1
    <2>2. f \in Seq(Fixed) /\ c \in Seq(Fixed)
        BY <1>2, <1>3
    <2>3. /\ f \o c \in Seq(Fixed)
          /\ Len(f \o c) = Len(f) + Len(c)
          /\ \A i \in 1 .. Len(f) : (f \o c)[i] = (f)[i]
          /\ \A i \in 1 .. Len(c) : (f \o c)[Len(f) + i] = c[i]
        BY <2>2, Join
    <2> QED
        BY <1>2, <1>3, <2>1, <2>3
<1>8. /\ f \o c \o Ensure \in Seq(Fixed) /\ Len(f \o c \o Ensure) = 2 * N + 6
      /\ \A i \in 1 .. N + 5 : (f \o c \o Ensure)[i] = (f \o c)[i]
      /\ \A i \in 1 .. N + 1 : (f \o c \o Ensure)[N + 5 + i] = Ensure[i]
    <2>1. N + 5 + (N + 1) = 2 * N + 6
        BY <1>1
    <2>2. f \o c \in Seq(Fixed) /\ Ensure \in Seq(Fixed)
        BY <1>1, <1>7
    <2>3. /\ f \o c \o Ensure \in Seq(Fixed)
          /\ Len(f \o c \o Ensure) = Len(f \o c) + Len(Ensure)
          /\ \A i \in 1 .. Len(f \o c) : (f \o c \o Ensure)[i] = (f \o c)[i]
          /\ \A i \in 1 .. Len(Ensure) : (f \o c \o Ensure)[Len(f \o c) + i] = Ensure[i]
        BY <2>2, Join
    <2> QED
        BY <1>1, <1>7, <2>1, <2>3
<1>9. /\ f \o c \o Ensure \o g \in Seq(Fixed) /\ Len(f \o c \o Ensure \o g) = 2 * N + 8
      /\ \A i \in 1 .. 2 * N + 6 : (f \o c \o Ensure \o g)[i] = (f \o c \o Ensure)[i]
      /\ \A i \in 1 .. 2 : (f \o c \o Ensure \o g)[2 * N + 6 + i] = g[i]
    <2>1. 2 * N + 6 + 2 = 2 * N + 8
        BY <1>1
    <2>2. f \o c \o Ensure \in Seq(Fixed) /\ g \in Seq(Fixed)
        BY <1>4, <1>8
    <2>3. /\ f \o c \o Ensure \o g \in Seq(Fixed)
          /\ Len(f \o c \o Ensure \o g) = Len(f \o c \o Ensure) + Len(g)
          /\ \A i \in 1 .. Len(f \o c \o Ensure) : (f \o c \o Ensure \o g)[i] = (f \o c \o Ensure)[i]
          /\ \A i \in 1 .. Len(g) : (f \o c \o Ensure \o g)[Len(f \o c \o Ensure) + i] = g[i]
        BY <2>2, Join
    <2> QED
        BY <1>4, <1>8, <2>1, <2>3
<1>10. /\ FreshScript \in Seq(Fixed) /\ Len(FreshScript) = 11 + 3 * N
       /\ \A i \in 1 .. 2 * N + 8 : FreshScript[i] = (f \o c \o Ensure \o g)[i]
       /\ \A i \in 1 .. N + 3 : FreshScript[2 * N + 8 + i] = m[i]
    <2>1. 2 * N + 8 + (N + 3) = 11 + 3 * N
        BY <1>1
    <2>2. f \o c \o Ensure \o g \in Seq(Fixed) /\ m \in Seq(Fixed)
        BY <1>6, <1>9
    <2>3. /\ f \o c \o Ensure \o g \o m \in Seq(Fixed)
          /\ Len(f \o c \o Ensure \o g \o m) = Len(f \o c \o Ensure \o g) + Len(m)
          /\ \A i \in 1 .. Len(f \o c \o Ensure \o g) :
                (f \o c \o Ensure \o g \o m)[i] = (f \o c \o Ensure \o g)[i]
          /\ \A i \in 1 .. Len(m) : (f \o c \o Ensure \o g \o m)[Len(f \o c \o Ensure \o g) + i] = m[i]
        BY <2>2, Join
    <2> QED
        BY <1>5, <1>6, <1>9, <2>1, <2>3
<1>11. ASSUME NEW i \in 1 .. N + 5
       PROVE  FreshScript[i] = (f \o c)[i]
    <2>1. i \in 1 .. 2 * N + 8 /\ i \in 1 .. 2 * N + 6
        BY <1>1
    <2> QED
        BY <1>8, <1>9, <1>10, <2>1
<1>12. \A i \in 1 .. 3 : FreshScript[i] = f[i]
    BY <1>1, <1>7, <1>11
<1>13. ASSUME NEW i \in 1 .. N + 2
       PROVE  FreshScript[3 + i] = c[i]
    <2>1. 3 + i \in 1 .. N + 5
        BY <1>1
    <2> QED
        BY <1>7, <1>11, <2>1
<1>14. ASSUME NEW i \in 1 .. N + 1
       PROVE  FreshScript[5 + N + i] = Ensure[i]
    <2>1. 5 + N + i = N + 5 + i /\ N + 5 + i \in 1 .. 2 * N + 6 /\ N + 5 + i \in 1 .. 2 * N + 8
        BY <1>1
    <2>2. FreshScript[N + 5 + i] = (f \o c \o Ensure)[N + 5 + i]
        BY <1>9, <1>10, <2>1
    <2> QED
        BY <1>8, <2>1, <2>2
<1>15. ASSUME NEW i \in 1 .. 2
       PROVE  FreshScript[6 + 2 * N + i] = g[i]
    <2>1. 6 + 2 * N + i = 2 * N + 6 + i /\ 2 * N + 6 + i \in 1 .. 2 * N + 8
        BY <1>1
    <2> QED
        BY <1>9, <1>10, <2>1
<1>16. ASSUME NEW i \in 1 .. N + 3
       PROVE  FreshScript[8 + 2 * N + i] = m[i]
    <2>1. 8 + 2 * N + i = 2 * N + 8 + i
        BY <1>1
    <2> QED
        BY <1>10, <2>1
<1>17. /\ 4 = 3 + 1 /\ 5 + N = 3 + (N + 2) /\ 6 + 2 * N = 5 + N + (N + 1)
       /\ 7 + 2 * N = 6 + 2 * N + 1 /\ 8 + 2 * N = 6 + 2 * N + 2
       /\ 9 + 3 * N = 8 + 2 * N + (N + 1) /\ 10 + 3 * N = 8 + 2 * N + (N + 2)
       /\ 11 + 3 * N = 8 + 2 * N + (N + 3)
       /\ 1 \in 1 .. N + 2 /\ N + 2 \in 1 .. N + 2 /\ N + 1 \in 1 .. N + 1
       /\ N + 1 \in 1 .. N + 3 /\ N + 2 \in 1 .. N + 3 /\ N + 3 \in 1 .. N + 3
    BY <1>1
<1>18. /\ FreshScript[4] = c[1] /\ FreshScript[5 + N] = c[N + 2]
       /\ FreshScript[6 + 2 * N] = Ensure[N + 1]
       /\ FreshScript[7 + 2 * N] = g[1] /\ FreshScript[8 + 2 * N] = g[2]
       /\ FreshScript[9 + 3 * N] = m[N + 1] /\ FreshScript[10 + 3 * N] = m[N + 2]
       /\ FreshScript[11 + 3 * N] = m[N + 3]
    BY <1>13, <1>14, <1>15, <1>16, <1>17
<1>19. ASSUME NEW i \in 1 .. N
       PROVE  /\ FreshScript[4 + i] = <<"schema", Required[i]>>
              /\ FreshScript[5 + N + i] = <<"schema", Required[i]>>
              /\ FreshScript[8 + 2 * N + i] = <<"schema", Required[i]>>
    <2>1. /\ 4 + i = 3 + (1 + i) /\ 1 + i \in 1 .. N + 2 /\ i \in 1 .. N + 1 /\ i \in 1 .. N + 3
        BY <1>1
    <2> QED
        BY <1>1, <1>3, <1>6, <1>13, <1>14, <1>16, <2>1
<1>20. \A i \in {5 + N, 6 + 2 * N, 8 + 2 * N, 9 + 3 * N, 11 + 3 * N} : FreshScript[i] = <<"close">>
    <2>1. m[N + 1] = <<"close">>
        BY <1>1, <1>6, <1>17
    <2> QED
        BY <1>1, <1>3, <1>4, <1>6, <1>18, <2>1
<1>21. FreshScript[1] = f[1] /\ FreshScript[2] = f[2] /\ FreshScript[3] = f[3]
    BY <1>12
<1> QED
    BY <1>2, <1>3, <1>4, <1>6, <1>10, <1>18, <1>19, <1>20, <1>21

\* When a sequence is a stretch of another one.
LEMMA StretchIs ==
    ASSUME NEW S, NEW p \in Seq(S), NEW q \in Seq(S), NEW k \in Nat, NEW l \in Nat,
           k <= l, l <= Len(p), Len(q) = l - k, \A i \in 1 .. Len(q) : q[i] = p[k + i]
    PROVE  q = Left(p, k, l)
<1>1. Len(p) \in Nat
    BY LenProperties
<1>2. \A i \in k + 1 .. l : p[i] \in S
    BY <1>1, ElementOfSeq
<1>3. /\ Left(p, k, l) \in Seq(S)
      /\ Len(Left(p, k, l)) = IF k + 1 <= l THEN l - (k + 1) + 1 ELSE 0
      /\ \A i \in 1 .. l - (k + 1) + 1 : Left(p, k, l)[i] = p[k + 1 + i - 1]
    BY <1>2, SubSeqProperties DEF Left
<1>4. Len(Left(p, k, l)) = Len(q)
    BY <1>3
<1>5. ASSUME NEW i \in 1 .. Len(q)
      PROVE  q[i] = Left(p, k, l)[i]
    <2>1. i \in 1 .. l - (k + 1) + 1 /\ k + 1 + i - 1 = k + i
        OBVIOUS
    <2> QED
        BY <1>3, <2>1
<1> QED
    BY <1>3, <1>4, <1>5, SeqEqual

Rebuilding == {"drop", "create", "reset", "fresh"}

\* The stretch of db:fresh each of them is.
Begin(name) ==
    CASE name = "fresh" -> 0
      [] name \in {"drop", "reset"} -> 1
      [] name = "create" -> 3

End(name) ==
    CASE name = "drop" -> 3
      [] name \in {"create", "reset"} -> 5 + N
      [] name = "fresh" -> 11 + 3 * N

\* The statements of each are that stretch.
LEMMA RebuildIs ==
    ASSUME NEW name \in Rebuilding
    PROVE  /\ Steps(name) = Left(FreshScript, Begin(name), End(name))
           /\ Begin(name) \in Nat /\ End(name) \in Nat
           /\ Begin(name) <= End(name) /\ End(name) <= Len(FreshScript)
<1>1. N \in Nat /\ FreshScript \in Seq(Fixed) /\ Len(FreshScript) = 11 + 3 * N
    BY EnsureIs, FreshIs
<1>2. CASE name = "fresh"
    <2>1. Steps(name) = FreshScript /\ Begin(name) = 0 /\ End(name) = 11 + 3 * N
        BY <1>2 DEF Steps, Begin, End
    <2>2. FreshScript = Left(FreshScript, 0, 11 + 3 * N)
        BY <1>1, SubSeqFull DEF Left
    <2> QED
        BY <1>1, <2>1, <2>2
<1>3. CASE name = "drop"
    <2>1. Steps(name) = Drop /\ Begin(name) = 1 /\ End(name) = 3
        BY <1>3 DEF Steps, Begin, End
    <2>2. /\ Drop \in Seq(Fixed) /\ Len(Drop) = 2 /\ Drop[1] = <<"terminate">>
          /\ Drop[2] = <<"findToDrop">>
        BY DEF Drop, Fixed, Bare
    <2>3. Drop[1] = FreshScript[1 + 1] /\ Drop[2] = FreshScript[1 + 2]
        BY <2>2, FreshIs
    <2> DEFINE l == 3
    <2>4. /\ FreshScript \in Seq(Fixed) /\ 1 \in Nat /\ l \in Nat /\ 1 <= l /\ l <= Len(FreshScript)
          /\ Len(Drop) = l - 1 /\ \A i \in 1 .. Len(Drop) : Drop[i] = FreshScript[1 + i]
        BY <1>1, <2>2, <2>3
    <2> HIDE DEF l
    <2>5. Drop = Left(FreshScript, 1, l)
        BY <2>2, <2>4, StretchIs
    <2> QED
        BY <2>1, <2>4, <2>5 DEF l
<1> DEFINE h == Create
           e == Ensure
<1>4. /\ h \in Seq(Fixed) /\ Len(h) = 1 /\ h[1] = <<"findToCreate">>
      /\ e \in Seq(Fixed) /\ Len(e) = N + 1
      /\ \A i \in 1 .. N : e[i] = <<"schema", Required[i]>>
      /\ e[N + 1] = <<"close">>
    BY EnsureIs DEF Create, Fixed, Plain
<1>5. /\ h \o e \in Seq(Fixed) /\ Len(h \o e) = Len(h) + Len(e)
      /\ \A i \in 1 .. Len(h) : (h \o e)[i] = h[i]
      /\ \A i \in 1 .. Len(e) : (h \o e)[Len(h) + i] = e[i]
    BY <1>4, Join
<1>6. /\ Len(h \o e) = N + 2 /\ (h \o e)[1] = <<"findToCreate">>
      /\ \A i \in 1 .. N + 1 : (h \o e)[1 + i] = e[i]
    BY <1>1, <1>4, <1>5
<1>7. ASSUME NEW i \in 1 .. N + 2
      PROVE  (h \o e)[i] = FreshScript[3 + i]
    <2>1. CASE i = 1
        <3>1. FreshScript[3 + 1] = <<"findToCreate">>
            BY FreshIs
        <3> QED
            BY <1>6, <2>1, <3>1
    <2>2. CASE i # 1 /\ i # N + 2
        <3>1. i - 1 \in 1 .. N /\ i = 1 + (i - 1) /\ 3 + i = 4 + (i - 1) /\ i - 1 \in 1 .. N + 1
            BY <1>1, <2>2
        <3>2. FreshScript[4 + (i - 1)] = <<"schema", Required[i - 1]>>
            BY <3>1, FreshIs
        <3>3. (h \o e)[1 + (i - 1)] = e[i - 1]
            BY <1>6, <3>1
        <3> QED
            BY <1>4, <3>1, <3>2, <3>3
    <2>3. CASE i = N + 2
        <3>1. i = 1 + (N + 1) /\ 3 + i = 5 + N /\ N + 1 \in 1 .. N + 1
            BY <1>1, <2>3
        <3> QED
            BY <1>4, <1>6, <3>1, FreshIs
    <2> QED
        BY <2>1, <2>2, <2>3
<1>8. CASE name = "create"
    <2>1. Steps(name) = h \o e /\ Begin(name) = 3 /\ End(name) = 5 + N
        BY <1>8 DEF Steps, CreateScript, Begin, End
    <2> DEFINE l == 5 + N
    <2>2. /\ FreshScript \in Seq(Fixed) /\ 3 \in Nat /\ l \in Nat /\ 3 <= l /\ l <= Len(FreshScript)
          /\ h \o e \in Seq(Fixed) /\ Len(h \o e) = l - 3
          /\ \A i \in 1 .. Len(h \o e) : (h \o e)[i] = FreshScript[3 + i]
        BY <1>1, <1>5, <1>6, <1>7
    <2> HIDE DEF l
    <2>3. h \o e = Left(FreshScript, 3, l)
        BY <2>2, StretchIs
    <2> QED
        BY <2>1, <2>2, <2>3 DEF l
<1>9. CASE name = "reset"
    <2> DEFINE d == Drop
               c == h \o e
    <2>1. /\ d \in Seq(Fixed) /\ Len(d) = 2 /\ d[1] = <<"terminate">>
          /\ d[2] = <<"findToDrop">>
        BY DEF Drop, Fixed, Bare
    <2>2. Steps(name) = d \o h \o e /\ Begin(name) = 1 /\ End(name) = 5 + N
        BY <1>9 DEF Steps, ResetScript, Begin, End
    <2> HIDE DEF d
    <2>3. d \o h \o e = d \o c
        BY <1>4, <2>1, ConcatAssociative
    <2>4. c \in Seq(Fixed) /\ Len(c) = N + 2 /\ \A i \in 1 .. N + 2 : c[i] = FreshScript[3 + i]
        BY <1>5, <1>6, <1>7
    <2> HIDE DEF c
    <2>5. /\ d \o c \in Seq(Fixed) /\ Len(d \o c) = Len(d) + Len(c)
          /\ \A i \in 1 .. Len(d) : (d \o c)[i] = d[i]
          /\ \A i \in 1 .. Len(c) : (d \o c)[Len(d) + i] = c[i]
        <3>1. d \in Seq(Fixed) /\ c \in Seq(Fixed)
            BY <2>1, <2>4
        <3> QED
            BY <3>1, Join
    <2>6. ASSUME NEW i \in 1 .. N + 4
          PROVE  (d \o c)[i] = FreshScript[1 + i]
        <3>1. CASE i \in 1 .. 2
            <4>1. FreshScript[1 + 1] = <<"terminate">> /\ FreshScript[1 + 2] = <<"findToDrop">>
                BY FreshIs
            <4>2. i = 1 \/ i = 2
                BY <3>1
            <4> QED
                BY <2>1, <2>5, <3>1, <4>1, <4>2
        <3>2. CASE i \notin 1 .. 2
            <4>1. i - 2 \in 1 .. N + 2 /\ i = 2 + (i - 2) /\ 1 + i = 3 + (i - 2)
                BY <1>1, <3>2
            <4>2. (d \o c)[2 + (i - 2)] = c[i - 2]
                BY <2>1, <2>4, <2>5, <4>1
            <4> QED
                BY <2>4, <4>1, <4>2
        <3> QED
            BY <3>1, <3>2
    <2> DEFINE l == 5 + N
    <2>7. Len(d \o c) = N + 4
        BY <1>1, <2>1, <2>4, <2>5
    <2>8. /\ FreshScript \in Seq(Fixed) /\ 1 \in Nat /\ l \in Nat /\ 1 <= l /\ l <= Len(FreshScript)
          /\ d \o c \in Seq(Fixed) /\ Len(d \o c) = l - 1
          /\ \A i \in 1 .. Len(d \o c) : (d \o c)[i] = FreshScript[1 + i]
        BY <1>1, <2>5, <2>6, <2>7
    <2> HIDE DEF l
    <2>9. d \o c = Left(FreshScript, 1, l)
        BY <2>8, StretchIs
    <2> QED
        BY <2>2, <2>3, <2>8, <2>9 DEF l
<1> QED
    BY <1>2, <1>3, <1>8, <1>9 DEF Rebuilding

\* What the next statement of db:fresh may be.
LEMMA FreshNext ==
    ASSUME NEW k \in 0 .. 10 + 3 * N
    PROVE  \/ k \in {0, 1, 2, 3, 6 + 2 * N, 9 + 3 * N}
           \/ FreshScript[k + 1] = <<"close">>
           \/ \E i \in 1 .. N : FreshScript[k + 1] = <<"schema", Required[i]>>
<1>1. N \in Nat
    BY EnsureIs
<1>2. CASE k \in 4 .. 3 + N
    <2>1. k - 3 \in 1 .. N /\ 4 + (k - 3) = k + 1
        BY <1>1, <1>2
    <2> QED
        BY <2>1, FreshIs
<1>3. CASE k \in 5 + N .. 4 + 2 * N
    <2>1. k - (4 + N) \in 1 .. N /\ 5 + N + (k - (4 + N)) = k + 1
        BY <1>1, <1>3
    <2> QED
        BY <2>1, FreshIs
<1>4. CASE k \in 8 + 2 * N .. 7 + 3 * N
    <2>1. k - (7 + 2 * N) \in 1 .. N /\ 8 + 2 * N + (k - (7 + 2 * N)) = k + 1
        BY <1>1, <1>4
    <2> QED
        BY <2>1, FreshIs
<1>5. CASE k \in {4 + N, 5 + 2 * N, 7 + 2 * N, 8 + 3 * N, 10 + 3 * N}
    <2>1. k + 1 \in {5 + N, 6 + 2 * N, 8 + 2 * N, 9 + 3 * N, 11 + 3 * N}
        BY <1>1, <1>5
    <2> QED
        BY <2>1, FreshIs
<1>6. \/ k \in {0, 1, 2, 3, 6 + 2 * N, 9 + 3 * N}
      \/ k \in 4 .. 3 + N \/ k \in 5 + N .. 4 + 2 * N \/ k \in 8 + 2 * N .. 7 + 3 * N
      \/ k \in {4 + N, 5 + 2 * N, 7 + 2 * N, 8 + 3 * N, 10 + 3 * N}
    BY <1>1
<1> QED
    BY <1>2, <1>3, <1>4, <1>5, <1>6

-----------------------------------------------------------------------------
(* Steps of a script that nobody disturbs.                                 *)

\* The action of a step is that of the next statement.
LEMMA StepIs ==
    ASSUME NEW s \in Slot, Step(s)
    PROVE  /\ todo[s] # <<>>
           /\ At(s, "terminate") => Terminate(s)
           /\ At(s, "findToDrop") => FindToDrop(s)
           /\ At(s, "drop") => DropDatabase(s)
           /\ At(s, "findToCreate") => FindToCreate(s)
           /\ At(s, "create") => CreateDatabase(s)
           /\ At(s, "schema") => CreateSchema(s)
           /\ At(s, "wipe") => WipeSchema(s)
           /\ At(s, "list") => ListTables(s)
           /\ At(s, "truncate") => TruncateTables(s)
           /\ At(s, "close") => Close(s)
           /\ At(s, "pending") => FindPending(s)
           /\ At(s, "migrate") => Migrate(s)
           /\ At(s, "last") => FindLast(s)
           /\ At(s, "undo") => Undo(s)
           /\ At(s, "files") => RemoveInitialSchemaMigrations(s)
           /\ At(s, "generate") => Generate(s)
           /\ At(s, "seed") => Seed(s)
           /\ At(s, "registry") => EnsureRegistryTable(s)
           /\ At(s, "asset") => CheckAsset(s)
           /\ At(s, "run") => RunAsset(s)
           /\ At(s, "register") => UpsertRegistry(s)
           /\ At(s, "runAndRegister") => RunAndRegister(s)
BY DEF Step, Terminate, FindToDrop, DropDatabase, FindToCreate, CreateDatabase, CreateSchema,
       WipeSchema, ListTables, TruncateTables, Close, FindPending, Migrate, FindLast, Undo,
       RemoveInitialSchemaMigrations, Generate, Seed, EnsureRegistryTable, CheckAsset, RunAsset,
       UpsertRegistry, RunAndRegister, Runs, At

\* What a script has left after a step.
LEMMA ProceedsTo ==
    ASSUME NEW S, todo \in [Slot -> Seq(S)], NEW s \in Slot, NEW more, Proceed(s, more)
    PROVE  todo'[s] = more \o Tail(todo[s])
BY DEF Proceed

\* The next statement of a script that inserts nothing ...
LEMMA Onwards ==
    ASSUME NEW S, NEW p \in Seq(S), NEW k \in Nat, NEW l \in Nat, k < l, l <= Len(p)
    PROVE  /\ <<>> \o Left(p, k, l) # <<>> /\ Head(<<>> \o Left(p, k, l)) = p[k + 1]
           /\ Tail(<<>> \o Left(p, k, l)) = Left(p, k + 1, l)
<1>1. Len(p) \in Nat
    BY LenProperties
<1>2. l \in 0 .. Len(p) /\ k \in 0 .. l
    BY <1>1
<1>3. /\ Left(p, k, l) \in Seq(S) /\ Left(p, k, l) # <<>> /\ Head(Left(p, k, l)) = p[k + 1]
      /\ Tail(Left(p, k, l)) = Left(p, k + 1, l)
    BY <1>2, LeftIs
<1>4. <<>> \o Left(p, k, l) = Left(p, k, l)
    BY <1>3, ConcatEmptySeq
<1> QED
    BY <1>3, <1>4

\* ... and of one that has inserted a statement.
LEMMA Inserting ==
    ASSUME NEW S, NEW p \in Seq(S), NEW k \in Nat, NEW l \in Nat, k <= l, l <= Len(p),
           NEW x \in S
    PROVE  /\ << x >> \o Left(p, k, l) # <<>> /\ Head(<< x >> \o Left(p, k, l)) = x
           /\ Tail(<< x >> \o Left(p, k, l)) = Left(p, k, l)
           /\ <<>> \o Left(p, k, l) = Left(p, k, l)
<1>1. Len(p) \in Nat
    BY LenProperties
<1>2. l \in 0 .. Len(p) /\ k \in 0 .. l
    BY <1>1
<1>3. Left(p, k, l) \in Seq(S)
    BY <1>2, LeftIs
<1> QED
    BY <1>3, Comes, ConcatEmptySeq

\* It is over when it has inserted nothing and come to the end.
LEMMA Finishes ==
    ASSUME NEW S, NEW p \in Seq(S), NEW k \in Nat, NEW l \in Nat, k <= l, l <= Len(p)
    PROVE  /\ k = l => <<>> \o Left(p, k, l) = <<>>
           /\ <<>> \o Left(p, k, l) = <<>> => k = l
<1>1. Len(p) \in Nat
    BY LenProperties
<1>2. l \in 0 .. Len(p) /\ k \in 0 .. l
    BY <1>1
<1>3. Left(p, k, l) \in Seq(S) /\ (k = l => Left(p, k, l) = <<>>) /\ (k < l => Left(p, k, l) # <<>>)
    BY <1>2, LeftIs
<1>4. <<>> \o Left(p, k, l) = Left(p, k, l)
    BY <1>3, ConcatEmptySeq
<1> QED
    BY <1>3, <1>4

-----------------------------------------------------------------------------
(* Scripts that drop or create the database.                               *)

\* Nobody is connected.
Calm == ~client /\ \A q \in Slot : ~conn[q]

\* What a script may have inserted after k statements.
Inserts(k, more) ==
    \/ more = <<>>
    \/ more = << <<"drop">> >> /\ k = 3
    \/ more = << <<"create">> >> /\ k = 4
    \/ more = << <<"migrate", files>> >> /\ k = 10 + 3 * N

\* What it relies on by then.
Rebuilt(s, name, k, more) ==
    /\ k = 2 => Calm
    /\ more = << <<"drop">> >> => db /\ Calm
    /\ k = 3 /\ more = <<>> /\ name # "create" => ~db
    /\ more = << <<"create">> >> => ~db
    /\ k >= 4 /\ more # << <<"create">> >> => db
    /\ k >= 4 /\ k <= 9 + 3 * N /\ name # "create" => data.tables = {} /\ data.record = {}
    /\ \A i \in 1 .. N : 4 + i <= k => Required[i] \in data.schemas
    /\ name = "fresh" /\ k >= 1 /\ k <= 6 + 2 * N => files = {}
    /\ name = "fresh" /\ k >= 7 + 2 * N => Cardinality(files) = 1
    /\ k >= 10 + 3 * N /\ more # <<>> =>
          data.tables = {"migrations"} /\ data.record = {} /\ conn[s]
    /\ k >= 10 + 3 * N /\ more = <<>> =>
          "app" \in data.tables /\ data.rows = {} /\ data.record = files

Rebuilds(s, name, k, more) ==
    /\ k \in Begin(name) .. End(name)
    /\ todo[s] = more \o Left(FreshScript, k, End(name))
    /\ Inserts(k, more)
    /\ Rebuilt(s, name, k, more)

\* What a script consists of depends on DB_SCHEMA only.
LEMMA ScriptsKept ==
    ASSUME primary' = primary
    PROVE  /\ Required' = Required /\ RequiredSet' = RequiredSet /\ N' = N /\ FreshScript' = FreshScript
           /\ \A name \in Rebuilding : Begin(name)' = Begin(name) /\ End(name)' = End(name)
           /\ \A name \in Scripts : Steps(name)' = Steps(name)
<1>1. Required' = Required /\ N' = N
    BY DEF Required, N
<1>2. Ensure' = Ensure /\ RequiredSet' = RequiredSet
    BY <1>1 DEF Ensure, RequiredSet
<1>3. CreateScript' = CreateScript /\ ResetScript' = ResetScript
    BY <1>2 DEF CreateScript, ResetScript
<1>4. ASSUME NEW command \in {"pending", "last"}
      PROVE  MigrateScript(command)' = MigrateScript(command)
    BY <1>2 DEF MigrateScript, OnDataSource
<1>5. FreshScript' = FreshScript
    BY <1>2, <1>3, <1>4 DEF FreshScript
<1>6. ASSUME NEW public \in BOOLEAN
      PROVE  ResetSchemasScript(public)' = ResetSchemasScript(public)
    BY <1>1, <1>2 DEF ResetSchemasScript, OnDataSource, Wipes
<1>7. /\ \A all \in BOOLEAN : TruncateScript(all)' = TruncateScript(all)
      /\ SeedScript' = SeedScript
      /\ \A force \in BOOLEAN : SyncScript(force)' = SyncScript(force)
    BY <1>2 DEF TruncateScript, SeedScript, SyncScript, OnDataSource
<1>8. ASSUME NEW name \in Scripts
      PROVE  Steps(name)' = Steps(name)
    BY <1>2, <1>3, <1>4, <1>5, <1>6, <1>7, <1>8 DEF Steps, Scripts
<1>9. ASSUME NEW name \in Rebuilding
      PROVE  Begin(name)' = Begin(name) /\ End(name)' = End(name)
    BY <1>1, <1>9 DEF Begin, End, Rebuilding
<1> QED
    BY <1>1, <1>2, <1>5, <1>8, <1>9

\* A statement that is part of the script, or inserted.
LEMMA RebuildsNext ==
    ASSUME NEW s \in Slot, NEW name \in Rebuilding, NEW k, NEW more, Rebuilds(s, name, k, more),
           todo \in [Slot -> Seq(Statement)], todo[s] # <<>>, files \subseteq Migrations
    PROVE  /\ k \in Nat /\ End(name) \in Nat /\ N \in Nat /\ Begin(name) \in Nat
           /\ End(name) <= 11 + 3 * N /\ k >= Begin(name)
           /\ more = <<>> =>
                 /\ k + 1 <= End(name) /\ Head(todo[s]) = FreshScript[k + 1]
                 /\ \A next : Proceed(s, next) => todo'[s] = next \o Left(FreshScript, k + 1, End(name))
           /\ more # <<>> =>
                 /\ k <= End(name) /\ more = << Head(todo[s]) >>
                 /\ Proceed(s, <<>>) => todo'[s] = <<>> \o Left(FreshScript, k, End(name))
<1> DEFINE l == End(name)
<1>1. /\ l \in Nat /\ Begin(name) \in Nat /\ N \in Nat /\ l <= Len(FreshScript)
      /\ FreshScript \in Seq(Fixed) /\ Len(FreshScript) = 11 + 3 * N
    BY RebuildIs, EnsureIs, FreshIs
<1>2. FreshScript \in Seq(Statement)
    BY <1>1, SeqMonotonic DEF Statement
<1>3. k \in Nat /\ k >= Begin(name) /\ k <= l /\ l <= 11 + 3 * N
    BY <1>1 DEF Rebuilds
<1>4. todo[s] = more \o Left(FreshScript, k, l)
    BY DEF Rebuilds
<1> HIDE DEF l
<1>5. ASSUME more = <<>>
      PROVE  /\ k + 1 <= l /\ Head(todo[s]) = FreshScript[k + 1]
             /\ \A next : Proceed(s, next) => todo'[s] = next \o Left(FreshScript, k + 1, l)
    <2>1. todo[s] = <<>> \o Left(FreshScript, k, l)
        BY <1>4, <1>5
    <2>2. k # l
        BY <1>1, <1>2, <1>3, <2>1, Finishes
    <2>3. k < l
        BY <1>1, <1>3, <2>2
    <2>4. Head(todo[s]) = FreshScript[k + 1] /\ Tail(todo[s]) = Left(FreshScript, k + 1, l)
        <3>1. /\ Head(<<>> \o Left(FreshScript, k, l)) = FreshScript[k + 1]
              /\ Tail(<<>> \o Left(FreshScript, k, l)) = Left(FreshScript, k + 1, l)
            BY <1>1, <1>2, <1>3, <2>3, Onwards
        <3> QED
            BY <2>1, <3>1
    <2>5. \A next : Proceed(s, next) => todo'[s] = next \o Tail(todo[s])
        BY DEF Proceed
    <2>6. k + 1 <= l
        BY <1>1, <1>3, <2>3
    <2> QED
        BY <2>4, <2>5, <2>6
<1>6. ASSUME more # <<>>
      PROVE  /\ k <= l /\ more = << Head(todo[s]) >>
             /\ Proceed(s, <<>>) => todo'[s] = <<>> \o Left(FreshScript, k, l)
    <2>1. PICK x \in { <<"drop">>, <<"create">>, <<"migrate", files>> } : more = << x >>
        BY <1>6 DEF Rebuilds, Inserts
    <2>2. x \in Statement
        BY <2>1 DEF Statement, Fixed, Bare, Plain
    <2>3. Head(todo[s]) = x /\ <<>> \o Tail(todo[s]) = <<>> \o Left(FreshScript, k, l)
        <3>1. /\ Head(<< x >> \o Left(FreshScript, k, l)) = x
              /\ Tail(<< x >> \o Left(FreshScript, k, l)) = Left(FreshScript, k, l)
              /\ <<>> \o Left(FreshScript, k, l) = Left(FreshScript, k, l)
            <4>1. /\ FreshScript \in Seq(Statement) /\ k \in Nat /\ l \in Nat
                  /\ k <= l /\ l <= Len(FreshScript) /\ x \in Statement
                BY <1>1, <1>2, <1>3, <2>2
            <4> QED
                BY <4>1, Inserting
        <3> QED
            BY <1>4, <2>1, <3>1
    <2>4. Proceed(s, <<>>) => todo'[s] = <<>> \o Tail(todo[s])
        BY DEF Proceed
    <2> QED
        BY <1>3, <2>1, <2>3, <2>4
<1> QED
    BY <1>1, <1>3, <1>5, <1>6 DEF l

\* Such a script is never refused.
LEMMA RebuildsWork ==
    ASSUME TypeOK, Programs, NEW s \in Slot, NEW name \in Rebuilding, NEW k, NEW more,
           Rebuilds(s, name, k, more), todo[s] # <<>>
    PROVE  Works(s)
<1>1. todo \in [Slot -> Seq(Statement)] /\ files \subseteq Migrations
    BY DEF TypeOK, Programs
<1>2. /\ k \in Nat /\ N \in Nat /\ End(name) \in Nat /\ End(name) <= 11 + 3 * N
      /\ more = <<>> => k + 1 <= End(name) /\ Head(todo[s]) = FreshScript[k + 1]
      /\ more # <<>> => more = << Head(todo[s]) >>
    BY <1>1, RebuildsNext
<1>3. Rebuilt(s, name, k, more) /\ Inserts(k, more)
    BY DEF Rebuilds
<1>4. CASE more # <<>>
    <2>1. CASE Head(todo[s]) = <<"drop">>
        BY <1>2, <1>3, <1>4, <2>1 DEF Rebuilt, Calm, Works, At, OnPool, OnRunner
    <2>2. CASE Head(todo[s]) = <<"create">>
        BY <1>2, <1>3, <1>4, <2>2 DEF Rebuilt, Works, At, OnPool, OnRunner
    <2>3. CASE more = << <<"migrate", files>> >> /\ k = 10 + 3 * N
        <3>1. name = "fresh"
            <4>1. k \in Begin(name) .. End(name)
                BY DEF Rebuilds
            <4> QED
                BY <1>2, <2>3, <4>1 DEF Rebuilding, Begin, End
        <3>2. /\ Cardinality(files) = 1 /\ data.tables = {"migrations"} /\ conn[s]
              /\ k >= 10 + 3 * N /\ k >= 7 + 2 * N /\ \A i \in 1 .. N : 4 + i <= k
            BY <1>2, <1>3, <1>4, <2>3, <3>1 DEF Rebuilt
        <3>3. Entities \in data.schemas
            BY <1>3, <3>2, SchemasRequired, EnsureIs DEF Rebuilt
        <3>4. Head(todo[s]) = <<"migrate", files>>
            BY <1>2, <1>4, <2>3
        <3> QED
            BY <3>2, <3>3, <3>4 DEF Works, At, Arg, OnPool, OnRunner
    <2> QED
        BY <1>2, <1>3, <1>4, <2>1, <2>2, <2>3 DEF Inserts
<1>5. CASE more = <<>>
    <2>1. k \in 0 .. 10 + 3 * N /\ Head(todo[s]) = FreshScript[k + 1]
        BY <1>2, <1>5
    <2>2. CASE k \in {0, 1, 2, 3}
        <3>1. Head(todo[s]) \in { <<"files">>, <<"terminate">>, <<"findToDrop">>, <<"findToCreate">> }
            <4>1. k = 0 \/ k = 1 \/ k = 2 \/ k = 3
                BY <2>2
            <4>2. Head(todo[s]) \in {FreshScript[1], FreshScript[2], FreshScript[3], FreshScript[4]}
                BY <2>1, <4>1
            <4> QED
                BY <4>2, FreshIs
        <3> QED
            BY <3>1 DEF Works, At, OnPool, OnRunner
    <2>3. ASSUME k >= 4
          PROVE  db
        BY <1>3, <1>5, <2>3 DEF Rebuilt
    <2>4. CASE k = 6 + 2 * N
        <3>1. name = "fresh"
            BY <1>2, <1>5, <2>4 DEF Rebuilding, End
        <3>2. db /\ data.tables = {}
            BY <1>2, <1>3, <2>3, <2>4, <3>1 DEF Rebuilt
        <3>3. Head(todo[s]) = <<"generate">>
            <4>1. k + 1 = 7 + 2 * N
                BY <1>2, <2>4
            <4> QED
                BY <2>1, <4>1, FreshIs
        <3> QED
            BY <3>2, <3>3 DEF Works, At, OnPool, OnRunner
    <2>5. CASE k = 9 + 3 * N
        <3>1. db /\ primary \in data.schemas
            <4>1. k >= 4 /\ \A i \in 1 .. N : 4 + i <= k
                BY <1>2, <2>5
            <4> QED
                BY <1>3, <2>3, <4>1, SchemasRequired, EnsureIs DEF Rebuilt
        <3>2. Head(todo[s]) = <<"pending">>
            <4>1. k + 1 = 10 + 3 * N
                BY <1>2, <2>5
            <4> QED
                BY <2>1, <4>1, FreshIs
        <3> QED
            BY <3>1, <3>2 DEF Works, At, OnPool, OnRunner
    <2>6. CASE k \notin {0, 1, 2, 3} /\ FreshScript[k + 1] = <<"close">>
        BY <2>1, <2>6 DEF Works, At, OnPool, OnRunner
    <2>7. CASE k \notin {0, 1, 2, 3} /\ \E i \in 1 .. N : FreshScript[k + 1] = <<"schema", Required[i]>>
        <3>1. db
            BY <1>2, <2>3, <2>7
        <3>2. Head(todo[s])[1] = "schema"
            BY <2>1, <2>7
        <3> QED
            BY <3>1, <3>2 DEF Works, At, OnPool, OnRunner
    <2> QED
        BY <2>1, <2>2, <2>4, <2>5, <2>6, <2>7, FreshNext
<1> QED
    BY <1>4, <1>5

\* Undisturbed, it does its part with each statement.
LEMMA RebuildsOn ==
    ASSUME TypeOK, Programs, NEW s \in Slot, NEW name \in Rebuilding, NEW k, NEW more,
           Rebuilds(s, name, k, more), Step(s), \A q \in Slot \ {s} : todo[q] = <<>>
    PROVE  \E l, m : Rebuilds(s, name, l, m)'
<1>1. /\ todo \in [Slot -> Seq(Statement)] /\ files \subseteq Migrations /\ conn \in [Slot -> BOOLEAN]
      /\ db \in BOOLEAN /\ client \in BOOLEAN /\ data \in Databases
      /\ (~db => data = Blank) /\ \A q \in Slot : conn[q] => todo[q] # <<>>
      /\ "app" \notin data.tables => data.rows = {}
    BY DEF TypeOK, Programs
<1>2. todo[s] # <<>> /\ primary' = primary
    <2>1. Works(s)
        BY StepIs, RebuildsWork
    <2> QED
        BY StepIs DEF Step, Terminate, FindToDrop, DropDatabase, FindToCreate, CreateDatabase,
           CreateSchema, WipeSchema, ListTables, TruncateTables, Close, FindPending, Migrate, FindLast,
           Undo, RemoveInitialSchemaMigrations, Generate, Seed, EnsureRegistryTable, CheckAsset,
           RunAsset, UpsertRegistry, RunAndRegister, Query, environment
<1>3. /\ k \in Nat /\ End(name) \in Nat /\ N \in Nat /\ Begin(name) \in Nat
      /\ End(name) <= 11 + 3 * N /\ k >= Begin(name)
      /\ more = <<>> =>
            /\ k + 1 <= End(name) /\ Head(todo[s]) = FreshScript[k + 1]
            /\ \A next : Proceed(s, next) => todo'[s] = next \o Left(FreshScript, k + 1, End(name))
      /\ more # <<>> =>
            /\ k <= End(name) /\ more = << Head(todo[s]) >>
            /\ Proceed(s, <<>>) => todo'[s] = <<>> \o Left(FreshScript, k, End(name))
    BY <1>1, <1>2, RebuildsNext
<1>4. Rebuilt(s, name, k, more) /\ Inserts(k, more)
    BY DEF Rebuilds
<1>5. /\ Required' = Required /\ N' = N /\ FreshScript' = FreshScript
      /\ Begin(name)' = Begin(name) /\ End(name)' = End(name)
    BY <1>2, ScriptsKept
\* One statement further, with what it has inserted.
<1>6. ASSUME NEW m, more = <<>>, Proceed(s, m), Inserts(k + 1, m)', Rebuilt(s, name, k + 1, m)'
      PROVE  Rebuilds(s, name, k + 1, m)'
    <2>1. k + 1 \in Begin(name) .. End(name)
        BY <1>3, <1>6
    <2>2. todo'[s] = m \o Left(FreshScript, k + 1, End(name))
        BY <1>3, <1>6
    <2> QED
        BY <1>5, <1>6, <2>1, <2>2 DEF Rebuilds, Left
\* The inserted statement is done.
<1>7. ASSUME more # <<>>, Proceed(s, <<>>), Rebuilt(s, name, k, <<>>)'
      PROVE  Rebuilds(s, name, k, <<>>)'
    <2>1. k \in Begin(name) .. End(name)
        BY <1>3, <1>7
    <2>2. todo'[s] = <<>> \o Left(FreshScript, k, End(name))
        BY <1>3, <1>7
    <2> QED
        BY <1>5, <1>7, <2>1, <2>2 DEF Rebuilds, Left, Inserts
<1>8. \A j \in Nat : Inserts(j, <<>>)'
    BY DEF Inserts
<1>9. CASE more = << <<"drop">> >>
    <2>1. DropDatabase(s)
        BY <1>2, <1>3, <1>9, StepIs DEF At
    <2>2. /\ Proceed(s, <<>>) /\ db' = FALSE /\ data' = Blank /\ files' = files
          /\ k = 3
        BY <1>4, <1>9, <2>1 DEF DropDatabase, environment, Inserts
    <2>3. Rebuilt(s, name, k, <<>>)'
        BY <1>3, <1>4, <1>5, <2>2 DEF Rebuilt
    <2> QED
        BY <1>7, <1>9, <2>2, <2>3
<1>10. CASE more = << <<"create">> >>
    <2>1. CreateDatabase(s)
        BY <1>2, <1>3, <1>10, StepIs DEF At
    <2>2. /\ Proceed(s, <<>>) /\ db' = TRUE /\ data' = [Blank EXCEPT !.schemas = {"public"}]
          /\ files' = files /\ k = 4
        BY <1>4, <1>10, <2>1 DEF CreateDatabase, environment, Inserts
    <2>3. data'.tables = {} /\ data'.record = {}
        BY <2>2 DEF Blank
    <2>4. Rebuilt(s, name, k, <<>>)'
        BY <1>3, <1>4, <1>5, <2>2, <2>3 DEF Rebuilt
    <2> QED
        BY <1>7, <1>10, <2>2, <2>4
<1>11. CASE more = << <<"migrate", files>> >> /\ k = 10 + 3 * N
    <2>1. Migrate(s) /\ Head(todo[s]) = <<"migrate", files>>
        BY <1>2, <1>3, <1>11, StepIs DEF At
    <2>2. /\ Proceed(s, <<>>) /\ db' = db /\ files' = files
          /\ data' = [data EXCEPT !.tables = @ \cup {"app"}, !.record = @ \cup files]
        <3>1. Arg(s, 2) = files
            BY <2>1 DEF Arg
        <3> QED
            BY <2>1, <3>1 DEF Migrate, Query, environment
    <2>3. k >= 10 + 3 * N /\ more # <<>> /\ more # << <<"create">> >> /\ k >= 4 /\ k > 9 + 3 * N
        BY <1>3, <1>11
    <2>4. data.tables = {"migrations"} /\ data.record = {} /\ data.rows = {} /\ db
        BY <1>1, <1>4, <2>3 DEF Rebuilt
    <2>5. /\ "app" \in data'.tables /\ data'.record = files /\ data'.rows = {}
          /\ data'.schemas = data.schemas
        BY <1>1, <2>2, <2>4 DEF Databases
    <2>6. Rebuilt(s, name, k, <<>>)'
        BY <1>3, <1>4, <1>5, <1>11, <2>2, <2>3, <2>4, <2>5 DEF Rebuilt
    <2> QED
        BY <1>7, <1>11, <2>2, <2>6
<1>12. CASE more = <<>>
    <2>1. k \in 0 .. 10 + 3 * N /\ Head(todo[s]) = FreshScript[k + 1] /\ k + 1 \in Nat
        BY <1>3, <1>12
    <2>2. CASE k = 0
        <3>1. RemoveInitialSchemaMigrations(s)
            BY <1>2, <2>1, <2>2, StepIs, FreshIs DEF At
        <3>2. Proceed(s, <<>>) /\ files' = {}
            BY <3>1 DEF RemoveInitialSchemaMigrations
        <3>3. Rebuilt(s, name, k + 1, <<>>)'
            BY <1>3, <1>5, <2>2, <3>2 DEF Rebuilt
        <3> QED
            BY <1>6, <1>8, <1>12, <2>1, <3>2, <3>3
    <2>3. CASE k = 1
        <3>1. Terminate(s)
            BY <1>2, <2>1, <2>3, StepIs, FreshIs DEF At
        <3>2. Proceed(s, <<>>) /\ files' = files /\ Calm'
            BY <3>1 DEF Terminate, Calm, environment
        <3>3. Rebuilt(s, name, k + 1, <<>>)'
            BY <1>3, <1>4, <1>5, <2>3, <3>2 DEF Rebuilt
        <3> QED
            BY <1>6, <1>8, <1>12, <2>1, <3>2, <3>3
    <2>4. CASE k = 2
        <3>1. FindToDrop(s) /\ Calm
            BY <1>2, <1>4, <2>1, <2>4, StepIs, FreshIs DEF At, Rebuilt
        <3>2. UNCHANGED <<db, data, files>> /\ Calm'
            BY <3>1 DEF FindToDrop, Calm, environment
        <3>3. CASE db
            <4> DEFINE m == << <<"drop">> >>
            <4>1. Proceed(s, m) /\ Inserts(k + 1, m)'
                BY <2>4, <3>1, <3>3 DEF FindToDrop, Inserts
            <4>2. Rebuilt(s, name, k + 1, m)'
                BY <1>3, <1>4, <1>5, <2>4, <3>2, <3>3 DEF Rebuilt
            <4> QED
                BY <1>6, <1>12, <4>1, <4>2
        <3>4. CASE ~db
            <4>1. Proceed(s, <<>>)
                BY <3>1, <3>4 DEF FindToDrop
            <4>2. Rebuilt(s, name, k + 1, <<>>)'
                BY <1>3, <1>4, <1>5, <2>4, <3>2, <3>4 DEF Rebuilt
            <4> QED
                BY <1>6, <1>8, <1>12, <2>1, <4>1, <4>2
        <3> QED
            BY <3>3, <3>4
    <2>5. CASE k = 3
        <3>1. FindToCreate(s)
            BY <1>2, <2>1, <2>5, StepIs, FreshIs DEF At
        <3>2. UNCHANGED <<db, data, files>>
            BY <3>1 DEF FindToCreate, environment
        <3>3. CASE db
            <4>1. Proceed(s, <<>>) /\ name = "create"
                BY <1>4, <1>12, <2>5, <3>1, <3>3 DEF FindToCreate, Rebuilt
            <4>2. Rebuilt(s, name, k + 1, <<>>)'
                BY <1>3, <1>5, <2>5, <3>2, <3>3, <4>1 DEF Rebuilt
            <4> QED
                BY <1>6, <1>8, <1>12, <2>1, <4>1, <4>2
        <3>4. CASE ~db
            <4> DEFINE m == << <<"create">> >>
            <4>1. Proceed(s, m) /\ Inserts(k + 1, m)'
                BY <2>5, <3>1, <3>4 DEF FindToCreate, Inserts
            <4>2. data.tables = {} /\ data.record = {}
                BY <1>1, <3>4 DEF Blank
            <4>3. Rebuilt(s, name, k + 1, m)'
                BY <1>3, <1>4, <1>5, <2>5, <3>2, <3>4, <4>2 DEF Rebuilt
            <4> QED
                BY <1>6, <1>12, <4>1, <4>3
        <3> QED
            BY <3>3, <3>4
    <2>6. ASSUME NEW m, k \notin {0, 1, 2, 3, 6 + 2 * N, 9 + 3 * N}, UNCHANGED <<db, files>>,
                 data'.tables = data.tables, data'.record = data.record, data'.rows = data.rows,
                 data.schemas \subseteq data'.schemas,
                 \A i \in 1 .. N : k + 1 = 4 + i => Required[i] \in data'.schemas
          PROVE  Rebuilt(s, name, k + 1, <<>>)'
        <3>1. /\ k >= 4 /\ (k + 1 <= 9 + 3 * N => k <= 9 + 3 * N)
              /\ (k + 1 <= 6 + 2 * N => k <= 6 + 2 * N) /\ (k + 1 >= 7 + 2 * N => k >= 7 + 2 * N)
              /\ (k + 1 >= 10 + 3 * N => k >= 10 + 3 * N) /\ k >= 1 /\ k + 1 # 2 /\ k + 1 # 3
            BY <2>1, <2>6, <1>3
        <3>2. ASSUME NEW i \in 1 .. N, 4 + i <= k + 1
              PROVE  Required[i] \in data'.schemas
            <4>1. CASE k + 1 = 4 + i
                BY <2>6, <4>1
            <4>2. CASE k + 1 # 4 + i
                <5>1. 4 + i <= k
                    BY <1>3, <3>2, <4>2
                <5> QED
                    BY <1>4, <2>6, <5>1 DEF Rebuilt
            <4> QED
                BY <4>1, <4>2
        <3> QED
            BY <1>4, <1>5, <1>12, <2>6, <3>1, <3>2 DEF Rebuilt
    <2>7. CASE k = 6 + 2 * N
        <3>1. k + 1 = 7 + 2 * N
            BY <1>3, <2>7
        <3>2. Generate(s)
            BY <1>2, <2>1, <3>1, StepIs, FreshIs DEF At
        <3>3. PICK m \in Migrations : files' = files \cup {m}
            BY <3>2 DEF Generate
        <3>4. Proceed(s, <<>>) /\ UNCHANGED <<db, data>>
            BY <3>2 DEF Generate
        <3>5. name = "fresh" /\ files = {} /\ db /\ data.tables = {} /\ data.record = {}
            <4>1. name = "fresh"
                BY <1>3, <1>12, <2>7 DEF Rebuilding, End
            <4>2. k >= 1 /\ k >= 4 /\ k <= 6 + 2 * N /\ k <= 9 + 3 * N
                BY <1>3, <2>7
            <4> QED
                BY <1>4, <1>12, <4>1, <4>2 DEF Rebuilt
        <3>6. Cardinality(files') = 1
            BY <3>3, <3>5, FS_Singleton
        <3>7. Rebuilt(s, name, k + 1, <<>>)'
            BY <1>3, <1>4, <1>5, <2>7, <3>1, <3>4, <3>5, <3>6 DEF Rebuilt
        <3> QED
            BY <1>6, <1>8, <1>12, <2>1, <3>4, <3>7
    <2>8. CASE k = 9 + 3 * N
        <3>1. k + 1 = 10 + 3 * N
            BY <1>3, <2>8
        <3>2. FindPending(s)
            BY <1>2, <2>1, <3>1, StepIs, FreshIs DEF At
        <3>3. /\ name = "fresh" /\ db /\ data.tables = {} /\ data.record = {} /\ Cardinality(files) = 1
              /\ \A i \in 1 .. N : Required[i] \in data.schemas
            <4>1. name = "fresh"
                BY <1>3, <1>12, <2>8 DEF Rebuilding, End
            <4>2. /\ k >= 4 /\ k >= 7 + 2 * N /\ k <= 9 + 3 * N
                  /\ \A i \in 1 .. N : 4 + i <= k
                BY <1>3, <2>8
            <4> QED
                BY <1>4, <1>12, <4>1, <4>2 DEF Rebuilt
        <3>4. files \ data.record = files /\ files # {}
            <4>1. Cardinality({}) = 0
                BY FS_EmptySet
            <4>2. files # {}
                <5>1. Cardinality(files) = 1
                    BY <3>3
                <5> QED
                    BY <4>1, <5>1
            <4>3. data.record = {}
                BY <3>3
            <4> QED
                BY <4>2, <4>3
        <3>10. PICK m : m = << <<"migrate", files>> >>
            OBVIOUS
        <3>5. /\ Proceed(s, m) /\ conn' = [conn EXCEPT ![s] = TRUE] /\ UNCHANGED <<db, files>>
              /\ data' = [data EXCEPT !.tables = @ \cup {"migrations"}]
            BY <3>2, <3>4, <3>10 DEF FindPending, Query, environment
        <3>6. /\ data'.tables = {"migrations"} /\ data'.record = {} /\ conn'[s]
              /\ data'.schemas = data.schemas
            BY <1>1, <3>3, <3>5 DEF Databases
        <3>7. Inserts(k + 1, m)'
            BY <1>5, <3>1, <3>5, <3>10 DEF Inserts
        <3>8. m # <<>> /\ m # << <<"drop">> >> /\ m # << <<"create">> >>
            BY <3>10
        <3>9. Rebuilt(s, name, k + 1, m)'
            BY <1>3, <1>5, <3>1, <3>3, <3>5, <3>6, <3>8 DEF Rebuilt
        <3> QED
            BY <1>6, <1>12, <3>5, <3>7, <3>9
    <2>9. CASE k \notin {0, 1, 2, 3, 6 + 2 * N, 9 + 3 * N} /\ FreshScript[k + 1] = <<"close">>
        <3>1. Close(s)
            BY <1>2, <2>1, <2>9, StepIs DEF At
        <3>2. Proceed(s, <<>>) /\ UNCHANGED <<db, data, files>>
            BY <3>1 DEF Close, environment
        <3>3. \A i \in 1 .. N : k + 1 # 4 + i
            BY <2>9, FreshIs
        <3>4. Rebuilt(s, name, k + 1, <<>>)'
            BY <2>6, <2>9, <3>2, <3>3
        <3> QED
            BY <1>6, <1>8, <1>12, <2>1, <3>2, <3>4
    <2>10. CASE /\ k \notin {0, 1, 2, 3, 6 + 2 * N, 9 + 3 * N}
                /\ \E i \in 1 .. N : FreshScript[k + 1] = <<"schema", Required[i]>>
        <3>1. PICK i \in 1 .. N : FreshScript[k + 1] = <<"schema", Required[i]>>
            BY <2>10
        <3>2. CreateSchema(s)
            BY <1>2, <2>1, <3>1, StepIs DEF At
        <3>3. /\ Proceed(s, <<>>) /\ UNCHANGED <<db, files>>
              /\ data' = [data EXCEPT !.schemas = @ \cup {Required[i]}]
            <4>1. Arg(s, 2) = Required[i]
                BY <2>1, <3>1 DEF Arg
            <4> QED
                BY <3>2, <4>1 DEF CreateSchema, Query, environment
        <3>4. /\ data'.tables = data.tables /\ data'.record = data.record /\ data'.rows = data.rows
              /\ data'.schemas = data.schemas \cup {Required[i]}
            BY <1>1, <3>3 DEF Databases
        <3>5. \A j \in 1 .. N : k + 1 = 4 + j => Required[j] = Required[i]
            BY <3>1, FreshIs
        <3>6. Rebuilt(s, name, k + 1, <<>>)'
            BY <2>6, <2>10, <3>3, <3>4, <3>5
        <3> QED
            BY <1>6, <1>8, <1>12, <2>1, <3>3, <3>6
    <2> QED
        BY <2>1, <2>2, <2>3, <2>4, <2>5, <2>7, <2>8, <2>9, <2>10, FreshNext
<1> QED
    BY <1>4, <1>9, <1>10, <1>11, <1>12 DEF Inserts

-----------------------------------------------------------------------------
(* Scripts on the configured data source.                                  *)

Serving == Scripts \ Rebuilding
Emptying == {"truncate", "truncate:with-migrations", "seed"}
Resetting == {"schemas:reset", "schemas:reset:public"}
Syncing == {"sql-assets", "sql-assets:force"}

\* What such a script does between ensuring the schemas and closing.
Body(name) ==
    CASE name = "truncate" -> << <<"list", FALSE>> >>
      [] name = "truncate:with-migrations" -> << <<"list", TRUE>> >>
      [] name = "seed" -> << <<"list", FALSE>>, <<"seed">> >>
      [] name = "migrate" -> << <<"pending">> >>
      [] name = "migrate:revert" -> << <<"last">> >>
      [] name \in Resetting -> Wipes(name = "schemas:reset:public")
      [] name \in Syncing ->
            << <<"registry">> >>
            \o [i \in DOMAIN Assets |-> <<"asset", Assets[i], name = "sql-assets:force">>]

\* After k statements, and what it has inserted, the schemas that were ensured
\* are there, but for one that was wiped and is about to be created.
Made(name, k) ==
    \A i \in 1 .. N :
        i <= k => \/ Required[i] \in data.schemas
                  \/ k < Len(Steps(name)) /\ Steps(name)[k + 1] = <<"schema", Required[i]>>

\* The tables are listed and, if there are any, emptied.
Emptied(name, k, more) ==
    IF more = <<>>
    THEN k >= N + 2 => /\ data.rows = IF name = "seed" /\ k >= N + 3 THEN {"seed"} ELSE {}
                       /\ name = "truncate:with-migrations" => data.record = {}
    ELSE /\ k = N + 2
         /\ \E found \in SUBSET Table :
               /\ more = << <<"truncate", found, name = "truncate:with-migrations">> >>
               /\ "app" \in data.tables => "app" \in found
               /\ name = "truncate:with-migrations" /\ "migrations" \in data.tables =>
                      "migrations" \in found

Migrated(k, more) ==
    IF more = <<>> THEN k >= N + 2 => files \subseteq data.record
    ELSE k = N + 2 /\ more = << <<"migrate", files \ data.record>> >>

Reverted(k, more) ==
    more = <<>> \/ (k = N + 2 /\ \E m \in Migrations : more = << <<"undo", m>> >>)

\* What was wiped stays so: no such script makes a table.
Wiped(name, k, more) ==
    /\ more = <<>>
    /\ \A i \in 1 .. Len(Body(name)), x \in RequiredSet :
          N + 1 + i <= k /\ Body(name)[i] = <<"wipe", x>> => data.tables \cap TablesIn(x) = {}

\* Where an asset stands after its part of the script.
Current(a, force) == data.registry[a] = source[a] /\ (force => data.object[a] = source[a])

Synced(name, k, more) ==
    /\ \A i \in 1 .. Len(Assets) :
          N + 2 + i < k \/ (N + 2 + i = k /\ more = <<>>) =>
              Current(Assets[i], name = "sql-assets:force")
    /\ more # <<>> =>
          \E i \in 1 .. Len(Assets), a \in Asset, v \in Versions :
             /\ k = N + 2 + i /\ a = Assets[i] /\ v = source[a]
             /\ \/ more = << <<"run", a, v>>, <<"register", a, v>> >>
                \/ more = << <<"register", a, v>> >> /\ data.object[a] = v
                \/ more = << <<"runAndRegister", a, v>> >>

Served(name, k, more) ==
    /\ k <= N + 1 \/ name = "schemas" => more = <<>>
    /\ name \in Emptying => Emptied(name, k, more)
    /\ name = "migrate" => Migrated(k, more)
    /\ name = "migrate:revert" => Reverted(k, more)
    /\ name \in Resetting => Wiped(name, k, more)
    /\ name \in Syncing => Synced(name, k, more)

Serves(s, name, k, more) ==
    /\ k \in 0 .. Len(Steps(name))
    /\ todo[s] = more \o Left(Steps(name), k, Len(Steps(name)))
    /\ Made(name, k)
    /\ Served(name, k, more)

\* Each schema is wiped and created; that of the entities is among them.
LEMMA WipesAre ==
    ASSUME NEW public \in BOOLEAN
    PROVE  /\ Wipes(public) \in Seq(Fixed)
           /\ \A i \in 1 .. Len(Wipes(public)) :
                 \E x \in RequiredSet :
                    \/ /\ Wipes(public)[i] = <<"wipe", x>>
                       /\ i + 1 \in 1 .. Len(Wipes(public)) /\ Wipes(public)[i + 1] = <<"schema", x>>
                    \/ Wipes(public)[i] = <<"schema", x>>
           /\ \E i \in 1 .. Len(Wipes(public)) : Wipes(public)[i] = <<"wipe", Entities>>
           /\ public => \E i \in 1 .. Len(Wipes(public)) : Wipes(public)[i] = <<"wipe", primary>>
<1> DEFINE kept == IF public \/ primary # "public" THEN Required ELSE AppSchemas
           pair(i) == LET x == kept[(i + 1) \div 2] IN
                      IF i % 2 = 1 THEN <<"wipe", x>> ELSE <<"schema", x>>
           w == [i \in 1 .. 2 * Len(kept) |-> pair(i)]
<1>1. Wipes(public) = w
    BY DEF Wipes
<1>2. /\ Required \in [1 .. N -> RequiredSet] /\ N \in Nat /\ DOMAIN Required = 1 .. N
      /\ N = 1 + Len(AppSchemas) /\ Required[1] = primary
      /\ AppSchemas \in [1 .. Len(AppSchemas) -> STRING] /\ Len(AppSchemas) \in Nat \ {0}
      /\ \A i \in 1 .. Len(AppSchemas) : AppSchemas[i] = Required[i + 1]
    <2>1. <<primary>> \in Seq(STRING \cup {primary}) /\ AppSchemas \in Seq(STRING \cup {primary})
        <3>1. STRING \subseteq STRING \cup {primary}
            OBVIOUS
        <3>2. AppSchemas \in Seq(STRING \cup {primary})
            BY <3>1, SequencesAssumption, SeqMonotonic, Zenon
        <3> QED
            BY <3>2
    <2>2. /\ Required \in Seq(STRING \cup {primary})
          /\ Len(Required) = Len(<<primary>>) + Len(AppSchemas)
          /\ \A i \in 1 .. Len(<<primary>>) : Required[i] = <<primary>>[i]
          /\ \A i \in 1 .. Len(AppSchemas) : Required[Len(<<primary>>) + i] = AppSchemas[i]
        BY <2>1, Join DEF Required
    <2>3. AppSchemas \in [1 .. Len(AppSchemas) -> STRING] /\ Len(AppSchemas) \in Nat \ {0}
        BY SequencesAssumption, SchemasAssumption, LenProperties, EmptySeq
    <2>4. Required \in [1 .. N -> RequiredSet] /\ DOMAIN Required = 1 .. N /\ N \in Nat
        BY <2>2, LenProperties DEF N, RequiredSet
    <2> QED
        BY <2>2, <2>3, <2>4 DEF N
<1>3. /\ Len(kept) \in Nat \ {0} /\ kept \in [1 .. Len(kept) -> RequiredSet]
      /\ \E j \in 1 .. Len(kept) : kept[j] = Entities
      /\ public => kept[1] = primary
    <2>1. Len(Required) = N
        BY DEF N
    <2>2. Required[2] = Entities /\ 2 \in 1 .. N
        BY <1>2 DEF Entities
    <2>3. CASE public \/ primary # "public"
        BY <1>2, <2>1, <2>2, <2>3
    <2>4. CASE ~(public \/ primary # "public")
        <3>1. AppSchemas \in [1 .. Len(AppSchemas) -> RequiredSet]
            BY <1>2
        <3> QED
            BY <1>2, <2>4, <3>1 DEF Entities
    <2> QED
        BY <2>3, <2>4
<1> HIDE DEF kept
<1>4. ASSUME NEW j \in 1 .. Len(kept)
      PROVE  /\ 2 * j - 1 \in 1 .. 2 * Len(kept) /\ pair(2 * j - 1) = <<"wipe", kept[j]>>
             /\ 2 * j \in 1 .. 2 * Len(kept) /\ pair(2 * j) = <<"schema", kept[j]>>
    <2>1. /\ (2 * j - 1 + 1) \div 2 = j /\ (2 * j - 1) % 2 = 1
          /\ (2 * j + 1) \div 2 = j /\ (2 * j) % 2 = 0
          /\ 2 * j - 1 \in 1 .. 2 * Len(kept) /\ 2 * j \in 1 .. 2 * Len(kept)
        BY <1>3
    <2> QED
        BY <2>1
<1>5. ASSUME NEW i \in 1 .. 2 * Len(kept)
      PROVE  \E j \in 1 .. Len(kept) : i = 2 * j - 1 \/ i = 2 * j
    <2>1. (i + 1) \div 2 \in 1 .. Len(kept)
        BY <1>3
    <2>2. i = 2 * ((i + 1) \div 2) - 1 \/ i = 2 * ((i + 1) \div 2)
        BY <1>3
    <2> QED
        BY <2>1, <2>2
<1>6. \A i \in 1 .. 2 * Len(kept) : w[i] = pair(i)
    OBVIOUS
<1> HIDE DEF pair
<1>7. ASSUME NEW i \in 1 .. 2 * Len(kept)
      PROVE  \E x \in RequiredSet :
                \/ /\ pair(i) = <<"wipe", x>>
                   /\ i + 1 \in 1 .. 2 * Len(kept) /\ pair(i + 1) = <<"schema", x>>
                \/ pair(i) = <<"schema", x>>
    <2>1. PICK j \in 1 .. Len(kept) : i = 2 * j - 1 \/ i = 2 * j
        BY <1>5
    <2>2. kept[j] \in RequiredSet
        BY <1>3
    <2>3. 2 * j - 1 + 1 = 2 * j
        BY <1>3
    <2> QED
        BY <1>4, <2>1, <2>2, <2>3
<1>8. \A i \in 1 .. 2 * Len(kept) : pair(i) \in Fixed
    BY <1>7 DEF Fixed
<1>9. w \in [1 .. 2 * Len(kept) -> Fixed] /\ 2 * Len(kept) \in Nat
    BY <1>3, <1>8
<1>10. w \in Seq(Fixed)
    BY <1>9, SeqDef
<1>11. Len(w) = 2 * Len(kept)
    BY <1>9, <1>10, LenProperties
<1> HIDE DEF w
<1>12. \A i \in 1 .. 2 * Len(kept), j \in 1 .. 2 * Len(kept) : w[i] = pair(i) /\ w[j] = pair(j)
    BY <1>6
<1>13. \A i \in 1 .. Len(w) :
          \E x \in RequiredSet :
             \/ w[i] = <<"wipe", x>> /\ i + 1 \in 1 .. Len(w) /\ w[i + 1] = <<"schema", x>>
             \/ w[i] = <<"schema", x>>
    BY <1>6, <1>7, <1>11
<1>14. \E i \in 1 .. Len(w) : w[i] = <<"wipe", Entities>>
    BY <1>3, <1>4, <1>6, <1>11
<1>15. public => \E i \in 1 .. Len(w) : w[i] = <<"wipe", primary>>
    <2>1. 1 \in 1 .. Len(kept)
        BY <1>3
    <2> QED
        BY <1>3, <1>4, <1>6, <1>11, <2>1
<1> QED
    BY <1>1, <1>10, <1>13, <1>14, <1>15

\* What is done with the assets.
LEMMA SyncIs ==
    ASSUME NEW name \in Syncing
    PROVE  /\ Body(name) \in Seq(Fixed) /\ Len(Body(name)) = 1 + Len(Assets) /\ Len(Assets) \in Nat
           /\ Body(name)[1] = <<"registry">>
           /\ \A i \in 1 .. Len(Assets) :
                 /\ Body(name)[1 + i] = <<"asset", Assets[i], name = "sql-assets:force">>
                 /\ Assets[i] \in Asset
<1> DEFINE f == name = "sql-assets:force"
           r == << <<"registry">> >>
           e == [i \in DOMAIN Assets |-> <<"asset", Assets[i], f>>]
<1>1. DOMAIN Assets = 1 .. Len(Assets) /\ Len(Assets) \in Nat
    BY SequencesAssumption, LenProperties
<1>2. /\ e \in [1 .. Len(Assets) -> Fixed]
      /\ \A i \in 1 .. Len(Assets) : e[i] = <<"asset", Assets[i], f>> /\ Assets[i] \in Asset
    <2>1. \A i \in 1 .. Len(Assets) : <<"asset", Assets[i], f>> \in Fixed /\ Assets[i] \in Asset
        <3>1. f \in BOOLEAN
            OBVIOUS
        <3> HIDE DEF f
        <3> QED
            BY <1>1, <3>1 DEF Fixed, Asset
    <2> QED
        BY <1>1, <2>1
<1>3. e \in Seq(Fixed) /\ Len(e) = Len(Assets)
    <2>1. e \in Seq(Fixed)
        BY <1>1, <1>2, SeqDef
    <2> QED
        BY <1>1, <1>2, <2>1, LenProperties
<1>4. r \in Seq(Fixed) /\ Len(r) = 1 /\ r[1] = <<"registry">>
    BY DEF Fixed, Plain
<1>5. Body(name) = r \o e
    BY DEF Body, Syncing, Resetting
<1> HIDE DEF e, r
<1>6. /\ r \o e \in Seq(Fixed) /\ Len(r \o e) = Len(r) + Len(e)
      /\ \A i \in 1 .. Len(r) : (r \o e)[i] = r[i]
      /\ \A i \in 1 .. Len(e) : (r \o e)[Len(r) + i] = e[i]
    BY <1>3, <1>4, Join
<1> QED
    BY <1>1, <1>2, <1>3, <1>4, <1>5, <1>6

\* The part between is made of statements, and is what the script adds to the others.
LEMMA BodyIs ==
    ASSUME NEW name \in Serving \ {"schemas"}
    PROVE  /\ Body(name) \in Seq(Fixed) /\ Len(Body(name)) \in Nat
           /\ Steps(name) = OnDataSource(Body(name))
           /\ name \in Emptying =>
                 /\ Body(name)[1] = <<"list", name = "truncate:with-migrations">>
                 /\ Len(Body(name)) = IF name = "seed" THEN 2 ELSE 1
                 /\ name = "seed" => Body(name)[2] = <<"seed">>
           /\ name = "migrate" => Len(Body(name)) = 1 /\ Body(name)[1] = <<"pending">>
           /\ name = "migrate:revert" => Len(Body(name)) = 1 /\ Body(name)[1] = <<"last">>
<1>1. ASSUME NEW x \in Fixed, NEW y \in Fixed
      PROVE  /\ << x >> \in Seq(Fixed) /\ Len(<< x >>) = 1 /\ << x >>[1] = x
             /\ << x, y >> \in Seq(Fixed) /\ Len(<< x, y >>) = 2
             /\ << x, y >>[1] = x /\ << x, y >>[2] = y
    OBVIOUS
<1>2. /\ <<"list", TRUE>> \in Fixed /\ <<"list", FALSE>> \in Fixed /\ <<"seed">> \in Fixed
      /\ <<"pending">> \in Fixed /\ <<"last">> \in Fixed
    BY DEF Fixed, Plain
<1>3. CASE name = "truncate"
    <2>1. Body(name) = << <<"list", FALSE>> >>
        BY <1>3 DEF Body, Resetting, Syncing
    <2>2. Steps(name) = OnDataSource(<< <<"list", FALSE>> >>)
        BY <1>3 DEF Steps, TruncateScript
    <2>3. /\ << <<"list", FALSE>> >> \in Seq(Fixed) /\ Len(<< <<"list", FALSE>> >>) = 1
          /\ << <<"list", FALSE>> >>[1] = <<"list", FALSE>>
        BY <1>1, <1>2
    <2>4. (name = "truncate:with-migrations") = FALSE
        BY <1>3
    <2> QED
        BY <1>3, <2>1, <2>2, <2>3, <2>4 DEF Emptying
<1>4. CASE name = "truncate:with-migrations"
    <2>1. Body(name) = << <<"list", TRUE>> >>
        BY <1>4 DEF Body, Resetting, Syncing
    <2>2. Steps(name) = OnDataSource(<< <<"list", TRUE>> >>)
        BY <1>4 DEF Steps, TruncateScript
    <2>3. /\ << <<"list", TRUE>> >> \in Seq(Fixed) /\ Len(<< <<"list", TRUE>> >>) = 1
          /\ << <<"list", TRUE>> >>[1] = <<"list", TRUE>>
        BY <1>1, <1>2
    <2>4. (name = "truncate:with-migrations") = TRUE
        BY <1>4
    <2> QED
        BY <1>4, <2>1, <2>2, <2>3, <2>4 DEF Emptying
<1>5. CASE name = "seed"
    <2>1. Body(name) = << <<"list", FALSE>>, <<"seed">> >>
        BY <1>5 DEF Body, Resetting, Syncing
    <2>2. Steps(name) = OnDataSource(<< <<"list", FALSE>>, <<"seed">> >>)
        BY <1>5 DEF Steps, SeedScript
    <2>3. /\ << <<"list", FALSE>>, <<"seed">> >> \in Seq(Fixed)
          /\ Len(<< <<"list", FALSE>>, <<"seed">> >>) = 2
          /\ << <<"list", FALSE>>, <<"seed">> >>[1] = <<"list", FALSE>>
          /\ << <<"list", FALSE>>, <<"seed">> >>[2] = <<"seed">>
        BY <1>1, <1>2
    <2>4. (name = "truncate:with-migrations") = FALSE
        BY <1>5
    <2> QED
        BY <1>5, <2>1, <2>2, <2>3, <2>4 DEF Emptying
<1>6. CASE name = "migrate"
    <2>1. Body(name) = << <<"pending">> >>
        BY <1>6 DEF Body, Resetting, Syncing
    <2>2. Steps(name) = OnDataSource(<< <<"pending">> >>)
        BY <1>6 DEF Steps, MigrateScript
    <2>3. /\ << <<"pending">> >> \in Seq(Fixed) /\ Len(<< <<"pending">> >>) = 1
          /\ << <<"pending">> >>[1] = <<"pending">>
        BY <1>1, <1>2
    <2> QED
        BY <1>6, <2>1, <2>2, <2>3 DEF Emptying
<1>7. CASE name = "migrate:revert"
    <2>1. Body(name) = << <<"last">> >>
        BY <1>7 DEF Body, Resetting, Syncing
    <2>2. Steps(name) = OnDataSource(<< <<"last">> >>)
        BY <1>7 DEF Steps, MigrateScript
    <2>3. /\ << <<"last">> >> \in Seq(Fixed) /\ Len(<< <<"last">> >>) = 1
          /\ << <<"last">> >>[1] = <<"last">>
        BY <1>1, <1>2
    <2> QED
        BY <1>7, <2>1, <2>2, <2>3 DEF Emptying
<1>8. CASE name \in Resetting
    <2>1. Body(name) = Wipes(name = "schemas:reset:public")
        BY <1>8 DEF Body, Resetting, Syncing
    <2>2. Wipes(name = "schemas:reset:public") \in Seq(Fixed)
        BY WipesAre
    <2>3. Steps(name) = OnDataSource(Wipes(name = "schemas:reset:public"))
        BY <1>8 DEF Steps, ResetSchemasScript, Resetting
    <2> QED
        BY <1>8, <2>1, <2>2, <2>3, LenProperties DEF Resetting, Emptying
<1>9. CASE name \in Syncing
    <2>1. Steps(name) = SyncScript(name = "sql-assets:force")
        BY <1>9 DEF Steps, Syncing
    <2>2. Steps(name) = OnDataSource(Body(name))
        BY <1>9, <2>1 DEF SyncScript, Body, Syncing, Resetting
    <2> QED
        BY <1>9, <2>2, SyncIs DEF Syncing, Emptying
<1> QED
    BY <1>3, <1>4, <1>5, <1>6, <1>7, <1>8, <1>9
       DEF Serving, Scripts, Rebuilding, Resetting, Syncing

\* The statements of such a script: ensure, close, its own part, close.
LEMMA ServingIs ==
    ASSUME NEW name \in Serving
    PROVE  /\ Steps(name) \in Seq(Fixed) /\ Len(Steps(name)) \in Nat /\ N \in Nat
           /\ \A i \in 1 .. N : Steps(name)[i] = <<"schema", Required[i]>>
           /\ Steps(name)[N + 1] = <<"close">>
           /\ name = "schemas" => Len(Steps(name)) = N + 1
           /\ name # "schemas" =>
                 /\ Len(Steps(name)) = N + 2 + Len(Body(name))
                 /\ \A i \in 1 .. Len(Body(name)) : Steps(name)[N + 1 + i] = Body(name)[i]
                 /\ Steps(name)[Len(Steps(name))] = <<"close">>
<1>1. /\ N \in Nat /\ Ensure \in Seq(Fixed) /\ Len(Ensure) = N + 1
      /\ \A i \in 1 .. N : Ensure[i] = <<"schema", Required[i]>>
      /\ Ensure[N + 1] = <<"close">>
    BY EnsureIs
<1>2. CASE name = "schemas"
    <2>1. Steps(name) = Ensure
        BY <1>2 DEF Steps
    <2> QED
        BY <1>1, <1>2, <2>1
<1>3. CASE name # "schemas"
    <2> DEFINE b == Body(name)
               z == << <<"close">> >>
               p == Ensure \o b
    <2>1. b \in Seq(Fixed) /\ Len(b) \in Nat /\ Steps(name) = Ensure \o b \o z
        BY <1>3, BodyIs DEF OnDataSource
    <2>2. z \in Seq(Fixed) /\ Len(z) = 1 /\ z[1] = <<"close">>
        BY DEF Fixed, Plain
    <2>3. Steps(name) = p \o z
        BY <2>1
    <2> HIDE DEF b, z
    <2>4. /\ Ensure \o b \in Seq(Fixed) /\ Len(Ensure \o b) = Len(Ensure) + Len(b)
          /\ \A i \in 1 .. Len(Ensure) : (Ensure \o b)[i] = Ensure[i]
          /\ \A i \in 1 .. Len(b) : (Ensure \o b)[Len(Ensure) + i] = b[i]
        <3>1. Ensure \in Seq(Fixed) /\ b \in Seq(Fixed)
            BY <1>1, <2>1
        <3> QED
            BY <3>1, Join
    <2>5. /\ p \in Seq(Fixed) /\ Len(p) = N + 1 + Len(b)
          /\ \A i \in 1 .. N + 1 : p[i] = Ensure[i]
          /\ \A i \in 1 .. Len(b) : p[N + 1 + i] = b[i]
        BY <1>1, <2>1, <2>4
    <2> HIDE DEF p
    <2>6. /\ p \o z \in Seq(Fixed) /\ Len(p \o z) = Len(p) + Len(z)
          /\ \A i \in 1 .. Len(p) : (p \o z)[i] = p[i]
          /\ \A i \in 1 .. Len(z) : (p \o z)[Len(p) + i] = z[i]
        BY <2>2, <2>5, Join
    <2>7. Len(p \o z) = N + 2 + Len(b) /\ (p \o z)[Len(p) + 1] = z[1]
        BY <1>1, <2>1, <2>2, <2>5, <2>6
    <2>8. Len(p \o z) = Len(p) + 1
        BY <2>2, <2>6
    <2>9. \A i \in 1 .. N + 1 : (p \o z)[i] = Ensure[i]
        BY <1>1, <2>1, <2>5, <2>6
    <2>10. ASSUME NEW i \in 1 .. Len(b)
           PROVE  (p \o z)[N + 1 + i] = b[i]
        <3>1. N + 1 + i \in 1 .. Len(p)
            BY <1>1, <2>1, <2>5
        <3> QED
            BY <2>5, <2>6, <3>1
    <2>11. N + 1 \in 1 .. N + 1 /\ (\A i \in 1 .. N : i \in 1 .. N + 1) /\ N + 2 + Len(b) \in Nat
        BY <1>1, <2>1
    <2>12. (p \o z)[Len(p \o z)] = <<"close">>
        BY <2>2, <2>7, <2>8
    <2>13. /\ \A i \in 1 .. N : (p \o z)[i] = <<"schema", Required[i]>>
           /\ (p \o z)[N + 1] = <<"close">>
        BY <1>1, <2>9, <2>11
    <2> QED
        BY <1>1, <1>3, <2>3, <2>6, <2>7, <2>10, <2>11, <2>12, <2>13 DEF b
<1> QED
    BY <1>2, <1>3

\* Where a script is after k statements.
LEMMA ServingNext ==
    ASSUME NEW name \in Serving, NEW k \in 0 .. Len(Steps(name)) - 1
    PROVE  \/ k < N /\ Steps(name)[k + 1] = <<"schema", Required[k + 1]>>
           \/ k = N /\ Steps(name)[k + 1] = <<"close">>
           \/ /\ name # "schemas" /\ k = N + 1 + Len(Body(name))
              /\ Steps(name)[k + 1] = <<"close">>
           \/ /\ name # "schemas" /\ k - N \in 1 .. Len(Body(name))
              /\ Steps(name)[k + 1] = Body(name)[k - N]
<1>1. /\ N \in Nat /\ Len(Steps(name)) \in Nat
      /\ \A i \in 1 .. N : Steps(name)[i] = <<"schema", Required[i]>>
      /\ Steps(name)[N + 1] = <<"close">>
      /\ name = "schemas" => Len(Steps(name)) = N + 1
      /\ name # "schemas" =>
            /\ Len(Steps(name)) = N + 2 + Len(Body(name))
            /\ \A i \in 1 .. Len(Body(name)) : Steps(name)[N + 1 + i] = Body(name)[i]
            /\ Steps(name)[Len(Steps(name))] = <<"close">>
    BY ServingIs
<1>2. k \in Nat /\ k < Len(Steps(name))
    BY <1>1
<1>3. CASE k < N
    <2>1. k + 1 \in 1 .. N
        BY <1>1, <1>2, <1>3
    <2> QED
        BY <1>1, <1>3, <2>1
<1>4. CASE k = N
    BY <1>1, <1>4
<1>5. CASE k > N
    <2>1. name # "schemas"
        BY <1>1, <1>2, <1>5
    <2>2. Len(Body(name)) \in Nat
        BY <2>1, BodyIs
    <2>3. CASE k = N + 1 + Len(Body(name))
        <3>1. k + 1 = Len(Steps(name))
            BY <1>1, <2>1, <2>2, <2>3
        <3> QED
            BY <1>1, <2>1, <2>3, <3>1
    <2>4. CASE k # N + 1 + Len(Body(name))
        <3> DEFINE b == Len(Body(name))
                   l == Len(Steps(name))
        <3>3. b \in Nat /\ l = N + 2 + b /\ k < l /\ k # N + 1 + b
            BY <1>1, <1>2, <2>1, <2>2, <2>4
        <3> HIDE DEF b, l
        <3>4. k - N \in 1 .. b /\ k + 1 = N + 1 + (k - N)
            BY <1>1, <1>2, <1>5, <3>3
        <3>1. k - N \in 1 .. Len(Body(name)) /\ k + 1 = N + 1 + (k - N)
            BY <3>4 DEF b
        <3>2. Steps(name)[N + 1 + (k - N)] = Body(name)[k - N]
            BY <1>1, <2>1, <3>1
        <3> QED
            BY <2>1, <3>1, <3>2
    <2> QED
        BY <2>3, <2>4
<1> QED
    BY <1>1, <1>2, <1>3, <1>4, <1>5

\* The first statement of the part between, by the group of the script.
LEMMA BodyNext ==
    ASSUME NEW name \in Serving \ {"schemas"}, NEW i \in 1 .. Len(Body(name))
    PROVE  /\ name \in Emptying =>
                 \/ i = 1 /\ Body(name)[i] = <<"list", name = "truncate:with-migrations">>
                 \/ i = 2 /\ name = "seed" /\ Body(name)[i] = <<"seed">>
           /\ name = "migrate" => i = 1 /\ Body(name)[i] = <<"pending">>
           /\ name = "migrate:revert" => i = 1 /\ Body(name)[i] = <<"last">>
           /\ name \in Resetting =>
                 \E x \in RequiredSet :
                    \/ /\ Body(name)[i] = <<"wipe", x>>
                       /\ i + 1 \in 1 .. Len(Body(name)) /\ Body(name)[i + 1] = <<"schema", x>>
                    \/ Body(name)[i] = <<"schema", x>>
           /\ name \in Syncing =>
                 \/ i = 1 /\ Body(name)[i] = <<"registry">>
                 \/ /\ i - 1 \in 1 .. Len(Assets) /\ Assets[i - 1] \in Asset
                    /\ Body(name)[i] = <<"asset", Assets[i - 1], name = "sql-assets:force">>
<1>1. /\ Len(Body(name)) \in Nat
      /\ name \in Emptying =>
            /\ Body(name)[1] = <<"list", name = "truncate:with-migrations">>
            /\ Len(Body(name)) = IF name = "seed" THEN 2 ELSE 1
            /\ name = "seed" => Body(name)[2] = <<"seed">>
      /\ name = "migrate" => Len(Body(name)) = 1 /\ Body(name)[1] = <<"pending">>
      /\ name = "migrate:revert" => Len(Body(name)) = 1 /\ Body(name)[1] = <<"last">>
    BY BodyIs
<1>2. i \in Nat /\ i >= 1 /\ i <= Len(Body(name))
    BY <1>1
<1>3. ASSUME name \in Emptying
      PROVE  \/ i = 1 /\ Body(name)[i] = <<"list", name = "truncate:with-migrations">>
             \/ i = 2 /\ name = "seed" /\ Body(name)[i] = <<"seed">>
    <2>1. CASE name = "seed"
        <3>2. i \in Nat /\ i >= 1 /\ i <= 2
            BY <1>1, <1>2, <1>3, <2>1
        <3>1. i = 1 \/ i = 2
            BY <3>2
        <3> QED
            BY <1>1, <1>3, <2>1, <3>1
    <2>2. CASE name # "seed"
        <3>1. i = 1
            BY <1>1, <1>2, <1>3, <2>2
        <3> QED
            BY <1>1, <1>3, <3>1
    <2> QED
        BY <2>1, <2>2
<1>4. ASSUME name = "migrate" \/ name = "migrate:revert"
      PROVE  i = 1
    <2>1. i \in Nat /\ i >= 1 /\ i <= 1
        BY <1>1, <1>2, <1>4
    <2> QED
        BY <2>1
<1>5. ASSUME name \in Resetting
      PROVE  \E x \in RequiredSet :
                \/ /\ Body(name)[i] = <<"wipe", x>>
                   /\ i + 1 \in 1 .. Len(Body(name)) /\ Body(name)[i + 1] = <<"schema", x>>
                \/ Body(name)[i] = <<"schema", x>>
    <2>1. PICK public \in BOOLEAN : public = (name = "schemas:reset:public")
        OBVIOUS
    <2>2. Body(name) = Wipes(public)
        BY <1>5, <2>1 DEF Body, Resetting, Syncing
    <2> QED
        BY <2>2, WipesAre
<1>6. ASSUME name \in Syncing
      PROVE  \/ i = 1 /\ Body(name)[i] = <<"registry">>
             \/ /\ i - 1 \in 1 .. Len(Assets) /\ Assets[i - 1] \in Asset
                /\ Body(name)[i] = <<"asset", Assets[i - 1], name = "sql-assets:force">>
    <2>1. /\ Len(Body(name)) = 1 + Len(Assets) /\ Len(Assets) \in Nat
          /\ Body(name)[1] = <<"registry">>
          /\ \A j \in 1 .. Len(Assets) :
                /\ Body(name)[1 + j] = <<"asset", Assets[j], name = "sql-assets:force">>
                /\ Assets[j] \in Asset
        BY <1>6, SyncIs
    <2>2. CASE i = 1
        BY <2>1, <2>2
    <2>3. CASE i # 1
        <3>1. i - 1 \in 1 .. Len(Assets) /\ 1 + (i - 1) = i
            BY <1>2, <2>1, <2>3
        <3> QED
            BY <2>1, <3>1
    <2> QED
        BY <2>2, <2>3
<1> QED
    BY <1>1, <1>3, <1>4, <1>5, <1>6

\* A schema that is wiped is created next.
LEMMA WipedThenMade ==
    ASSUME NEW name \in Serving, NEW k \in 0 .. Len(Steps(name)) - 1, NEW x,
           Steps(name)[k + 1] = <<"wipe", x>>
    PROVE  k + 1 < Len(Steps(name)) /\ Steps(name)[k + 1 + 1] = <<"schema", x>> /\ k > N
<1>1. N \in Nat /\ Len(Steps(name)) \in Nat /\ k \in Nat
    BY ServingIs
<1>2. /\ name # "schemas" /\ k - N \in 1 .. Len(Body(name))
      /\ Steps(name)[k + 1] = Body(name)[k - N]
    BY ServingNext
<1>3. /\ Len(Steps(name)) = N + 2 + Len(Body(name))
      /\ \A i \in 1 .. Len(Body(name)) : Steps(name)[N + 1 + i] = Body(name)[i]
      /\ Len(Body(name)) \in Nat
    BY <1>2, ServingIs, BodyIs
<1>4. name \in Resetting
    BY <1>2, BodyNext DEF Serving, Scripts, Rebuilding, Emptying, Resetting, Syncing
<1>5. PICK y \in RequiredSet :
          \/ /\ Body(name)[k - N] = <<"wipe", y>>
             /\ k - N + 1 \in 1 .. Len(Body(name)) /\ Body(name)[k - N + 1] = <<"schema", y>>
          \/ Body(name)[k - N] = <<"schema", y>>
    BY <1>2, <1>4, BodyNext
<1>6. /\ x = y /\ k - N + 1 \in 1 .. Len(Body(name)) /\ Body(name)[k - N + 1] = <<"schema", x>>
    BY <1>2, <1>5
<1>7. k + 1 + 1 = N + 1 + (k - N + 1) /\ k + 1 < Len(Steps(name)) /\ k > N
    BY <1>1, <1>2, <1>3, <1>6
<1> QED
    BY <1>3, <1>6, <1>7

\* The schemas that were ensured are there after the next statement too.
LEMMA MadeNext ==
    ASSUME NEW name \in Serving, NEW k \in 0 .. Len(Steps(name)) - 1, Made(name, k),
           primary' = primary,
           \A x \in RequiredSet :
              x \in data.schemas \/ Steps(name)[k + 1] = <<"schema", x>> =>
                  x \in data'.schemas \/ Steps(name)[k + 1] = <<"wipe", x>>
    PROVE  Made(name, k + 1)'
<1>1. /\ Required' = Required /\ N' = N /\ Steps(name)' = Steps(name)
    BY ScriptsKept DEF Serving
<1>2. /\ N \in Nat /\ k \in Nat /\ Len(Steps(name)) \in Nat
      /\ \A i \in 1 .. N : Steps(name)[i] = <<"schema", Required[i]>> /\ Required[i] \in RequiredSet
    BY ServingIs, EnsureIs
<1> DEFINE l == Len(Steps(name))
           p == Steps(name)
<1>3. ASSUME NEW i \in 1 .. N, i <= k + 1
      PROVE  Required[i] \in data'.schemas \/ (k + 1 < l /\ p[k + 1 + 1] = <<"schema", Required[i]>>)
    <2>1. Required[i] \in data.schemas \/ p[k + 1] = <<"schema", Required[i]>>
        <3>1. CASE i = k + 1
            BY <1>2, <3>1
        <3>2. CASE i # k + 1
            <4>1. i <= k
                BY <1>2, <1>3, <3>2
            <4> QED
                BY <4>1 DEF Made
        <3> QED
            BY <3>1, <3>2
    <2>2. Required[i] \in data'.schemas \/ p[k + 1] = <<"wipe", Required[i]>>
        BY <1>2, <2>1
    <2>3. p[k + 1] = <<"wipe", Required[i]>> => k + 1 < l /\ p[k + 1 + 1] = <<"schema", Required[i]>>
        BY WipedThenMade
    <2> QED
        BY <2>2, <2>3
<1>4. (p[k + 1 + 1])' = p[k + 1 + 1] /\ l' = l
    BY <1>1
<1> HIDE DEF l, p
<1>5. \A i \in 1 .. N : i <= k + 1 =>
          Required[i] \in data'.schemas \/ (k + 1 < l /\ p[k + 1 + 1] = <<"schema", Required[i]>>)
    BY <1>3
<1> QED
    BY <1>1, <1>4, <1>5 DEF Made, l, p

\* ... and after one that was inserted.
LEMMA MadeKept ==
    ASSUME NEW name \in Serving, NEW k, Made(name, k), primary' = primary,
           data'.schemas = data.schemas
    PROVE  Made(name, k)'
BY ScriptsKept DEF Made, Serving

\* The next statement is part of the script, or inserted.
LEMMA ServesNext ==
    ASSUME NEW s \in Slot, NEW name \in Serving, NEW k, NEW more, Serves(s, name, k, more),
           todo \in [Slot -> Seq(Statement)], todo[s] # <<>>
    PROVE  /\ k \in Nat /\ N \in Nat /\ Len(Steps(name)) \in Nat /\ k <= Len(Steps(name))
           /\ more = <<>> =>
                 /\ k \in 0 .. Len(Steps(name)) - 1 /\ Head(todo[s]) = Steps(name)[k + 1]
                 /\ \A m : Proceed(s, m) =>
                       todo'[s] = m \o Left(Steps(name), k + 1, Len(Steps(name)))
           /\ \A x \in Statement : more = << x >> =>
                 /\ Head(todo[s]) = x
                 /\ Proceed(s, <<>>) => todo'[s] = <<>> \o Left(Steps(name), k, Len(Steps(name)))
           /\ \A x \in Statement, y \in Statement : more = << x, y >> =>
                 /\ Head(todo[s]) = x
                 /\ Proceed(s, <<>>) =>
                       todo'[s] = << y >> \o Left(Steps(name), k, Len(Steps(name)))
<1> DEFINE p == Steps(name)
           l == Len(p)
<1>1. p \in Seq(Statement) /\ l \in Nat /\ N \in Nat /\ l <= Len(p)
    <2>1. p \in Seq(Fixed) /\ l \in Nat /\ N \in Nat
        BY ServingIs
    <2> QED
        BY <2>1, SeqMonotonic DEF Statement
<1>2. k \in Nat /\ k <= l /\ todo[s] = more \o Left(p, k, l)
    BY <1>1 DEF Serves
<1>3. \A m : Proceed(s, m) => todo'[s] = m \o Tail(todo[s])
    BY DEF Proceed
<1> HIDE DEF l, p
<1>4. Left(p, k, l) \in Seq(Statement)
    <2>1. l \in 0 .. Len(p) /\ k \in 0 .. l
        BY <1>1, <1>2
    <2> QED
        BY <1>1, <2>1, LeftIs
<1>5. ASSUME more = <<>>
      PROVE  /\ k \in 0 .. l - 1 /\ Head(todo[s]) = p[k + 1]
             /\ \A m : Proceed(s, m) => todo'[s] = m \o Left(p, k + 1, l)
    <2>1. todo[s] = <<>> \o Left(p, k, l)
        BY <1>2, <1>5
    <2>2. k # l
        BY <1>1, <1>2, <2>1, Finishes
    <2>3. k < l
        BY <1>1, <1>2, <2>2
    <2>4. /\ Head(<<>> \o Left(p, k, l)) = p[k + 1]
          /\ Tail(<<>> \o Left(p, k, l)) = Left(p, k + 1, l)
        BY <1>1, <1>2, <2>3, Onwards
    <2>5. k \in 0 .. l - 1
        BY <1>1, <1>2, <2>3
    <2> QED
        BY <1>3, <2>1, <2>4, <2>5
<1>6. ASSUME NEW x \in Statement, more = << x >>
      PROVE  /\ Head(todo[s]) = x
             /\ Proceed(s, <<>>) => todo'[s] = <<>> \o Left(p, k, l)
    <2>1. /\ Head(<< x >> \o Left(p, k, l)) = x
          /\ Tail(<< x >> \o Left(p, k, l)) = Left(p, k, l)
          /\ <<>> \o Left(p, k, l) = Left(p, k, l)
        BY <1>1, <1>2, Inserting
    <2> QED
        BY <1>2, <1>3, <1>6, <2>1
<1>7. ASSUME NEW x \in Statement, NEW y \in Statement, more = << x, y >>
      PROVE  /\ Head(todo[s]) = x
             /\ Proceed(s, <<>>) => todo'[s] = << y >> \o Left(p, k, l)
    <2> DEFINE q == Left(p, k, l)
    <2>1. q \in Seq(Statement)
        BY <1>4
    <2> HIDE DEF q
    <2>2. /\ Head(<< x, y >> \o q) = x /\ Tail(<< x, y >> \o q) = << y >> \o q
        BY <2>1, ComesTwo
    <2>3. << y >> \in Seq(Statement)
        OBVIOUS
    <2>4. << y >> \o q \in Seq(Statement)
        BY <2>1, <2>3, ConcatProperties
    <2>5. <<>> \o (<< y >> \o q) = << y >> \o q
        BY <2>4, ConcatEmptySeq
    <2> QED
        BY <1>2, <1>3, <1>7, <2>2, <2>5 DEF q
<1> QED
    BY <1>1, <1>2, <1>5, <1>6, <1>7 DEF p, l

\* What a statement changes besides tables and rows.
LEMMA SchemasOn ==
    ASSUME TypeOK, Programs, NEW s \in Slot, Step(s), Head(todo[s])[1] \notin {"drop", "create"}
    PROVE  /\ primary' = primary /\ source' = source /\ db' = db
           /\ Head(todo[s])[1] \notin {"files", "generate"} => files' = files
           /\ \A x \in RequiredSet :
                 x \in data.schemas => x \in data'.schemas \/ Head(todo[s]) = <<"wipe", x>>
           /\ \A x \in RequiredSet : Head(todo[s]) = <<"schema", x>> => x \in data'.schemas
           /\ Head(todo[s])[1] \notin {"schema", "wipe", "registry"} => data'.schemas = data.schemas
<1>1. data \in Databases /\ todo[s] # <<>> /\ todo[s] \in Seq(Statement)
    BY StepIs DEF TypeOK, Programs
<1> DEFINE h == Head(todo[s])
           Same == /\ primary' = primary /\ source' = source /\ db' = db
                   /\ h[1] \notin {"files", "generate"} => files' = files
<1>2. CASE h[1] = "schema"
    <2>1. CreateSchema(s)
        BY <1>1, <1>2, StepIs DEF At
    <2>2. Same /\ data'.schemas = data.schemas \cup {h[2]}
        BY <1>1, <2>1 DEF CreateSchema, Query, environment, Arg, Databases
    <2> QED
        BY <1>2, <2>2
<1>3. CASE h[1] = "wipe"
    <2>1. WipeSchema(s)
        BY <1>1, <1>3, StepIs DEF At
    <2>2. Same /\ data'.schemas = data.schemas \ {h[2]}
        BY <1>1, <2>1 DEF WipeSchema, Query, environment, Arg, Databases, Without
    <2>3. h = <<"wipe", h[2]>>
        <3>1. h \in Statement
            BY <1>1, HeadTailProperties
        <3> HIDE DEF h
        <3>2. h \in {"schema", "wipe"} \X RequiredSet
            BY <1>3, <3>1 DEF Statement, Fixed, Bare, Plain, Install
        <3> QED
            BY <1>3, <3>2
    <2> QED
        BY <1>3, <2>2, <2>3
<1>4. CASE h[1] = "registry"
    <2>1. EnsureRegistryTable(s)
        BY <1>1, <1>4, StepIs DEF At
    <2>2. Same /\ data'.schemas = data.schemas \cup {primary}
        BY <1>1, <2>1 DEF EnsureRegistryTable, Query, environment, Databases
    <2> QED
        BY <1>4, <2>2
<1>5. CASE h[1] \notin {"schema", "wipe", "registry"}
    <2>1. Same /\ data'.schemas = data.schemas
        <3>1. CASE Terminate(s) \/ FindToDrop(s) \/ FindToCreate(s) \/ ListTables(s) \/ Close(s)
                   \/ CheckAsset(s)
            BY <3>1 DEF Terminate, FindToDrop, FindToCreate, ListTables, Close, CheckAsset, Query,
               environment
        <3>2. CASE RemoveInitialSchemaMigrations(s) \/ Generate(s)
            BY <3>2 DEF RemoveInitialSchemaMigrations, Generate, Runs, At
        <3>3. CASE TruncateTables(s) \/ FindPending(s) \/ Migrate(s) \/ FindLast(s) \/ Seed(s)
                   \/ RunAsset(s) \/ UpsertRegistry(s) \/ RunAndRegister(s)
            BY <1>1, <3>3 DEF TruncateTables, FindPending, Migrate, FindLast, Seed, RunAsset,
               UpsertRegistry, RunAndRegister, Query, environment, Databases
        <3>4. CASE Undo(s)
            BY <1>1, <3>4 DEF Undo, Without, Query, environment, Databases
        <3> QED
            BY <1>5, <3>1, <3>2, <3>3, <3>4 DEF Step, DropDatabase, CreateDatabase, CreateSchema,
               WipeSchema, EnsureRegistryTable, Runs, At
    <2> QED
        BY <1>5, <2>1
<1> QED
    BY <1>2, <1>3, <1>4, <1>5

\* No table of migrations, no record of any.
Recorded == "migrations" \notin data.tables => data.record = {}

\* The step of such a script leaves it one statement further.
Advances(s, name, k, more) ==
    \/ more = <<>> /\ \E m : Proceed(s, m) /\ Served(name, k + 1, m)'
    \/ \E x \in Statement : more = << x >> /\ Proceed(s, <<>>) /\ Served(name, k, <<>>)'
    \/ \E x \in Statement, y \in Statement :
          more = << x, y >> /\ Proceed(s, <<>>) /\ Served(name, k, << y >>)'

\* What holds of a script depends on its name only through its group.
LEMMA Groups ==
    ASSUME NEW name \in Serving \ {"schemas"}
    PROVE  /\ name \in Emptying \cup Resetting \cup Syncing \cup {"migrate", "migrate:revert"}
           /\ name \in Emptying => name \notin Resetting \cup Syncing \cup {"migrate", "migrate:revert"}
           /\ name \in Resetting => name \notin Emptying \cup Syncing \cup {"migrate", "migrate:revert"}
           /\ name \in Syncing => name \notin Emptying \cup Resetting \cup {"migrate", "migrate:revert"}
           /\ name \in {"migrate", "migrate:revert"} => name \notin Emptying \cup Resetting \cup Syncing
BY DEF Serving, Scripts, Rebuilding, Emptying, Resetting, Syncing

\* Listing the tables, truncating them and seeding.
LEMMA EmptyingOn ==
    ASSUME TypeOK, Programs, Recorded, NEW s \in Slot, NEW name \in Emptying, NEW k \in Nat, NEW more,
           Served(name, k, more), Step(s), primary' = primary,
           \/ /\ more = <<>> /\ k - N \in 1 .. Len(Body(name))
              /\ Head(todo[s]) = Body(name)[k - N]
           \/ more = << Head(todo[s]) >> /\ Head(todo[s]) \in Statement
    PROVE  Advances(s, name, k, more)
<1>1. /\ data \in Databases /\ ("app" \notin data.tables => data.rows = {}) /\ todo[s] # <<>>
      /\ Emptied(name, k, more) /\ N' = N /\ N \in Nat
      /\ name \notin Resetting \cup Syncing \cup {"migrate", "migrate:revert", "schemas"}
    BY StepIs, ScriptsKept, EnsureIs
       DEF TypeOK, Served, Emptying, Resetting, Syncing
<1>2. name \in Serving \ {"schemas"}
    BY DEF Serving, Scripts, Rebuilding, Emptying
<1>3. ASSUME NEW j \in Nat, j >= N + 2, NEW m, Emptied(name, j, m)'
      PROVE  Served(name, j, m)'
    BY <1>1, <1>3 DEF Served
<1>4. CASE more = <<>> /\ k - N = 1 /\ Head(todo[s]) = <<"list", name = "truncate:with-migrations">>
    <2> DEFINE all == name = "truncate:with-migrations"
               found == { t \in data.tables : t # "migrations" \/ all }
    <2>1. ListTables(s) /\ Arg(s, 2) = all
        BY <1>1, <1>4, StepIs DEF At, Arg
    <2>2. PICK f : f = found
        OBVIOUS
    <2>3. PICK m : m = IF f = {} THEN <<>> ELSE << <<"truncate", f, all>> >>
        OBVIOUS
    <2>4. Proceed(s, m) /\ data' = data
        BY <2>1, <2>2, <2>3 DEF ListTables, Query
    <2>5. k + 1 = N + 2 /\ k + 1 \in Nat
        BY <1>1, <1>4
    <2>6. f \in SUBSET Table /\ ("app" \in data.tables => "app" \in f)
        BY <1>1, <2>2 DEF Databases
    <2>7. all /\ "migrations" \in data.tables => "migrations" \in f
        BY <2>2
    <2>8. Emptied(name, k + 1, m)'
        <3>1. CASE f = {}
            <4>1. m = <<>> /\ data.rows = {} /\ (all => data.record = {})
                BY <1>1, <2>3, <2>6, <2>7, <3>1 DEF Recorded
            <4> QED
                BY <1>1, <2>4, <2>5, <4>1 DEF Emptied
        <3>2. CASE f # {}
            <4>1. m = << <<"truncate", f, all>> >> /\ m # <<>>
                BY <2>3, <3>2
            <4> QED
                BY <1>1, <2>4, <2>5, <2>6, <2>7, <4>1 DEF Emptied
        <3> QED
            BY <3>1, <3>2
    <2>9. Served(name, k + 1, m)'
        BY <1>1, <1>3, <2>5, <2>8
    <2> QED
        BY <1>4, <2>4, <2>9 DEF Advances
<1>5. CASE more = <<>> /\ k - N = 2 /\ name = "seed" /\ Head(todo[s]) = <<"seed">>
    <2>1. Seed(s)
        BY <1>1, <1>5, StepIs DEF At
    <2>2. Proceed(s, <<>>) /\ data' = [data EXCEPT !.rows = @ \cup {"seed"}]
        BY <2>1 DEF Seed, Query
    <2>3. k = N + 2 /\ k + 1 \in Nat /\ k + 1 >= N + 2 /\ k + 1 >= N + 3
        BY <1>1, <1>5
    <2>4. data.rows = {}
        BY <1>1, <1>5, <2>3 DEF Emptied
    <2>5. data'.rows = {"seed"}
        BY <1>1, <2>2, <2>4 DEF Databases
    <2>6. Emptied(name, k + 1, <<>>)'
        BY <1>1, <1>5, <2>3, <2>5 DEF Emptied
    <2>7. Served(name, k + 1, <<>>)'
        BY <1>3, <2>3, <2>6
    <2> QED
        BY <1>5, <2>2, <2>7 DEF Advances
<1>6. CASE more = << Head(todo[s]) >> /\ Head(todo[s]) \in Statement
    <2>1. more # <<>>
        BY <1>6
    <2>2. PICK found \in SUBSET Table :
              /\ more = << <<"truncate", found, name = "truncate:with-migrations">> >>
              /\ "app" \in data.tables => "app" \in found
              /\ name = "truncate:with-migrations" /\ "migrations" \in data.tables =>
                     "migrations" \in found
        BY <1>1, <2>1 DEF Emptied
    <2>3. k = N + 2
        BY <1>1, <2>1 DEF Emptied
    <2>4. Head(todo[s]) = <<"truncate", found, name = "truncate:with-migrations">>
        BY <1>6, <2>2
    <2>5. TruncateTables(s) /\ Arg(s, 2) = found
        BY <1>1, <2>4, StepIs DEF At, Arg
    <2>6. /\ Proceed(s, <<>>)
          /\ data' = [data EXCEPT !.rows = IF "app" \in found THEN {} ELSE @,
                                  !.record = IF "migrations" \in found THEN {} ELSE @,
                                  !.registry = IF "registry" \in found THEN Nothing ELSE @]
        BY <2>5 DEF TruncateTables, Query
    <2>7. /\ data'.rows = IF "app" \in found THEN {} ELSE data.rows
          /\ data'.record = IF "migrations" \in found THEN {} ELSE data.record
        BY <1>1, <2>6 DEF Databases
    <2>8. data'.rows = {} /\ (name = "truncate:with-migrations" => data'.record = {})
        BY <1>1, <2>2, <2>7 DEF Recorded
    <2>9. Emptied(name, k, <<>>)'
        BY <1>1, <2>3, <2>8 DEF Emptied
    <2>10. k >= N + 2
        BY <1>1, <2>3
    <2>11. Served(name, k, <<>>)'
        BY <1>3, <2>9, <2>10
    <2> QED
        BY <1>6, <2>6, <2>11 DEF Advances
<1>7. CASE more = <<>>
    <2>1. k - N \in 1 .. Len(Body(name)) /\ Head(todo[s]) = Body(name)[k - N]
        BY <1>7
    <2> QED
        BY <1>2, <1>4, <1>5, <1>7, <2>1, BodyNext
<1> QED
    BY <1>6, <1>7

\* Looking for migrations to run or to revert, and doing that.
LEMMA MigratingOn ==
    ASSUME TypeOK, Programs, NEW s \in Slot, NEW name \in {"migrate", "migrate:revert"},
           NEW k \in Nat, NEW more,
           Served(name, k, more), Step(s), primary' = primary, files' = files,
           \/ /\ more = <<>> /\ k - N \in 1 .. Len(Body(name))
              /\ Head(todo[s]) = Body(name)[k - N]
           \/ more = << Head(todo[s]) >> /\ Head(todo[s]) \in Statement
    PROVE  Advances(s, name, k, more)
<1>1. /\ data \in Databases /\ todo[s] # <<>> /\ N' = N /\ N \in Nat
      /\ name \notin Resetting \cup Syncing \cup Emptying \cup {"schemas"}
      /\ name = "migrate" => Migrated(k, more)
      /\ name = "migrate:revert" => Reverted(k, more)
    BY StepIs, ScriptsKept, EnsureIs
       DEF TypeOK, Served, Emptying, Resetting, Syncing
<1>2. name \in Serving \ {"schemas"}
    BY DEF Serving, Scripts, Rebuilding
<1>3. ASSUME NEW j \in Nat, j >= N + 2, NEW m, name = "migrate" => Migrated(j, m)',
             name = "migrate:revert" => Reverted(j, m)'
      PROVE  Served(name, j, m)'
    BY <1>1, <1>3 DEF Served
<1>4. CASE more = <<>>
    <2>1. /\ k - N = 1 /\ (name = "migrate" => Head(todo[s]) = <<"pending">>)
          /\ (name = "migrate:revert" => Head(todo[s]) = <<"last">>)
        BY <1>2, <1>4, BodyNext
    <2>2. k + 1 = N + 2 /\ k + 1 \in Nat /\ k + 1 >= N + 2
        BY <1>1, <2>1
    <2>3. CASE name = "migrate"
        <3>1. FindPending(s)
            BY <1>1, <2>1, <2>3, StepIs DEF At
        <3>2. PICK f : f = files \ data.record
            OBVIOUS
        <3>3. PICK m : m = IF f = {} THEN <<>> ELSE << <<"migrate", f>> >>
            OBVIOUS
        <3>4. Proceed(s, m) /\ data' = [data EXCEPT !.tables = @ \cup {"migrations"}]
            BY <3>1, <3>2, <3>3 DEF FindPending, Query
        <3>5. data'.record = data.record
            BY <1>1, <3>4 DEF Databases
        <3>6. Migrated(k + 1, m)'
            <4>1. CASE f = {}
                <5>1. m = <<>> /\ files \subseteq data.record
                    BY <3>2, <3>3, <4>1
                <5> QED
                    BY <1>1, <3>5, <5>1 DEF Migrated
            <4>2. CASE f # {}
                <5>1. m = << <<"migrate", f>> >> /\ m # <<>>
                    BY <3>3, <4>2
                <5> QED
                    BY <1>1, <2>2, <3>2, <3>5, <5>1 DEF Migrated
            <4> QED
                BY <4>1, <4>2
        <3>7. Served(name, k + 1, m)'
            BY <1>3, <2>2, <2>3, <3>6
        <3> QED
            BY <1>4, <3>4, <3>7 DEF Advances
    <2>4. CASE name = "migrate:revert"
        <3>1. FindLast(s)
            BY <1>1, <2>1, <2>4, StepIs DEF At
        <3>2. PICK m : Proceed(s, m) /\ (m = <<>> \/ \E x \in data.record : m = << <<"undo", x>> >>)
            BY <3>1 DEF FindLast, Query
        <3>3. Reverted(k + 1, m)'
            <4>1. data.record \subseteq Migrations
                BY <1>1 DEF Databases
            <4> QED
                BY <1>1, <2>2, <3>2, <4>1 DEF Reverted
        <3>4. Served(name, k + 1, m)'
            BY <1>3, <2>2, <2>4, <3>3
        <3> QED
            BY <1>4, <3>2, <3>4 DEF Advances
    <2> QED
        BY <2>3, <2>4
<1>5. CASE more = << Head(todo[s]) >> /\ Head(todo[s]) \in Statement
    <2>1. more # <<>>
        BY <1>5
    <2>2. CASE name = "migrate"
        <3>1. k = N + 2 /\ more = << <<"migrate", files \ data.record>> >>
            BY <1>1, <2>1, <2>2 DEF Migrated
        <3>2. Head(todo[s]) = <<"migrate", files \ data.record>>
            BY <1>5, <3>1
        <3>3. Migrate(s) /\ Arg(s, 2) = files \ data.record
            BY <1>1, <3>2, StepIs DEF At, Arg
        <3>4. /\ Proceed(s, <<>>)
              /\ data' = [data EXCEPT !.tables = @ \cup {"app"},
                                      !.record = @ \cup (files \ data.record)]
            BY <3>3 DEF Migrate, Query
        <3>5. files \subseteq data'.record
            BY <1>1, <3>4 DEF Databases
        <3>6. Migrated(k, <<>>)'
            BY <3>5 DEF Migrated
        <3>7. Served(name, k, <<>>)'
            BY <1>1, <1>3, <2>2, <3>1, <3>6
        <3> QED
            BY <1>5, <3>4, <3>7 DEF Advances
    <2>3. CASE name = "migrate:revert"
        <3>1. PICK m \in Migrations : k = N + 2 /\ more = << <<"undo", m>> >>
            BY <1>1, <2>1, <2>3 DEF Reverted
        <3>2. Head(todo[s]) = <<"undo", m>>
            BY <1>5, <3>1
        <3>3. Undo(s)
            BY <1>1, <3>2, StepIs DEF At
        <3>4. Proceed(s, <<>>) /\ Reverted(k, <<>>)'
            BY <3>3 DEF Undo, Query, Reverted
        <3>5. Served(name, k, <<>>)'
            BY <1>1, <1>3, <2>3, <3>1, <3>4
        <3> QED
            BY <1>5, <3>4, <3>5 DEF Advances
    <2> QED
        BY <2>2, <2>3
<1> QED
    BY <1>4, <1>5

\* Wiping a schema and creating it.
LEMMA ResettingOn ==
    ASSUME TypeOK, Programs, NEW s \in Slot, NEW name \in Resetting, NEW k \in Nat, NEW more,
           Served(name, k, more), Step(s), primary' = primary,
           k - N \in 1 .. Len(Body(name)), Head(todo[s]) = Body(name)[k - N]
    PROVE  Advances(s, name, k, more)
<1>1. /\ data \in Databases /\ todo[s] # <<>> /\ N' = N /\ N \in Nat
      /\ name \notin Emptying \cup Syncing \cup {"migrate", "migrate:revert", "schemas"}
      /\ Wiped(name, k, more) /\ Body(name)' = Body(name) /\ more = <<>>
    <2>1. N' = N /\ N \in Nat /\ Required' = Required
        BY ScriptsKept, EnsureIs
    <2>2. Body(name)' = Body(name)
        BY <2>1 DEF Body, Wipes, Resetting, Syncing
    <2>3. Wiped(name, k, more)
        BY DEF Served
    <2> QED
        BY <2>1, <2>2, <2>3, StepIs DEF TypeOK, Resetting, Syncing, Emptying, Wiped
<1>2. name \in Serving \ {"schemas"}
    BY DEF Serving, Scripts, Rebuilding, Resetting
<1>3. PICK x \in RequiredSet : \/ Body(name)[k - N] = <<"wipe", x>>
                               \/ Body(name)[k - N] = <<"schema", x>>
    BY <1>2, BodyNext
<1>4. /\ Proceed(s, <<>>) /\ data'.tables \subseteq data.tables
      /\ Head(todo[s]) = <<"wipe", x>> => data'.tables \cap TablesIn(x) = {}
    <2>1. CASE Head(todo[s]) = <<"wipe", x>>
        <3>1. WipeSchema(s) /\ Arg(s, 2) = x
            BY <1>1, <2>1, StepIs DEF At, Arg
        <3>2. /\ Proceed(s, <<>>)
              /\ data' = [Without(data, TablesIn(x)) EXCEPT
                             !.schemas = @ \ {x},
                             !.object = [a \in Asset |-> IF Home(a) = x THEN 0 ELSE @[a]]]
            BY <3>1 DEF WipeSchema, Query
        <3>3. data'.tables = data.tables \ TablesIn(x)
            BY <1>1, <3>2 DEF Databases, Without
        <3> QED
            BY <3>2, <3>3
    <2>2. CASE Head(todo[s]) = <<"schema", x>>
        <3>1. CreateSchema(s)
            BY <1>1, <2>2, StepIs DEF At
        <3>2. Proceed(s, <<>>) /\ data' = [data EXCEPT !.schemas = @ \cup {Arg(s, 2)}]
            BY <3>1 DEF CreateSchema, Query
        <3> QED
            BY <1>1, <2>2, <3>2 DEF Databases
    <2> QED
        BY <1>3, <2>1, <2>2
<1>5. ASSUME NEW i \in 1 .. Len(Body(name)), NEW y \in RequiredSet, N + 1 + i <= k + 1,
             Body(name)[i] = <<"wipe", y>>
      PROVE  data'.tables \cap TablesIn(y) = {}
    <2>1. CASE N + 1 + i <= k
        <3>1. data.tables \cap TablesIn(y) = {}
            BY <1>1, <1>5, <2>1 DEF Wiped
        <3> QED
            BY <1>4, <3>1
    <2>2. CASE ~(N + 1 + i <= k)
        <3>1. i = k - N
            BY <1>1, <1>5, <2>2
        <3>2. x = y
            BY <1>3, <1>5, <3>1
        <3> QED
            BY <1>4, <1>5, <3>1, <3>2
    <2> QED
        BY <2>1, <2>2
<1>6. RequiredSet' = RequiredSet /\ \A y \in RequiredSet : TablesIn(y)' = TablesIn(y)
    BY ScriptsKept DEF TablesIn
<1>7. Wiped(name, k + 1, <<>>)'
    BY <1>1, <1>5, <1>6 DEF Wiped
<1>8. Served(name, k + 1, <<>>)'
    BY <1>1, <1>7 DEF Served
<1> QED
    BY <1>1, <1>4, <1>8 DEF Advances

\* Comparing an asset with the registry, running it and registering it.
LEMMA SyncingOn ==
    ASSUME TypeOK, Programs, NEW s \in Slot, NEW name \in Syncing, NEW k \in Nat, NEW more,
           Served(name, k, more), Step(s), primary' = primary, source' = source,
           \/ /\ more = <<>> /\ k - N \in 1 .. Len(Body(name))
              /\ Head(todo[s]) = Body(name)[k - N]
           \/ \E x \in Statement : more = << x >> /\ Head(todo[s]) = x
           \/ \E x \in Statement, y \in Statement : more = << x, y >> /\ Head(todo[s]) = x
    PROVE  Advances(s, name, k, more)
<1> DEFINE force == name = "sql-assets:force"
<1>1. /\ data \in Databases /\ todo[s] # <<>> /\ N' = N /\ N \in Nat
      /\ name \notin Emptying \cup Resetting \cup {"migrate", "migrate:revert", "schemas"}
      /\ Synced(name, k, more) /\ source \in [Asset -> Versions] /\ Len(Assets) \in Nat
      /\ force \in BOOLEAN
    BY StepIs, ScriptsKept, EnsureIs, SyncIs
       DEF TypeOK, Served, Emptying, Resetting, Syncing
<1>2. name \in Serving \ {"schemas"}
    BY DEF Serving, Scripts, Rebuilding, Syncing
<1>3. ASSUME NEW j \in Nat, j >= N + 2, NEW m, Synced(name, j, m)'
      PROVE  Served(name, j, m)'
    BY <1>1, <1>3 DEF Served
<1> HIDE DEF force
\* The assets that were done stay so.
<1>4. ASSUME NEW i \in 1 .. Len(Assets), N + 2 + i < k \/ (N + 2 + i = k /\ more = <<>>)
      PROVE  Current(Assets[i], force)
    BY <1>1, <1>4 DEF Synced, force
<1>5. CASE more = <<>> /\ k - N = 1 /\ Head(todo[s]) = <<"registry">>
    <2>1. EnsureRegistryTable(s)
        BY <1>1, <1>5, StepIs DEF At
    <2>2. Proceed(s, <<>>) /\ k + 1 = N + 2 /\ k + 1 \in Nat
        BY <1>1, <1>5, <2>1 DEF EnsureRegistryTable, Query
    <2>3. Synced(name, k + 1, <<>>)'
        BY <1>1, <2>2 DEF Synced
    <2>4. Served(name, k + 1, <<>>)'
        BY <1>1, <1>3, <2>2, <2>3
    <2> QED
        BY <1>5, <2>2, <2>4 DEF Advances
<1>6. ASSUME more = <<>>, NEW i \in 1 .. Len(Assets), k - N = i + 1, Assets[i] \in Asset,
             Head(todo[s]) = <<"asset", Assets[i], force>>
      PROVE  Advances(s, name, k, more)
    <2>1. CheckAsset(s) /\ Arg(s, 2) = Assets[i] /\ Arg(s, 3) = force
        BY <1>1, <1>6, StepIs DEF At, Arg
    <2>2. PICK a \in Asset : a = Assets[i]
        BY <1>6
    <2>3. PICK v \in Versions : v = source[a]
        BY <1>1
    <2>4. PICK m :
              /\ Proceed(s, m)
              /\ \/ m = <<>> /\ ~(force \/ data.registry[a] # v)
                 \/ m = << <<"run", a, v>>, <<"register", a, v>> >>
                 \/ m = << <<"runAndRegister", a, v>> >>
        BY <2>1, <2>2, <2>3 DEF CheckAsset, Query
    <2>5. data' = data
        BY <2>1 DEF CheckAsset
    <2>6. k + 1 = N + 2 + i /\ k + 1 \in Nat /\ k + 1 >= N + 2
        BY <1>1, <1>6
    <2>7. ASSUME NEW j \in 1 .. Len(Assets),
                 N + 2 + j < k + 1 \/ (N + 2 + j = k + 1 /\ m = <<>>)
          PROVE  Current(Assets[j], force)
        <3>1. CASE N + 2 + j < k + 1
            <4>1. N + 2 + j < k \/ (N + 2 + j = k /\ more = <<>>)
                BY <1>1, <1>6, <3>1
            <4> QED
                BY <1>4, <4>1
        <3>2. CASE N + 2 + j = k + 1 /\ m = <<>>
            <4>1. j = i
                BY <1>1, <2>6, <3>2
            <4>2. ~force /\ data.registry[a] = v
                BY <2>4, <3>2
            <4> QED
                BY <2>2, <2>3, <4>1, <4>2 DEF Current
        <3> QED
            BY <2>7, <3>1, <3>2
    <2>8. Synced(name, k + 1, m)'
        <3>1. m # <<>> =>
                 \E j \in 1 .. Len(Assets), b \in Asset, w \in Versions :
                    /\ k + 1 = N + 2 + j /\ b = Assets[j] /\ w = source[b]
                    /\ \/ m = << <<"run", b, w>>, <<"register", b, w>> >>
                       \/ m = << <<"register", b, w>> >> /\ data.object[b] = w
                       \/ m = << <<"runAndRegister", b, w>> >>
            BY <2>2, <2>3, <2>4, <2>6
        <3>2. \A j \in 1 .. Len(Assets) : Current(Assets[j], force)' = Current(Assets[j], force)
            BY <2>5 DEF Current
        <3> QED
            BY <1>1, <2>5, <2>7, <3>1, <3>2 DEF Synced, force
    <2>9. Served(name, k + 1, m)'
        BY <1>3, <2>6, <2>8
    <2> QED
        BY <1>6, <2>4, <2>9 DEF Advances
<1>7. ASSUME more # <<>>
      PROVE  Advances(s, name, k, more)
    <2>1. PICK i \in 1 .. Len(Assets), a \in Asset, v \in Versions :
              /\ k = N + 2 + i /\ a = Assets[i] /\ v = source[a]
              /\ \/ more = << <<"run", a, v>>, <<"register", a, v>> >>
                 \/ more = << <<"register", a, v>> >> /\ data.object[a] = v
                 \/ more = << <<"runAndRegister", a, v>> >>
        BY <1>1, <1>7 DEF Synced
    <2>2. k >= N + 2 /\ \A j \in 1 .. Len(Assets) : N + 2 + j = k => j = i
        BY <1>1, <2>1
    <2>3. /\ <<"run", a, v>> \in Statement /\ <<"register", a, v>> \in Statement
          /\ <<"runAndRegister", a, v>> \in Statement
        BY DEF Statement, Install
    <2>4. CASE more = << <<"run", a, v>>, <<"register", a, v>> >>
        <3> DEFINE y == <<"register", a, v>>
        <3>1. Head(todo[s]) = <<"run", a, v>>
            BY <1>7, <2>4
        <3>2. RunAsset(s) /\ Arg(s, 2) = a /\ Arg(s, 3) = v
            BY <1>1, <3>1, StepIs DEF At, Arg
        <3>3. Proceed(s, <<>>) /\ data' = [data EXCEPT !.object[a] = v]
            BY <3>2 DEF RunAsset, Query
        <3>4. /\ data'.registry = data.registry /\ data'.object[a] = v
              /\ \A b \in Asset : b # a => data'.object[b] = data.object[b]
            BY <1>1, <3>3 DEF Databases
        <3>5. ASSUME NEW j \in 1 .. Len(Assets), N + 2 + j < k
              PROVE  Current(Assets[j], force)'
            <4>1. Current(Assets[j], force) /\ Assets[j] \in Asset
                BY <1>4, <3>5, SyncIs
            <4> QED
                BY <2>1, <3>4, <4>1 DEF Current
        <3>6. \A j \in 1 .. Len(Assets) :
                 N + 2 + j < k \/ (N + 2 + j = k /\ << y >> = <<>>) => Current(Assets[j], force)'
            BY <3>5
        <3>7. Synced(name, k, << y >>)'
            BY <1>1, <2>1, <3>4, <3>6 DEF Synced, force
        <3>8. Served(name, k, << y >>)'
            BY <1>3, <2>2, <3>7
        <3> QED
            BY <2>3, <2>4, <3>3, <3>8 DEF Advances
    <2>5. CASE more = << <<"register", a, v>> >> /\ data.object[a] = v
        <3>1. Head(todo[s]) = <<"register", a, v>>
            BY <1>7, <2>5
        <3>2. UpsertRegistry(s) /\ Arg(s, 2) = a /\ Arg(s, 3) = v
            BY <1>1, <3>1, StepIs DEF At, Arg
        <3>3. Proceed(s, <<>>) /\ data' = [data EXCEPT !.registry[a] = v]
            BY <3>2 DEF UpsertRegistry, Query
        <3>4. /\ data'.object = data.object /\ data'.registry[a] = v
              /\ \A b \in Asset : b # a => data'.registry[b] = data.registry[b]
            BY <1>1, <3>3 DEF Databases
        <3>5. ASSUME NEW j \in 1 .. Len(Assets), N + 2 + j < k \/ N + 2 + j = k
              PROVE  Current(Assets[j], force)'
            <4>1. CASE N + 2 + j = k
                BY <2>1, <2>2, <2>5, <3>4, <4>1 DEF Current
            <4>2. CASE N + 2 + j < k
                <5>1. Current(Assets[j], force) /\ Assets[j] \in Asset
                    BY <1>4, <4>2, SyncIs
                <5> QED
                    BY <2>1, <3>4, <5>1 DEF Current
            <4> QED
                BY <3>5, <4>1, <4>2
        <3>6. Synced(name, k, <<>>)'
            BY <1>1, <3>5 DEF Synced, force
        <3>7. Served(name, k, <<>>)'
            BY <1>3, <2>2, <3>6
        <3> QED
            BY <2>3, <2>5, <3>3, <3>7 DEF Advances
    <2>6. CASE more = << <<"runAndRegister", a, v>> >>
        <3>1. Head(todo[s]) = <<"runAndRegister", a, v>>
            BY <1>7, <2>6
        <3>2. RunAndRegister(s) /\ Arg(s, 2) = a /\ Arg(s, 3) = v
            BY <1>1, <3>1, StepIs DEF At, Arg
        <3>3. Proceed(s, <<>>) /\ data' = [data EXCEPT !.object[a] = v, !.registry[a] = v]
            BY <3>2 DEF RunAndRegister, Query
        <3>4. /\ data'.object[a] = v /\ data'.registry[a] = v
              /\ \A b \in Asset : b # a => /\ data'.registry[b] = data.registry[b]
                                            /\ data'.object[b] = data.object[b]
            BY <1>1, <3>3 DEF Databases
        <3>5. ASSUME NEW j \in 1 .. Len(Assets), N + 2 + j < k \/ N + 2 + j = k
              PROVE  Current(Assets[j], force)'
            <4>1. CASE N + 2 + j = k
                BY <2>1, <2>2, <3>4, <4>1 DEF Current
            <4>2. CASE N + 2 + j < k
                <5>1. Current(Assets[j], force) /\ Assets[j] \in Asset
                    BY <1>4, <4>2, SyncIs
                <5> QED
                    BY <2>1, <3>4, <5>1 DEF Current
            <4> QED
                BY <3>5, <4>1, <4>2
        <3>6. Synced(name, k, <<>>)'
            BY <1>1, <3>5 DEF Synced, force
        <3>7. Served(name, k, <<>>)'
            BY <1>3, <2>2, <3>6
        <3> QED
            BY <2>3, <2>6, <3>3, <3>7 DEF Advances
    <2> QED
        BY <2>1, <2>4, <2>5, <2>6
<1>8. CASE more = <<>>
    <2> DEFINE n == k - N
    <2>1. n \in 1 .. Len(Body(name)) /\ Head(todo[s]) = Body(name)[n]
        BY <1>8
    <2>2. \/ n = 1 /\ Body(name)[n] = <<"registry">>
          \/ /\ n - 1 \in 1 .. Len(Assets) /\ Assets[n - 1] \in Asset
             /\ Body(name)[n] = <<"asset", Assets[n - 1], force>>
        BY <1>2, <2>1, BodyNext DEF force
    <2>3. k - N = n - 1 + 1
        BY <1>1
    <2> QED
        BY <1>5, <1>6, <1>8, <2>1, <2>2, <2>3
<1> QED
    BY <1>7, <1>8

\* Undisturbed, such a script does its part with each statement too.
LEMMA ServesOn ==
    ASSUME TypeOK, Programs, Recorded, NEW s \in Slot, NEW name \in Serving, NEW k, NEW more,
           Serves(s, name, k, more), Step(s)
    PROVE  \E l, m : Serves(s, name, l, m)'
<1>1. /\ todo[s] # <<>> /\ todo \in [Slot -> Seq(Statement)] /\ name \in Scripts
      /\ Made(name, k) /\ Served(name, k, more)
    BY StepIs DEF Programs, Serving, Serves
<1> DEFINE p == Steps(name)
           L == Len(p)
<1>2. /\ k \in Nat /\ N \in Nat /\ L \in Nat /\ k <= L
      /\ more = <<>> =>
            /\ k \in 0 .. L - 1 /\ Head(todo[s]) = p[k + 1]
            /\ \A m : Proceed(s, m) => todo'[s] = m \o Left(p, k + 1, L)
      /\ \A x \in Statement : more = << x >> =>
            /\ Head(todo[s]) = x
            /\ Proceed(s, <<>>) => todo'[s] = <<>> \o Left(p, k, L)
      /\ \A x \in Statement, y \in Statement : more = << x, y >> =>
            /\ Head(todo[s]) = x
            /\ Proceed(s, <<>>) => todo'[s] = << y >> \o Left(p, k, L)
    BY <1>1, ServesNext
\* What is inserted, by the group.
<1>3. more # <<>> =>
          /\ name # "schemas" /\ k >= N + 2
          /\ \/ \E x \in Statement : more = << x >>
             \/ \E x \in Statement, y \in Statement : more = << x, y >> /\ x[1] = "run"
          /\ \A x \in Statement, y \in Statement :
                more = << x >> \/ more = << x, y >> =>
                    x[1] \in {"truncate", "migrate", "undo", "run", "register", "runAndRegister"}
    <2> SUFFICES ASSUME more # <<>>
                 PROVE  /\ name # "schemas" /\ k >= N + 2
                        /\ \/ \E x \in Statement : more = << x >>
                           \/ \E x \in Statement, y \in Statement : more = << x, y >> /\ x[1] = "run"
                        /\ \A x \in Statement, y \in Statement :
                              more = << x >> \/ more = << x, y >> =>
                                  x[1] \in {"truncate", "migrate", "undo", "run", "register",
                                            "runAndRegister"}
        OBVIOUS
    <2>1. name # "schemas" /\ k >= N + 2
        BY <1>1, <1>2 DEF Served
    <2>2. CASE name \in Emptying
        <3>1. Emptied(name, k, more)
            BY <1>1, <2>2 DEF Served
        <3>2. PICK found \in SUBSET Table :
                  more = << <<"truncate", found, name = "truncate:with-migrations">> >>
            BY <3>1 DEF Emptied
        <3>3. PICK all \in BOOLEAN : all = (name = "truncate:with-migrations")
            OBVIOUS
        <3>4. PICK x : x = <<"truncate", found, all>>
            OBVIOUS
        <3>5. x \in Statement /\ x[1] = "truncate" /\ more = << x >>
            BY <3>2, <3>3, <3>4 DEF Statement, Fixed
        <3> QED
            BY <2>1, <3>5
    <2>3. CASE name = "migrate"
        <3>1. Migrated(k, more)
            BY <1>1, <2>3 DEF Served
        <3>2. PICK x : x = <<"migrate", files \ data.record>>
            OBVIOUS
        <3>3. more = << x >> /\ x[1] = "migrate"
            BY <3>1, <3>2 DEF Migrated
        <3>4. x \in Statement
            BY <3>2 DEF Statement, Fixed, TypeOK
        <3> QED
            BY <2>1, <3>3, <3>4
    <2>4. CASE name = "migrate:revert"
        <3>1. Reverted(k, more)
            BY <1>1, <2>4 DEF Served
        <3>2. PICK m \in Migrations : more = << <<"undo", m>> >>
            BY <3>1 DEF Reverted
        <3>3. <<"undo", m>> \in Statement
            BY DEF Statement, Fixed
        <3> QED
            BY <2>1, <3>2, <3>3
    <2>5. CASE name \in Resetting
        BY <1>1, <2>5 DEF Served, Wiped
    <2>6. CASE name \in Syncing
        <3>1. Synced(name, k, more)
            BY <1>1, <2>6 DEF Served
        <3>2. PICK a \in Asset, v \in Versions :
                  \/ more = << <<"run", a, v>>, <<"register", a, v>> >>
                  \/ more = << <<"register", a, v>> >>
                  \/ more = << <<"runAndRegister", a, v>> >>
            BY <3>1 DEF Synced
        <3>3. PICK x, y, z : x = <<"run", a, v>> /\ y = <<"register", a, v>>
                             /\ z = <<"runAndRegister", a, v>>
            OBVIOUS
        <3>4. /\ x \in Statement /\ y \in Statement /\ z \in Statement
              /\ x[1] = "run" /\ y[1] = "register" /\ z[1] = "runAndRegister"
            BY <3>3 DEF Statement, Install
        <3>5. more = << x, y >> \/ more = << y >> \/ more = << z >>
            BY <3>2, <3>3
        <3> HIDE DEF p, L
        <3>6. \A c \in Statement, d \in Statement :
                  more = << c >> \/ more = << c, d >> => c \in {x, y, z}
            BY <3>5
        <3> QED
            BY <2>1, <3>4, <3>5, <3>6
    <2> QED
        BY <2>1, <2>2, <2>3, <2>4, <2>5, <2>6, Groups
<1>4. more = <<>> \/ (\E x \in Statement : more = << x >>)
      \/ \E x \in Statement, y \in Statement : more = << x, y >>
    BY <1>3
<1> HIDE DEF p, L
<1>5. Head(todo[s])[1] \notin {"drop", "create", "files", "generate"}
    <2>1. CASE more # <<>>
        <3>1. Head(todo[s])[1] \in {"truncate", "migrate", "undo", "run", "register", "runAndRegister"}
            BY <1>2, <1>3, <2>1
        <3> QED
            BY <3>1
    <2>2. CASE more = <<>>
        <3>1. /\ k \in 0 .. Len(Steps(name)) - 1 /\ Head(todo[s]) = Steps(name)[k + 1]
            BY <1>2, <2>2 DEF p, L
        <3>2. CASE Steps(name)[k + 1] = <<"schema", Required[k + 1]>>
            BY <3>1, <3>2
        <3>3. CASE Steps(name)[k + 1] = <<"close">>
            BY <3>1, <3>3
        <3>4. CASE name # "schemas" /\ k - N \in 1 .. Len(Body(name))
                   /\ Steps(name)[k + 1] = Body(name)[k - N]
            <4> DEFINE b == Body(name)[k - N]
            <4>1. \/ b[1] = "list" \/ b[1] = "seed" \/ b[1] = "pending" \/ b[1] = "last"
                  \/ b[1] = "wipe" \/ b[1] = "schema" \/ b[1] = "registry" \/ b[1] = "asset"
                BY <3>4, BodyNext, Groups
            <4> QED
                BY <3>1, <3>4, <4>1
        <3> QED
            BY <3>1, <3>2, <3>3, <3>4, ServingNext
    <2> QED
        BY <2>1, <2>2
<1>6. /\ primary' = primary /\ source' = source /\ db' = db /\ files' = files
      /\ \A x \in RequiredSet :
            x \in data.schemas => x \in data'.schemas \/ Head(todo[s]) = <<"wipe", x>>
      /\ \A x \in RequiredSet : Head(todo[s]) = <<"schema", x>> => x \in data'.schemas
      /\ Head(todo[s])[1] \notin {"schema", "wipe", "registry"} => data'.schemas = data.schemas
    BY <1>5, SchemasOn
<1>7. p' = p /\ L' = L /\ N' = N
    BY <1>1, <1>6, ScriptsKept DEF p, L
<1>8. more = <<>> => Made(name, k + 1)'
    <2> SUFFICES ASSUME more = <<>>
                 PROVE  Made(name, k + 1)'
        OBVIOUS
    <2>1. k \in 0 .. Len(Steps(name)) - 1 /\ Head(todo[s]) = Steps(name)[k + 1]
        BY <1>2 DEF p, L
    <2>2. \A x \in RequiredSet :
              x \in data.schemas \/ Steps(name)[k + 1] = <<"schema", x>> =>
                  x \in data'.schemas \/ Steps(name)[k + 1] = <<"wipe", x>>
        BY <1>6, <2>1
    <2> QED
        BY <1>1, <1>6, <2>1, <2>2, MadeNext
<1>9. more # <<>> => Made(name, k)'
    <2> SUFFICES ASSUME more # <<>>
                 PROVE  Made(name, k)'
        OBVIOUS
    <2>1. Head(todo[s])[1] \in {"truncate", "migrate", "undo", "run", "register", "runAndRegister"}
        BY <1>2, <1>3
    <2>2. data'.schemas = data.schemas
        BY <1>6, <2>1
    <2> QED
        BY <1>1, <1>2, <1>6, <2>2, MadeKept
<1>10. Advances(s, name, k, more)
    <2>1. CASE more = <<>> /\ Head(todo[s]) = <<"schema", Required[k + 1]>> /\ k < N
        <3>1. Proceed(s, <<>>)
            BY <1>1, <2>1, StepIs DEF At, CreateSchema, Query
        <3>2. Served(name, k + 1, <<>>)'
            BY <1>2, <1>7, <2>1 DEF Served, Emptied, Migrated, Reverted, Wiped, Synced
        <3> QED
            BY <2>1, <3>1, <3>2 DEF Advances
    <2>2. CASE more = <<>> /\ Head(todo[s]) = <<"close">> /\ k = N
        <3>1. Proceed(s, <<>>)
            BY <1>1, <2>2, StepIs DEF At, Close
        <3>2. Served(name, k + 1, <<>>)'
            BY <1>2, <1>7, <2>2 DEF Served, Emptied, Migrated, Reverted, Wiped, Synced
        <3> QED
            BY <2>2, <3>1, <3>2 DEF Advances
    <2>3. CASE /\ more = <<>> /\ Head(todo[s]) = <<"close">> /\ name # "schemas"
               /\ k = N + 1 + Len(Body(name))
        <3>1. Proceed(s, <<>>) /\ data' = data
            BY <1>1, <2>3, StepIs DEF At, Close
        <3>2. Body(name)' = Body(name) /\ RequiredSet' = RequiredSet
            BY <1>6, ScriptsKept DEF Body, Wipes
        <3>3. Len(Body(name)) \in Nat /\ k \in Nat /\ k + 1 \in Nat
            BY <1>2, <2>3, BodyIs
        <3>4. name \in Emptying => Emptied(name, k + 1, <<>>)'
            <4> SUFFICES ASSUME name \in Emptying
                         PROVE  Emptied(name, k + 1, <<>>)'
                OBVIOUS
            <4>1. Emptied(name, k, <<>>) /\ Len(Body(name)) = IF name = "seed" THEN 2 ELSE 1
                BY <1>1, <2>3, BodyIs DEF Served
            <4>2. k = IF name = "seed" THEN N + 3 ELSE N + 2
                BY <1>2, <2>3, <4>1
            <4>3. k >= N + 2 /\ (name = "seed" => k >= N + 3 /\ k + 1 >= N + 3)
                BY <1>2, <4>2
            <4> QED
                BY <1>7, <3>1, <4>1, <4>3 DEF Emptied
        <3>5. name = "migrate" => Migrated(k + 1, <<>>)'
            <4> SUFFICES ASSUME name = "migrate"
                         PROVE  Migrated(k + 1, <<>>)'
                OBVIOUS
            <4>1. Migrated(k, <<>>) /\ Len(Body(name)) = 1
                BY <1>1, <2>3, BodyIs DEF Served
            <4>3. k = N + 1 + 1 /\ N \in Nat
                BY <1>2, <2>3, <4>1
            <4>2. k >= N + 2
                BY <4>3
            <4> QED
                BY <1>6, <3>1, <4>1, <4>2 DEF Migrated
        <3>6. name \in Resetting => Wiped(name, k + 1, <<>>)'
            <4> SUFFICES ASSUME name \in Resetting
                         PROVE  Wiped(name, k + 1, <<>>)'
                OBVIOUS
            <4>1. Wiped(name, k, <<>>)
                BY <1>1, <2>3 DEF Served
            <4>2. \A i \in 1 .. Len(Body(name)) : N + 1 + i <= k
                BY <1>2, <2>3, <3>3
            <4>3. \A y \in RequiredSet : TablesIn(y)' = TablesIn(y)
                BY <1>6 DEF TablesIn
            <4>4. \A i \in 1 .. Len(Body(name)), x \in RequiredSet :
                     Body(name)[i] = <<"wipe", x>> => data.tables \cap TablesIn(x) = {}
                BY <4>1, <4>2 DEF Wiped
            <4> QED
                BY <3>1, <3>2, <4>3, <4>4 DEF Wiped
        <3>7. name \in Syncing => Synced(name, k + 1, <<>>)'
            <4> SUFFICES ASSUME name \in Syncing
                         PROVE  Synced(name, k + 1, <<>>)'
                OBVIOUS
            <4>1. Synced(name, k, <<>>) /\ Len(Body(name)) = 1 + Len(Assets) /\ Len(Assets) \in Nat
                BY <1>1, <2>3, SyncIs DEF Served
            <4>5. k = N + 1 + (1 + Len(Assets)) /\ N \in Nat
                BY <1>2, <2>3, <4>1
            <4>2. \A i \in 1 .. Len(Assets) : N + 2 + i < k \/ N + 2 + i = k
                BY <4>1, <4>5
            <4>3. \A i \in 1 .. Len(Assets) : Current(Assets[i], name = "sql-assets:force")
                BY <4>1, <4>2 DEF Synced
            <4>4. \A i \in 1 .. Len(Assets) : Current(Assets[i], name = "sql-assets:force")'
                BY <1>6, <3>1, <4>3 DEF Current
            <4> QED
                BY <4>4 DEF Synced
        <3>8. name = "migrate:revert" => Reverted(k + 1, <<>>)'
            BY DEF Reverted
        <3>9. Served(name, k + 1, <<>>)'
            BY <3>4, <3>5, <3>6, <3>7, <3>8 DEF Served
        <3> QED
            BY <2>3, <3>1, <3>9 DEF Advances
    <2>4. CASE name # "schemas" /\ (more # <<>> \/ (/\ k - N \in 1 .. Len(Body(name))
                                                    /\ Head(todo[s]) = Body(name)[k - N]))
        <3>1. more = <<>> => k - N \in 1 .. Len(Body(name)) /\ Head(todo[s]) = Body(name)[k - N]
            BY <2>4
        <3>2. CASE name \in Emptying
            <4>1. more = <<>> \/ (more = << Head(todo[s]) >> /\ Head(todo[s]) \in Statement)
                <5>1. more # <<>> => \E x : more = << x >>
                    BY <1>1, <3>2 DEF Served, Emptied
                <5>2. \A x, y, z : << x >> # << y, z >>
                    OBVIOUS
                <5>3. ASSUME more # <<>>
                      PROVE  more = << Head(todo[s]) >> /\ Head(todo[s]) \in Statement
                    <6>1. PICK x : more = << x >>
                        BY <5>1, <5>3
                    <6>2. \A y \in Statement, z \in Statement : more # << y, z >>
                        BY <5>2, <6>1
                    <6>3. PICK y \in Statement : more = << y >>
                        BY <1>4, <5>3, <6>2
                    <6>4. Head(todo[s]) = y
                        BY <1>2, <6>3
                    <6> QED
                        BY <6>3, <6>4
                <5> QED
                    BY <5>3
            <4> QED
                BY <1>1, <1>2, <1>6, <3>1, <3>2, <4>1, EmptyingOn
        <3>3. CASE name \in {"migrate", "migrate:revert"}
            <4>1. more = <<>> \/ (more = << Head(todo[s]) >> /\ Head(todo[s]) \in Statement)
                <5>1. more # <<>> => \E x : more = << x >>
                    BY <1>1, <3>3 DEF Served, Migrated, Reverted
                <5>2. \A x, y, z : << x >> # << y, z >>
                    OBVIOUS
                <5>3. ASSUME more # <<>>
                      PROVE  more = << Head(todo[s]) >> /\ Head(todo[s]) \in Statement
                    <6>1. PICK x : more = << x >>
                        BY <5>1, <5>3
                    <6>2. \A y \in Statement, z \in Statement : more # << y, z >>
                        BY <5>2, <6>1
                    <6>3. PICK y \in Statement : more = << y >>
                        BY <1>4, <5>3, <6>2
                    <6>4. Head(todo[s]) = y
                        BY <1>2, <6>3
                    <6> QED
                        BY <6>3, <6>4
                <5> QED
                    BY <5>3
            <4> QED
                BY <1>1, <1>2, <1>6, <3>1, <3>3, <4>1, MigratingOn
        <3>4. CASE name \in Resetting
            <4>1. more = <<>>
                BY <1>1, <3>4 DEF Served, Wiped
            <4> QED
                BY <1>1, <1>2, <1>6, <3>1, <3>4, <4>1, ResettingOn
        <3>5. CASE name \in Syncing
            <4>1. \/ more = <<>>
                  \/ \E x \in Statement : more = << x >> /\ Head(todo[s]) = x
                  \/ \E x \in Statement, y \in Statement : more = << x, y >> /\ Head(todo[s]) = x
                BY <1>2, <1>4
            <4> QED
                BY <1>1, <1>2, <1>6, <3>1, <3>5, <4>1, SyncingOn
        <3> QED
            BY <2>4, <3>2, <3>3, <3>4, <3>5, Groups
    <2>5. CASE more = <<>>
        <3>1. k \in 0 .. Len(Steps(name)) - 1 /\ Head(todo[s]) = Steps(name)[k + 1]
            BY <1>2, <2>5 DEF p, L
        <3> QED
            BY <2>1, <2>2, <2>3, <2>4, <2>5, <3>1, ServingNext
    <2>6. CASE more # <<>>
        BY <1>3, <2>4, <2>6
    <2> QED
        BY <2>5, <2>6
<1>11. CASE more = <<>>
    <2>1. PICK m : Proceed(s, m) /\ Served(name, k + 1, m)'
        BY <1>10, <1>11 DEF Advances
    <2>2. k + 1 \in 0 .. L /\ todo'[s] = m \o Left(p, k + 1, L)
        BY <1>2, <1>11, <2>1
    <2>3. Serves(s, name, k + 1, m)'
        BY <1>7, <1>8, <1>11, <2>1, <2>2 DEF Serves, p, L, Left
    <2> QED
        BY <2>3
<1>12. CASE more # <<>>
    <2>1. PICK m : /\ Served(name, k, m)'
                   /\ todo'[s] = m \o Left(p, k, L)
        BY <1>2, <1>10, <1>12 DEF Advances
    <2>2. k \in 0 .. L
        BY <1>2
    <2>3. Serves(s, name, k, m)'
        BY <1>7, <1>9, <1>12, <2>1, <2>2 DEF Serves, p, L, Left
    <2> QED
        BY <2>3
<1> QED
    BY <1>11, <1>12

-----------------------------------------------------------------------------
(* What a script that nobody disturbed has done in the end.                *)

\* A script that drops or creates the database has done so.
LEMMA RebuildsEnd ==
    ASSUME NEW s \in Slot, NEW name \in Rebuilding, NEW k, NEW more,
           Rebuilds(s, name, k, more)', primary' = primary, todo'[s] = <<>>
    PROVE  Achieved(name)'
<1>1. /\ Required' = Required /\ RequiredSet' = RequiredSet /\ N' = N /\ FreshScript' = FreshScript
      /\ Begin(name)' = Begin(name) /\ End(name)' = End(name)
    BY ScriptsKept
<1>2. /\ End(name) \in Nat /\ Begin(name) \in Nat /\ N \in Nat /\ End(name) <= Len(FreshScript)
      /\ FreshScript \in Seq(Fixed) /\ Len(FreshScript) = 11 + 3 * N
    BY RebuildIs, EnsureIs, FreshIs
<1>3. /\ k \in Begin(name) .. End(name) /\ <<>> = more \o Left(FreshScript, k, End(name))
      /\ Inserts(k, more)' /\ Rebuilt(s, name, k, more)'
    BY <1>1 DEF Rebuilds, Left
<1>4. k \in Nat /\ k <= End(name)
    BY <1>2, <1>3
<1>5. more = <<>>
    <2> DEFINE S == {more[1]} \cup Fixed
               q == Left(FreshScript, k, End(name))
    <2>1. more # <<>> => more = << more[1] >>
        BY <1>3 DEF Inserts
    <2>2. FreshScript \in Seq(S)
        BY <1>2, SeqMonotonic
    <2>3. k \in 0 .. End(name) /\ End(name) \in 0 .. Len(FreshScript)
        BY <1>2, <1>4
    <2> HIDE DEF S
    <2>4. q \in Seq(S)
        BY <2>2, <2>3, LeftIs
    <2>5. more[1] \in S
        BY DEF S
    <2> HIDE DEF q
    <2>6. << more[1] >> \o q # <<>>
        BY <2>4, <2>5, Comes
    <2> QED
        BY <1>3, <2>1, <2>6 DEF q
<1>6. k = End(name)
    <2>1. FreshScript \in Seq(Fixed) /\ k \in Nat /\ End(name) \in Nat /\ k <= End(name)
          /\ End(name) <= Len(FreshScript)
        BY <1>2, <1>4
    <2>2. <<>> \o Left(FreshScript, k, End(name)) = <<>>
        BY <1>3, <1>5
    <2> QED
        BY <2>1, <2>2, Finishes
<1>7. CASE name = "drop"
    <2>1. k = 3 /\ ~db'
        BY <1>3, <1>5, <1>6, <1>7 DEF End, Rebuilt
    <2> QED
        BY <1>7, <2>1 DEF Achieved
<1>8. CASE name # "drop"
    <2>1. k >= 5 + N /\ k >= 4 /\ \A i \in 1 .. N : 4 + i <= k
        BY <1>2, <1>6, <1>8 DEF End, Rebuilding
    <2>2. db' /\ \A i \in 1 .. N : Required[i] \in data'.schemas
        BY <1>1, <1>3, <1>5, <2>1 DEF Rebuilt
    <2>3. Ready'
        BY <1>1, <2>2, EnsureIs DEF Ready
    <2>4. CASE name = "create"
        BY <2>3, <2>4 DEF Achieved
    <2>5. CASE name = "reset"
        <3>1. k >= 4 /\ k <= 9 + 3 * N
            BY <1>2, <1>6, <2>5 DEF End
        <3>2. data'.tables = {}
            BY <1>1, <1>3, <1>5, <2>5, <3>1 DEF Rebuilt
        <3> QED
            BY <2>3, <2>5, <3>2 DEF Achieved
    <2>6. CASE name = "fresh"
        <3>1. k >= 10 + 3 * N /\ k >= 7 + 2 * N
            BY <1>2, <1>6, <2>6 DEF End
        <3>2. /\ "app" \in data'.tables /\ data'.rows = {} /\ data'.record = files'
              /\ Cardinality(files') = 1
            BY <1>1, <1>3, <1>5, <2>6, <3>1 DEF Rebuilt
        <3> QED
            BY <2>3, <2>6, <3>2 DEF Achieved
    <2> QED
        BY <1>8, <2>4, <2>5, <2>6 DEF Rebuilding
<1> QED
    BY <1>7, <1>8

\* A script on the data source has done what it is for.
LEMMA ServesEnd ==
    ASSUME IInv', NEW s \in Slot, NEW name \in Serving, NEW k, NEW more,
           Serves(s, name, k, more)', primary' = primary, \A q \in Slot : todo'[q] = <<>>
    PROVE  Achieved(name)'
<1> DEFINE p == Steps(name)
           L == Len(p)
<1>1. /\ Required' = Required /\ RequiredSet' = RequiredSet /\ N' = N /\ p' = p
    BY ScriptsKept DEF Serving
<1>2. /\ L \in Nat /\ N \in Nat /\ p \in Seq(Fixed)
      /\ name = "schemas" => L = N + 1
      /\ name # "schemas" => L = N + 2 + Len(Body(name))
    BY ServingIs
<1>3. /\ k \in 0 .. L /\ <<>> = more \o Left(p, k, L)
      /\ Made(name, k)' /\ Served(name, k, more)'
    BY <1>1 DEF Serves, Left
<1>4. Body(name)' = Body(name)
    BY <1>1 DEF Body, Wipes
<1>5. L' = L
    BY <1>1
<1> HIDE DEF p, L
<1>6. k \in Nat /\ k <= L /\ L <= Len(p)
    BY <1>2, <1>3 DEF L
<1>7. more = <<>>
    <2> SUFFICES ASSUME more # <<>>
                 PROVE  FALSE
        OBVIOUS
    <2>1. \/ \E x : more = << x >>
          \/ \E x, y : more = << x, y >>
        <3>1. name # "schemas"
            BY <1>3 DEF Served
        <3>2. CASE name \in Emptying
            BY <1>3, <3>2 DEF Served, Emptied
        <3>3. CASE name = "migrate"
            BY <1>3, <3>3 DEF Served, Migrated
        <3>4. CASE name = "migrate:revert"
            BY <1>3, <3>4 DEF Served, Reverted
        <3>5. CASE name \in Resetting
            BY <1>3, <3>5 DEF Served, Wiped
        <3>6. CASE name \in Syncing
            BY <1>3, <3>6 DEF Served, Synced
        <3> QED
            BY <3>1, <3>2, <3>3, <3>4, <3>5, <3>6, Groups
    <2> DEFINE q == Left(p, k, L)
    <2>2. ASSUME NEW x, NEW y
          PROVE  << x >> \o q # <<>> /\ << x, y >> \o q # <<>>
        <3> DEFINE S == {x, y} \cup Fixed
        <3>1. p \in Seq(S)
            BY <1>2, SeqMonotonic
        <3>2. L \in 0 .. Len(p) /\ k \in 0 .. L
            BY <1>2, <1>6
        <3>3. x \in S /\ y \in S
            OBVIOUS
        <3> HIDE DEF S
        <3>4. q \in Seq(S)
            BY <3>1, <3>2, LeftIs
        <3> HIDE DEF q
        <3>5. << x >> \o q # <<>>
            BY <3>3, <3>4, Comes
        <3>6. << x, y >> \o q # <<>>
            BY <3>3, <3>4, ComesTwo
        <3> QED
            BY <3>5, <3>6
    <2> QED
        BY <1>3, <2>1, <2>2
<1>8. k = L
    <2>1. p \in Seq(Fixed) /\ k \in Nat /\ L \in Nat /\ k <= L /\ L <= Len(p)
        BY <1>2, <1>6
    <2>2. <<>> \o Left(p, k, L) = <<>>
        BY <1>3, <1>7
    <2> QED
        BY <2>1, <2>2, Finishes
<1>9. \A i \in 1 .. N : Required[i] \in data'.schemas
    <2>1. \A i \in 1 .. N : i <= k
        <3>1. CASE name = "schemas"
            BY <1>2, <1>8, <3>1
        <3>2. CASE name # "schemas"
            <4>1. Len(Body(name)) \in Nat
                BY <3>2, BodyIs
            <4> QED
                BY <1>2, <1>8, <3>2, <4>1
        <3> QED
            BY <3>1, <3>2
    <2>2. ~(k < L')
        BY <1>5, <1>6, <1>8
    <2> QED
        BY <1>1, <1>3, <2>1, <2>2 DEF Made, L, p
<1>10. Ready'
    <2>1. primary \in data'.schemas
        BY <1>9, EnsureIs, SchemasRequired
    <2>2. db'
        BY <2>1 DEF IInv, TypeOK, Blank
    <2> QED
        BY <1>1, <1>9, <2>2, EnsureIs DEF Ready
<1>11. CASE name \in {"schemas", "migrate:revert"}
    BY <1>10, <1>11 DEF Achieved
<1>12. CASE name \in Emptying
    <2>1. Len(Body(name)) = (IF name = "seed" THEN 2 ELSE 1) /\ name # "schemas"
        BY <1>12, BodyIs DEF Emptying, Serving, Scripts, Rebuilding
    <2>2. k >= N + 2 /\ (name = "seed" => k >= N + 3)
        BY <1>2, <1>8, <2>1
    <2>3. /\ data'.rows = IF name = "seed" THEN {"seed"} ELSE {}
          /\ name = "truncate:with-migrations" => data'.record = {}
        BY <1>1, <1>3, <1>7, <1>12, <2>2 DEF Served, Emptied
    <2>4. CASE name = "truncate"
        BY <1>10, <2>3, <2>4 DEF Achieved
    <2>5. CASE name = "truncate:with-migrations"
        BY <1>10, <2>3, <2>5 DEF Achieved
    <2>6. CASE name = "seed"
        BY <1>10, <2>3, <2>6 DEF Achieved
    <2> QED
        BY <1>12, <2>4, <2>5, <2>6 DEF Emptying
<1>13. CASE name = "migrate"
    <2>1. Len(Body(name)) = 1
        BY <1>13, BodyIs DEF Serving
    <2>2. k >= N + 2
        BY <1>2, <1>8, <1>13, <2>1
    <2>3. files' \subseteq data'.record
        BY <1>1, <1>3, <1>7, <1>13, <2>2 DEF Served, Migrated
    <2> QED
        BY <1>10, <1>13, <2>3 DEF Achieved
<1>14. CASE name \in Resetting
    <2>1. name # "schemas"
        BY <1>14 DEF Resetting
    <2>2. Len(Body(name)) \in Nat /\ \A i \in 1 .. Len(Body(name)) : N + 1 + i <= k
        <3>1. Len(Body(name)) \in Nat
            BY <2>1, BodyIs
        <3> QED
            BY <1>2, <1>8, <2>1, <3>1
    <2>3. \A i \in 1 .. Len(Body(name)), x \in RequiredSet :
              Body(name)[i] = <<"wipe", x>> => data'.tables \cap TablesIn(x) = {}
        <3>1. \A x \in RequiredSet : TablesIn(x)' = TablesIn(x)
            BY DEF TablesIn
        <3> QED
            BY <1>1, <1>3, <1>4, <1>14, <2>2, <3>1 DEF Served, Wiped
    <2>4. PICK public \in BOOLEAN : public = (name = "schemas:reset:public")
        OBVIOUS
    <2>5. Body(name) = Wipes(public)
        BY <1>14, <2>4 DEF Body, Resetting, Syncing
    <2>6. \E i \in 1 .. Len(Body(name)) : Body(name)[i] = <<"wipe", Entities>>
        BY <2>5, WipesAre
    <2>7. public => \E i \in 1 .. Len(Body(name)) : Body(name)[i] = <<"wipe", primary>>
        BY <2>5, WipesAre
    <2>8. "app" \notin data'.tables
        BY <2>3, <2>6, SchemasRequired DEF TablesIn
    <2>9. public => data'.tables = {}
        <3>1. data'.tables \subseteq {"app", "registry", "migrations"}
            BY DEF IInv, TypeOK, Databases, Table
        <3>2. public => data'.tables \cap TablesIn(primary) = {}
            BY <2>3, <2>7, SchemasRequired
        <3>3. {"registry", "migrations"} \subseteq TablesIn(primary)
            BY DEF TablesIn
        <3> QED
            BY <2>8, <3>1, <3>2, <3>3
    <2> QED
        BY <1>10, <1>14, <2>4, <2>8, <2>9 DEF Achieved, Resetting
<1>15. CASE name \in Syncing
    <2>1. name # "schemas" /\ Len(Body(name)) = 1 + Len(Assets) /\ Len(Assets) \in Nat
        BY <1>15, SyncIs DEF Syncing
    <2>2. \A i \in 1 .. Len(Assets) : N + 2 + i < k
        BY <1>2, <1>8, <2>1
    <2>3. \A i \in 1 .. Len(Assets) : Current(Assets[i], name = "sql-assets:force")'
        BY <1>1, <1>3, <1>15, <2>2 DEF Served, Synced
    <2>4. \A a \in Asset : \E i \in 1 .. Len(Assets) : a = Assets[i]
        BY SequencesAssumption DEF Asset
    <2>5. \A a \in Asset : Current(a, name = "sql-assets:force")'
        BY <2>3, <2>4
    <2>6. /\ data' \in Databases /\ source' \in [Asset -> Versions]
          /\ \A a \in Asset : Truthful(a)'
        <3>1. TypeOK' /\ \A a \in Asset : Truthful(a)'
            BY DEF IInv
        <3>2. data' \in Databases' /\ source' \in [Asset -> Versions]
            BY <3>1 DEF TypeOK
        <3>3. Databases' = Databases
            BY <1>1 DEF Databases
        <3> QED
            BY <3>1, <3>2, <3>3
    <2>7. data'.registry = source'
        BY <2>5, <2>6 DEF Current, Databases
    <2>8. CASE name = "sql-assets:force"
        <3>1. data'.object = source'
            BY <2>5, <2>6, <2>8 DEF Current, Databases
        <3> QED
            BY <2>7, <2>8, <3>1 DEF Achieved
    <2>9. CASE name = "sql-assets"
        <3>1. \A a \in Asset : Registering(a)' = {} /\ data'.registry[a] # 0
            BY <2>6, <2>7, BoundsAssumption DEF Registering, At
        <3>2. \A a \in Asset \ suspect' : data'.object[a] = source'[a]
            BY <2>6, <2>7, <3>1 DEF Truthful
        <3> QED
            BY <2>7, <2>9, <3>2 DEF Achieved
    <2> QED
        BY <1>15, <2>8, <2>9 DEF Syncing
<1> QED
    BY <1>11, <1>12, <1>13, <1>14, <1>15, Groups DEF Serving

-----------------------------------------------------------------------------
(* The induction.                                                          *)

\* A script that nobody disturbed runs alone, and is where its part has brought it.
Undisturbed(s) ==
    quiet[s] /\ script[s] # "none" =>
        /\ \A q \in Slot \ {s} : todo[q] = <<>>
        /\ \A name \in Rebuilding : script[s] = name => \E k, more : Rebuilds(s, name, k, more)
        /\ \A name \in Serving : script[s] = name => \E k, more : Serves(s, name, k, more)

QInv == IInv /\ Recorded /\ \A s \in Slot : Undisturbed(s)

\* A statement goes on with the script, or ends it.
LEMMA StepsOn ==
    ASSUME NEW s \in Slot, Step(s)
    PROVE  /\ primary' = primary
           /\ \E more : Proceed(s, more)
BY DEF Step, Terminate, FindToDrop, DropDatabase, FindToCreate, CreateDatabase, CreateSchema,
       WipeSchema, ListTables, TruncateTables, Close, FindPending, Migrate, FindLast, Undo,
       RemoveInitialSchemaMigrations, Generate, Seed, EnsureRegistryTable, CheckAsset, RunAsset,
       UpsertRegistry, RunAndRegister, Query, environment

\* No migration is on record at first without the table ...
LEMMA InitRecorded == Init => Recorded
<1> SUFFICES ASSUME Init
             PROVE  Recorded
    OBVIOUS
<1>1. Blank.record = {} /\ [Blank EXCEPT !.schemas = {"public"}].record = {}
    BY DEF Blank
<1>2. ASSUME NEW m \in Migrations
      PROVE  /\ Deployed(m).tables = Table
             /\ [Deployed(m) EXCEPT !.rows = {}, !.record = {}, !.registry = Nothing].tables = Table
             /\ Without(Deployed(m), {"app"}).tables = Table \ {"app"}
    BY DEF Deployed, Without
<1> QED
    BY <1>1, <1>2 DEF Init, Recorded, Table

\* ... nor after any statement.
LEMMA StepRecorded ==
    ASSUME TypeOK, Recorded, NEW s \in Slot, Step(s)
    PROVE  Recorded'
<1>1. data \in Databases
    BY DEF TypeOK
<1>2. CASE UNCHANGED data
    BY <1>2 DEF Recorded
<1>3. CASE DropDatabase(s) \/ CreateDatabase(s)
    BY <1>3 DEF DropDatabase, CreateDatabase, Blank, Recorded
<1>4. CASE CreateSchema(s) \/ Seed(s) \/ EnsureRegistryTable(s) \/ RunAsset(s) \/ UpsertRegistry(s)
           \/ RunAndRegister(s)
    <2>1. data'.record = data.record /\ data.tables \subseteq data'.tables
        BY <1>1, <1>4 DEF CreateSchema, Seed, EnsureRegistryTable, RunAsset, UpsertRegistry,
           RunAndRegister, Databases
    <2> QED
        BY <2>1 DEF Recorded
<1>5. CASE WipeSchema(s)
    <2>1. PICK x : data' = [Without(data, TablesIn(x)) EXCEPT
                               !.schemas = @ \ {x},
                               !.object = [a \in Asset |-> IF Home(a) = x THEN 0 ELSE @[a]]]
        BY <1>5 DEF WipeSchema
    <2>2. /\ data'.tables = data.tables \ TablesIn(x)
          /\ data'.record = IF "migrations" \in TablesIn(x) THEN {} ELSE data.record
        BY <1>1, <2>1 DEF Without, Databases
    <2> QED
        BY <2>2 DEF Recorded
<1>6. CASE TruncateTables(s)
    <2>1. data'.tables = data.tables /\ data'.record \in {{}, data.record}
        BY <1>1, <1>6 DEF TruncateTables, Databases
    <2> QED
        BY <2>1 DEF Recorded
<1>7. CASE FindPending(s) \/ FindLast(s)
    BY <1>1, <1>7 DEF FindPending, FindLast, Databases, Recorded
<1>8. CASE Migrate(s)
    <2>1. At(s, "migrate") /\ Works(s) /\ data' = [data EXCEPT !.tables = @ \cup {"app"},
                                                              !.record = @ \cup Arg(s, 2)]
        BY <1>8 DEF Migrate, Runs
    <2>2. "migrations" \in data.tables
        BY <2>1 DEF Works
    <2> QED
        BY <1>1, <2>1, <2>2 DEF Databases, Recorded
<1>9. CASE Undo(s)
    <2>1. data' = [Without(data, {"app"}) EXCEPT !.record = @ \ {Arg(s, 2)}]
        BY <1>9 DEF Undo
    <2>2. data'.tables = data.tables \ {"app"} /\ data'.record = data.record \ {Arg(s, 2)}
        BY <1>1, <2>1 DEF Without, Databases
    <2> QED
        BY <2>2 DEF Recorded
<1>10. CASE Terminate(s) \/ FindToDrop(s) \/ FindToCreate(s) \/ ListTables(s) \/ Close(s)
            \/ RemoveInitialSchemaMigrations(s) \/ Generate(s) \/ CheckAsset(s)
    BY <1>2, <1>10 DEF Terminate, FindToDrop, FindToCreate, ListTables, Close,
       RemoveInitialSchemaMigrations, Generate, CheckAsset
<1> QED
    BY <1>3, <1>4, <1>5, <1>6, <1>7, <1>8, <1>9, <1>10 DEF Step

\* A script is at the beginning of its part when it starts.
LEMMA StartsThere ==
    ASSUME TypeOK, Programs, NEW s \in Slot, NEW name \in Scripts, Start(s, name)
    PROVE  /\ name \in Rebuilding => Rebuilds(s, name, Begin(name), <<>>)'
           /\ name \in Serving => Serves(s, name, 0, <<>>)'
<1>1. /\ todo'[s] = Steps(name) /\ UNCHANGED <<primary, db, data, files, source, client, conn>>
    BY DEF Start, environment, Programs
<1>2. /\ Required' = Required /\ RequiredSet' = RequiredSet /\ N' = N /\ FreshScript' = FreshScript
      /\ Steps(name)' = Steps(name)
      /\ \A x \in Rebuilding : Begin(x)' = Begin(x) /\ End(x)' = End(x)
    BY <1>1, ScriptsKept
<1>3. ASSUME name \in Rebuilding
      PROVE  Rebuilds(s, name, Begin(name), <<>>)'
    <2>1. /\ Steps(name) = Left(FreshScript, Begin(name), End(name))
          /\ Begin(name) \in Nat /\ End(name) \in Nat /\ N \in Nat
          /\ Begin(name) <= End(name) /\ End(name) <= Len(FreshScript)
          /\ FreshScript \in Seq(Fixed)
        BY <1>3, RebuildIs, FreshIs, EnsureIs
    <2> DEFINE q == Left(FreshScript, Begin(name), End(name))
    <2>2. q \in Seq(Fixed)
        <3>1. End(name) \in 0 .. Len(FreshScript) /\ Begin(name) \in 0 .. End(name)
            BY <2>1, FreshIs
        <3> QED
            BY <2>1, <3>1, LeftIs
    <2> HIDE DEF q
    <2>3. <<>> \o q = q
        BY <2>2, ConcatEmptySeq
    <2>4. todo'[s] = <<>> \o Left(FreshScript, Begin(name), End(name))
        BY <1>1, <2>1, <2>3 DEF q
    <2>5. Inserts(Begin(name), <<>>)'
        BY DEF Inserts
    <2>6. Begin(name) \in {0, 1, 3} /\ (Begin(name) = 3 => name = "create")
          /\ (name = "fresh" => Begin(name) = 0)
        BY <1>3 DEF Begin, Rebuilding
    <2>7. Rebuilt(s, name, Begin(name), <<>>)'
        BY <1>2, <1>3, <2>1, <2>6 DEF Rebuilt
    <2>8. Begin(name) \in Begin(name) .. End(name)
        BY <2>1
    <2> QED
        BY <1>2, <1>3, <2>4, <2>5, <2>7, <2>8 DEF Rebuilds, Left
<1>4. ASSUME name \in Serving
      PROVE  Serves(s, name, 0, <<>>)'
    <2> DEFINE p == Steps(name)
               L == Len(p)
    <2>1. p \in Seq(Fixed) /\ L \in Nat /\ N \in Nat
        BY <1>4, ServingIs
    <2>2. p' = p /\ L' = L
        BY <1>2
    <2>3. todo'[s] = p
        BY <1>1
    <2> HIDE DEF p, L
    <2>4. p = <<>> \o Left(p, 0, L)
        <3>1. Left(p, 0, L) = p
            BY <2>1, SubSeqFull DEF Left, L
        <3> QED
            BY <2>1, <3>1, ConcatEmptySeq
    <2>5. Made(name, 0)'
        BY <1>2, <2>1 DEF Made
    <2>6. Served(name, 0, <<>>)'
        BY <1>2, <2>1 DEF Served, Emptied, Migrated, Reverted, Wiped, Synced
    <2>7. 0 \in 0 .. L
        BY <2>1
    <2> QED
        BY <2>2, <2>3, <2>4, <2>5, <2>6, <2>7 DEF Serves, Left, p, L
<1> QED
    BY <1>3, <1>4

\* Every step keeps that; one of somebody else is a disturbance.
LEMMA UndisturbedKept ==
    ASSUME QInv, [Next]_vars
    PROVE  \A s \in Slot : Undisturbed(s)'
<1>1. /\ TypeOK /\ Programs /\ Recorded /\ \A s \in Slot : Undisturbed(s)
      /\ todo \in [Slot -> Seq(Statement)] /\ script \in [Slot -> Scripts \cup {"none"}]
      /\ quiet \in [Slot -> BOOLEAN]
    BY DEF QInv, IInv, TypeOK, Programs
<1>2. ASSUME NEW r \in Slot, NEW name \in Scripts, Start(r, name), NEW s \in Slot
      PROVE  Undisturbed(s)'
    <2>1. /\ quiet'[s] => s = r /\ \A q \in Slot : todo[q] = <<>>
          /\ script'[r] = name /\ \A q \in Slot \ {r} : todo'[q] = todo[q]
        BY <1>1, <1>2 DEF Start
    <2>2. /\ name \in Rebuilding => Rebuilds(r, name, Begin(name), <<>>)'
          /\ name \in Serving => Serves(r, name, 0, <<>>)'
        BY <1>1, <1>2, StartsThere
    <2> QED
        BY <2>1, <2>2 DEF Undisturbed
<1>3. ASSUME NEW r \in Slot, Step(r), NEW s \in Slot
      PROVE  Undisturbed(s)'
    <2>1. PICK m : Proceed(r, m)
        BY <1>3, StepsOn
    <2>2. /\ quiet'[s] => s = r /\ quiet[s]
          /\ script'[r] # "none" => script'[r] = script[r]
          /\ \A q \in Slot \ {r} : todo'[q] = todo[q]
        BY <1>1, <2>1 DEF Proceed
    <2> SUFFICES ASSUME quiet'[s], script'[s] # "none"
                 PROVE  /\ \A q \in Slot \ {s} : todo'[q] = <<>>
                        /\ \A name \in Rebuilding : script'[s] = name =>
                               (\E k, more : Rebuilds(s, name, k, more))'
                        /\ \A name \in Serving : script'[s] = name =>
                               (\E k, more : Serves(s, name, k, more))'
        BY DEF Undisturbed
    <2>3. /\ s = r /\ quiet[s] /\ script[s] = script'[s]
          /\ \A q \in Slot \ {s} : todo[q] = <<>> /\ todo'[q] = <<>>
        BY <1>1, <2>2 DEF Undisturbed
    <2>4. ASSUME NEW name \in Rebuilding, script'[s] = name
          PROVE  (\E k, more : Rebuilds(s, name, k, more))'
        <3>1. PICK k, more : Rebuilds(s, name, k, more)
            BY <1>1, <2>3, <2>4 DEF Undisturbed
        <3> QED
            BY <1>1, <1>3, <2>3, <3>1, RebuildsOn
    <2>5. ASSUME NEW name \in Serving, script'[s] = name
          PROVE  (\E k, more : Serves(s, name, k, more))'
        <3>1. PICK k, more : Serves(s, name, k, more)
            BY <1>1, <2>3, <2>5 DEF Undisturbed
        <3> QED
            BY <1>1, <1>3, <2>3, <3>1, ServesOn
    <2> QED
        BY <2>3, <2>4, <2>5
<1>4. CASE \/ \E r \in Slot : Fail(r)
           \/ ClientConnects \/ ClientWrites
           \/ \E a \in Asset, v \in Versions : EditAsset(a, v)
    <2>1. quiet' = [q \in Slot |-> FALSE]
        BY <1>4 DEF Fail, ClientConnects, ClientWrites, EditAsset, Disturb
    <2> QED
        BY <2>1 DEF Undisturbed
<1>5. CASE UNCHANGED vars
    <2>1. UNCHANGED <<primary, db, data, client, files, source, script, todo, conn, quiet>>
        BY <1>5 DEF vars, environment, process
    <2>2. /\ Required' = Required /\ RequiredSet' = RequiredSet /\ N' = N /\ FreshScript' = FreshScript
          /\ \A x \in Rebuilding : Begin(x)' = Begin(x) /\ End(x)' = End(x)
          /\ \A x \in Scripts : Steps(x)' = Steps(x)
        BY <2>1, ScriptsKept
    <2>3. ASSUME NEW s \in Slot, NEW name \in Rebuilding, NEW k, NEW more, Rebuilds(s, name, k, more)
          PROVE  Rebuilds(s, name, k, more)'
        BY <2>1, <2>2, <2>3 DEF Rebuilds, Rebuilt, Inserts, Calm, Left
    <2>4. ASSUME NEW s \in Slot, NEW name \in Serving, NEW k, NEW more, Serves(s, name, k, more)
          PROVE  Serves(s, name, k, more)'
        <3>1. name \in Scripts
            BY DEF Serving
        <3>2. Body(name)' = Body(name)
            BY <2>2 DEF Body, Wipes
        <3>3. Made(name, k)'
            BY <2>1, <2>2, <2>4, <3>1 DEF Serves, Made
        <3>4. Served(name, k, more)'
            BY <2>1, <2>2, <2>4, <3>2
               DEF Serves, Served, Emptied, Migrated, Reverted, Wiped, Synced, Current, TablesIn
        <3> QED
            BY <2>1, <2>2, <2>4, <3>1, <3>3, <3>4 DEF Serves, Left
    <2>5. ASSUME NEW s \in Slot
          PROVE  Undisturbed(s)'
        <3>1. Undisturbed(s)
            BY <1>1
        <3> QED
            BY <2>1, <2>3, <2>4, <3>1 DEF Undisturbed
    <2> QED
        BY <2>5
<1> QED
    BY <1>2, <1>3, <1>4, <1>5 DEF Next

\* The invariant is inductive.
LEMMA QInvKept == ASSUME QInv, [Next]_vars PROVE QInv'
<1>1. IInv'
    BY RegistryKept DEF QInv
<1>2. Recorded'
    <2>1. CASE \E s \in Slot : Step(s)
        BY <2>1, StepRecorded DEF QInv, IInv
    <2>2. CASE \E s \in Slot : (\E name \in Scripts : Start(s, name)) \/ Fail(s)
        BY <2>2 DEF Start, Fail, QInv, Recorded
    <2>3. CASE \/ ClientConnects \/ ClientWrites
               \/ \E a \in Asset, v \in Versions : EditAsset(a, v)
               \/ UNCHANGED vars
        <3>1. data'.tables = data.tables /\ data'.record = data.record
            BY <2>3 DEF ClientConnects, ClientWrites, EditAsset, vars, QInv, IInv, TypeOK, Databases
        <3> QED
            BY <3>1 DEF QInv, Recorded
    <2> QED
        BY <2>1, <2>2, <2>3 DEF Next
<1>3. \A s \in Slot : Undisturbed(s)'
    BY UndisturbedKept
<1> QED
    BY <1>1, <1>2, <1>3 DEF QInv

\* Nothing runs at first.
LEMMA InitQuiet == Init => QInv
<1> SUFFICES ASSUME Init
             PROVE  QInv
    OBVIOUS
<1>1. \A s \in Slot : script[s] = "none"
    BY DEF Init
<1> QED
    BY <1>1, InitTypes, InitRegistry, InitRecorded DEF QInv, IInv, Undisturbed

\* db:drop, db:create, db:reset and db:fresh repair anything: undisturbed, none of
\* their statements is refused, whatever earlier scripts have left behind.
THEOREM RepairsAlwaysSucceed == Spec => []RepairsSucceed
<1>1. Init => QInv
    BY InitQuiet
<1>2. QInv /\ [Next]_vars => QInv'
    BY QInvKept
<1>3. QInv => RepairsSucceed
    <2> SUFFICES ASSUME QInv, NEW s \in Slot, quiet[s], NEW name \in Rebuilding, script[s] = name
                 PROVE  Works(s)
        BY DEF RepairsSucceed, Rebuilding
    <2>1. TypeOK /\ Programs /\ Undisturbed(s)
        BY DEF QInv, IInv
    <2>2. name # "none" /\ todo[s] # <<>>
        BY <2>1 DEF Rebuilding, TypeOK
    <2>3. PICK k, more : Rebuilds(s, name, k, more)
        BY <2>1, <2>2 DEF Undisturbed
    <2> QED
        BY <2>1, <2>2, <2>3, RebuildsWork
<1> QED
    BY <1>1, <1>2, <1>3, PTL DEF Spec

\* A script that ends well, and that nobody disturbed, did what it is for: it
\* dropped, created, emptied, migrated, seeded or synced the database, whatever
\* state it found it in.
THEOREM ScriptsDoTheirPart == Spec => FinishedMeansDone
<1>1. Init => QInv
    BY InitQuiet
<1>2. QInv /\ [Next]_vars => QInv'
    BY QInvKept
<1>3. QInv /\ [Next]_vars =>
          [\A s \in Slot, name \in Scripts :
              script[s] = name /\ script'[s] = "none" /\ quiet'[s] => Achieved(name)']_vars
    <2> SUFFICES ASSUME QInv, [Next]_vars, NEW s \in Slot, NEW name \in Scripts,
                        script[s] = name, script'[s] = "none", quiet'[s]
                 PROVE  Achieved(name)'
        OBVIOUS
    <2>1. /\ TypeOK /\ Programs /\ Recorded /\ Undisturbed(s) /\ name # "none"
          /\ IInv'
        BY RegistryKept DEF QInv, IInv, Scripts
    <2>2. Step(s)
        <3>1. ASSUME NEW r \in Slot, NEW other \in Scripts, Start(r, other)
              PROVE  FALSE
            BY <2>1, <3>1 DEF Start, TypeOK, Scripts
        <3>2. ASSUME \/ \E r \in Slot : Fail(r)
                     \/ ClientConnects \/ ClientWrites
                     \/ \E a \in Asset, v \in Versions : EditAsset(a, v)
              PROVE  FALSE
            BY <3>2 DEF Fail, ClientConnects, ClientWrites, EditAsset, Disturb
        <3>3. ASSUME UNCHANGED vars
              PROVE  FALSE
            BY <2>1, <3>3 DEF vars, process
        <3>4. ASSUME NEW r \in Slot, Step(r)
              PROVE  r = s
            <4>1. PICK m : Proceed(r, m)
                BY <3>4, StepsOn
            <4> QED
                BY <4>1 DEF Proceed
        <3> QED
            BY <3>1, <3>2, <3>3, <3>4 DEF Next
    <2>3. PICK m : Proceed(s, m) /\ primary' = primary
        BY <2>2, StepsOn
    <2>4. quiet[s] /\ \A q \in Slot \ {s} : todo[q] = <<>> /\ todo'[q] = <<>>
        BY <2>1, <2>3 DEF Proceed, Undisturbed, TypeOK
    <2>5. todo'[s] = <<>>
        BY <2>1 DEF IInv, TypeOK
    <2>6. CASE name \in Rebuilding
        <3>1. PICK k, more : Rebuilds(s, name, k, more)
            BY <2>1, <2>4, <2>6 DEF Undisturbed
        <3>2. \E l, n : Rebuilds(s, name, l, n)'
            BY <2>1, <2>2, <2>4, <2>6, <3>1, RebuildsOn
        <3> QED
            BY <2>3, <2>5, <2>6, <3>2, RebuildsEnd
    <2>7. CASE name \in Serving
        <3>1. PICK k, more : Serves(s, name, k, more)
            BY <2>1, <2>4, <2>7 DEF Undisturbed
        <3>2. \E l, n : Serves(s, name, l, n)'
            BY <2>1, <2>2, <2>7, <3>1, ServesOn
        <3>3. \A q \in Slot : todo'[q] = <<>>
            BY <2>4, <2>5
        <3> QED
            BY <2>1, <2>3, <2>7, <3>2, <3>3, ServesEnd
    <2> QED
        BY <2>6, <2>7 DEF Serving
<1> QED
    BY <1>1, <1>2, <1>3, PTL DEF Spec, FinishedMeansDone

-----------------------------------------------------------------------------
(* Two scripts at a time and the record of migrations.                     *)

\* Statements that a script finds out about are next when they are found.
Later(t) == \A i \in 2 .. Len(t) : t[i][1] \notin {"truncate", "migrate", "undo", "files"}

\* It will generate a migration, and terminates no connections before.
Generating(t) ==
    \E i \in 1 .. Len(t) : t[i][1] = "generate" /\ \A j \in 1 .. i - 1 : t[j][1] # "terminate"

\* What the statement at the head of a script adds in front of the rest.
Adds(s, more) ==
    \/ more = <<>>
    \/ \E x \in Statement :
          /\ more = << x >>
          /\ x[1] \notin {"files", "generate"}
          /\ x[1] = "truncate" => x[3] \/ "migrations" \notin x[2]
          /\ x[1] = "migrate" => FindPending(s) /\ x[2] = files \ data.record /\ x[2] # {}
          /\ x[1] = "undo" => FindLast(s) /\ x[2] \in data.record
    \/ \E x \in Statement, y \in Statement : more = << x, y >> /\ x[1] = "run" /\ y[1] = "register"

LEMMA StepAdds ==
    ASSUME TypeOK, Programs, NEW s \in Slot, Step(s)
    PROVE  \E more \in Seq(Statement) : Proceed(s, more) /\ Adds(s, more)
<1>1. <<>> \in Seq(Statement) /\ Adds(s, <<>>)
    BY DEF Adds
<1>2. ASSUME NEW x \in Statement
      PROVE  << x >> \in Seq(Statement)
    OBVIOUS
<1>3. todo[s] # <<>> /\ Formed(todo[s])
    BY StepIs DEF Programs
<1>4. CASE FindToDrop(s) \/ FindToCreate(s)
    <2>1. <<"drop">> \in Statement /\ <<"create">> \in Statement
        BY DEF Statement, Fixed, Bare, Plain
    <2>2. ASSUME NEW x \in {<<"drop">>, <<"create">>}
          PROVE  Adds(s, << x >>)
        <3>1. x[1] \in {"drop", "create"}
            BY <2>2
        <3> QED
            BY <2>1, <3>1 DEF Adds
    <2>3. \E more \in {<<>>, << <<"drop">> >>, << <<"create">> >>} : Proceed(s, more)
        BY <1>4, Zenon DEF FindToDrop, FindToCreate
    <2> QED
        BY <1>1, <1>2, <2>1, <2>2, <2>3
<1>5. CASE ListTables(s)
    <2> DEFINE found == { t \in data.tables : t # "migrations" \/ Arg(s, 2) }
               x == <<"truncate", found, Arg(s, 2)>>
    <2>1. Head(todo[s])[1] = "list"
        BY <1>5 DEF ListTables, Runs, At
    <2>2. Arg(s, 2) \in BOOLEAN
        <3>1. Head(todo[s]) \in Fixed
            BY <1>3, <2>1, FirstFixed
        <3> QED
            BY <2>1, <3>1, FixedArguments DEF Arg
    <2>3. found \in SUBSET Table
        BY DEF TypeOK, Databases
    <2>4. "migrations" \in found => Arg(s, 2)
        OBVIOUS
    <2>5. Proceed(s, <<>>) \/ Proceed(s, << x >>)
        BY <1>5 DEF ListTables, Query
    <2> HIDE DEF found
    <2>6. x \in Statement /\ x[1] = "truncate" /\ x[2] = found /\ x[3] = Arg(s, 2)
        BY <2>2, <2>3 DEF Statement, Fixed
    <2> HIDE DEF x
    <2>7. Adds(s, << x >>)
        BY <2>2, <2>4, <2>6 DEF Adds
    <2> QED
        BY <1>1, <1>2, <2>5, <2>6, <2>7
<1>6. CASE FindPending(s)
    <2> DEFINE pending == files \ data.record
               x == <<"migrate", pending>>
    <2>1. Proceed(s, <<>>) \/ (Proceed(s, << x >>) /\ pending # {})
        BY <1>6 DEF FindPending, Query
    <2>2. pending \in SUBSET Migrations
        BY DEF TypeOK
    <2>3. pending = files \ data.record
        OBVIOUS
    <2> HIDE DEF pending
    <2>4. x \in Statement /\ x[1] = "migrate" /\ x[2] = pending
        BY <2>2 DEF Statement, Fixed
    <2> HIDE DEF x
    <2>5. pending # {} => Adds(s, << x >>)
        BY <1>6, <2>3, <2>4 DEF Adds
    <2> QED
        BY <1>1, <1>2, <2>1, <2>4, <2>5
<1>7. CASE FindLast(s)
    <2>1. CASE Proceed(s, <<>>)
        BY <1>1, <2>1
    <2>2. CASE \E m \in data.record : Proceed(s, << <<"undo", m>> >>)
        <3>1. PICK m \in data.record : Proceed(s, << <<"undo", m>> >>)
            BY <2>2
        <3> DEFINE x == <<"undo", m>>
        <3>2. m \in Migrations
            BY DEF TypeOK, Databases
        <3>3. x \in Statement /\ x[1] = "undo" /\ x[2] = m /\ Proceed(s, << x >>)
            BY <3>1, <3>2 DEF Statement, Fixed
        <3> HIDE DEF x
        <3>4. Adds(s, << x >>)
            BY <1>7, <3>3 DEF Adds
        <3> QED
            BY <1>2, <3>3, <3>4
    <2> QED
        BY <1>7, <2>1, <2>2 DEF FindLast, Query
<1>8. CASE CheckAsset(s)
    <2> DEFINE a == Arg(s, 2)
               v == source[a]
               x == <<"run", a, v>>
               y == <<"register", a, v>>
               z == <<"runAndRegister", a, v>>
    <2>1. Head(todo[s])[1] = "asset"
        BY <1>8 DEF CheckAsset, Runs, At
    <2>2. a \in Asset /\ v \in Versions
        <3>1. Head(todo[s]) \in Fixed
            BY <1>3, <2>1, FirstFixed
        <3> QED
            BY <2>1, <3>1, FixedArguments DEF Arg, TypeOK
    <2>3. Proceed(s, <<>>) \/ Proceed(s, << x, y >>) \/ Proceed(s, << z >>)
        BY <1>8 DEF CheckAsset, Query
    <2> HIDE DEF a, v
    <2>4. /\ x \in Statement /\ y \in Statement /\ z \in Statement
          /\ x[1] = "run" /\ y[1] = "register" /\ z[1] = "runAndRegister"
        BY <2>2 DEF Statement, Install
    <2> HIDE DEF x, y, z
    <2>5. Adds(s, << x, y >>) /\ Adds(s, << z >>)
        BY <2>4 DEF Adds
    <2>6. << x, y >> \in Seq(Statement)
        BY <2>4
    <2> QED
        BY <1>1, <1>2, <2>3, <2>4, <2>5, <2>6
<1>9. CASE \/ Terminate(s) \/ DropDatabase(s) \/ CreateDatabase(s) \/ CreateSchema(s) \/ WipeSchema(s)
           \/ TruncateTables(s) \/ Close(s) \/ Migrate(s) \/ Undo(s) \/ RemoveInitialSchemaMigrations(s)
           \/ Generate(s) \/ Seed(s) \/ EnsureRegistryTable(s) \/ RunAsset(s) \/ UpsertRegistry(s)
           \/ RunAndRegister(s)
    <2>1. Proceed(s, <<>>)
        BY <1>9 DEF Terminate, DropDatabase, CreateDatabase, CreateSchema, WipeSchema,
           TruncateTables, Close, Migrate, Undo, RemoveInitialSchemaMigrations, Generate, Seed,
           EnsureRegistryTable, RunAsset, UpsertRegistry, RunAndRegister, Query
    <2> QED
        BY <1>1, <2>1
<1> QED
    BY <1>4, <1>5, <1>6, <1>7, <1>8, <1>9 DEF Step

\* The rest of a script with something in front.
LEMMA Rest ==
    ASSUME NEW S, NEW t \in Seq(S), t # <<>>, NEW more \in Seq(S), NEW u, u = more \o Tail(t)
    PROVE  /\ u \in Seq(S) /\ Len(u) = Len(more) + Len(t) - 1
           /\ Len(u) \in Nat /\ Len(more) \in Nat /\ Len(t) \in Nat \ {0}
           /\ \A i \in 1 .. Len(more) : u[i] = more[i]
           /\ \A i \in Len(more) + 1 .. Len(u) : u[i] = t[i - Len(more) + 1]
<1>1. /\ Tail(t) \in Seq(S) /\ Len(Tail(t)) = Len(t) - 1 /\ Len(t) \in Nat \ {0}
      /\ \A i \in 1 .. Len(Tail(t)) : Tail(t)[i] = t[i + 1]
    BY HeadTailProperties, EmptySeq
<1> DEFINE r == Tail(t)
<1>2. /\ r \in Seq(S) /\ Len(r) = Len(t) - 1 /\ u = more \o r
      /\ \A i \in 1 .. Len(r) : r[i] = t[i + 1]
    BY <1>1
<1> HIDE DEF r
<1>3. /\ u \in Seq(S) /\ Len(u) = Len(more) + Len(r)
      /\ \A i \in 1 .. Len(more) : u[i] = more[i]
      /\ \A i \in 1 .. Len(r) : u[Len(more) + i] = r[i]
    BY <1>2, Join
<1>4. Len(more) \in Nat /\ Len(u) \in Nat
    BY <1>3
<1>5. ASSUME NEW i \in Len(more) + 1 .. Len(u)
      PROVE  u[i] = t[i - Len(more) + 1]
    <2> DEFINE j == i - Len(more)
    <2>1. j \in 1 .. Len(r) /\ i = Len(more) + j /\ j + 1 = i - Len(more) + 1
        BY <1>1, <1>2, <1>3, <1>4
    <2> HIDE DEF j
    <2> QED
        BY <1>2, <1>3, <2>1
<1> QED
    BY <1>1, <1>2, <1>3, <1>4, <1>5

\* How a script goes on, when it has added m statements in front.
LEMMA GoesOn ==
    ASSUME NEW t, NEW more, NEW u,
           Len(more) \in Nat, Len(t) \in Nat, Len(u) \in Nat,
           Len(t) >= 1, Len(u) = Len(more) + Len(t) - 1,
           \A i \in 1 .. Len(more) : u[i] = more[i],
           \A i \in Len(more) + 1 .. Len(u) : u[i] = t[i - Len(more) + 1],
           \A i \in 1 .. Len(more) : more[i][1] \notin {"files", "generate"},
           \A i \in 2 .. Len(more) : more[i][1] = "register",
           Later(t)
    PROVE  /\ Later(u)
           /\ Generating(u) => Generating(t) \/ t[1][1] = "terminate"
           /\ Len(u) >= 1 =>
                 \/ Len(more) >= 1 /\ u[1] = more[1]
                 \/ Len(more) = 0 /\ u[1][1] \notin {"truncate", "migrate", "undo", "files"}
<1> DEFINE m == Len(more)
           l == Len(t)
           n == Len(u)
<1>0. /\ m \in Nat /\ l \in Nat /\ n \in Nat /\ l >= 1 /\ n = m + l - 1
      /\ \A i \in 1 .. m : u[i] = more[i]
      /\ \A i \in m + 1 .. n : u[i] = t[i - m + 1]
      /\ \A i \in 1 .. m : more[i][1] \notin {"files", "generate"}
      /\ \A i \in 2 .. m : more[i][1] = "register"
    OBVIOUS
<1>1. \A i \in 2 .. l : t[i][1] \notin {"truncate", "migrate", "undo", "files"}
    BY DEF Later
<1> HIDE DEF m, l, n
<1>2. ASSUME NEW i \in 2 .. n
      PROVE  u[i][1] \notin {"truncate", "migrate", "undo", "files"}
    <2>1. CASE i <= m
        <3>1. i \in 1 .. m /\ i \in 2 .. m
            BY <1>0, <2>1
        <3> QED
            BY <1>0, <3>1
    <2>2. CASE i > m
        <3>1. i \in m + 1 .. n /\ i - m + 1 \in 2 .. l
            BY <1>0, <2>2
        <3> QED
            BY <1>0, <1>1, <3>1
    <2> QED
        BY <1>0, <2>1, <2>2
<1>3. ASSUME Generating(u), t[1][1] # "terminate"
      PROVE  Generating(t)
    <2>1. PICK i \in 1 .. n : u[i][1] = "generate" /\ \A j \in 1 .. i - 1 : u[j][1] # "terminate"
        BY <1>0, <1>3 DEF Generating, n, l
    <2>2. i > m
        <3>1. i <= m => i \in 1 .. m
            BY <1>0
        <3> QED
            BY <1>0, <2>1, <3>1
    <2> DEFINE k == i - m + 1
    <2>3. k \in 1 .. l /\ i \in m + 1 .. n
        BY <1>0, <2>2
    <2>4. t[k] = u[i]
        BY <1>0, <2>3
    <2>5. ASSUME NEW j \in 1 .. k - 1
          PROVE  t[j][1] # "terminate"
        <3>1. CASE j = 1
            BY <1>0, <1>3, <3>1
        <3>2. CASE j > 1
            <4> DEFINE h == j + m - 1
            <4>1. h \in m + 1 .. n /\ h \in 1 .. i - 1 /\ h - m + 1 = j
                BY <1>0, <2>2, <2>3, <3>2
            <4> HIDE DEF h
            <4> QED
                BY <1>0, <2>1, <4>1
        <3> QED
            BY <1>0, <2>3, <3>1, <3>2
    <2> HIDE DEF k
    <2> QED
        BY <1>0, <2>1, <2>3, <2>4, <2>5 DEF Generating, n, l
<1>4. ASSUME n >= 1
      PROVE  \/ m >= 1 /\ u[1] = more[1]
             \/ m = 0 /\ u[1][1] \notin {"truncate", "migrate", "undo", "files"}
    <2>1. CASE m = 0
        <3>1. 1 \in m + 1 .. n /\ 1 - m + 1 = 2 /\ 2 \in 2 .. l
            BY <1>0, <1>4, <2>1
        <3> QED
            BY <1>0, <1>1, <2>1, <3>1
    <2>2. CASE m >= 1
        <3>1. 1 \in 1 .. m
            BY <1>0, <2>2
        <3> QED
            BY <1>0, <2>2, <3>1
    <2> QED
        BY <1>0, <2>1, <2>2
<1> QED
    BY <1>0, <1>2, <1>3, <1>4 DEF Later, n, m

\* What is next after a step.
LEMMA NextStatement ==
    ASSUME TypeOK, Programs, NEW s \in Slot, Step(s), Later(todo[s])
    PROVE  /\ Later(todo'[s])
           /\ \A q \in Slot \ {s} : todo'[q] = todo[q]
           /\ Generating(todo'[s]) => Generating(todo[s]) \/ Terminate(s)
           /\ todo'[s] # <<>> =>
                 LET x == Head(todo'[s]) IN
                 /\ x[1] # "files"
                 /\ x[1] = "truncate" => x[3] \/ "migrations" \notin x[2]
                 /\ x[1] = "migrate" => FindPending(s) /\ x[2] = files \ data.record /\ x[2] # {}
                 /\ x[1] = "undo" => FindLast(s) /\ x[2] \in data.record
<1>1. PICK more \in Seq(Statement) : Proceed(s, more) /\ Adds(s, more)
    BY StepAdds
<1> DEFINE t == todo[s]
           u == todo'[s]
<1>2. /\ t \in Seq(Statement) /\ t # <<>> /\ u = more \o Tail(t) /\ Later(t)
      /\ \A q \in Slot \ {s} : todo'[q] = todo[q]
    BY <1>1, StepIs DEF Programs, Proceed
<1>3. /\ \A i \in 1 .. Len(more) : more[i][1] \notin {"files", "generate"}
      /\ \A i \in 2 .. Len(more) : more[i][1] = "register"
    <2>1. CASE more = <<>>
        BY <2>1
    <2>2. ASSUME NEW x \in Statement, more = << x >>, x[1] \notin {"files", "generate"}
          PROVE  <1>3
        BY <2>2
    <2>3. ASSUME NEW x \in Statement, NEW y \in Statement, more = << x, y >>, x[1] = "run", y[1] = "register"
          PROVE  <1>3
        <3>1. Len(more) = 2 /\ more[1] = x /\ more[2] = y
            BY <2>3
        <3>2. \A i \in 1 .. Len(more) : i = 1 \/ i = 2
            BY <3>1
        <3> QED
            BY <2>3, <3>1, <3>2
    <2> QED
        BY <1>1, <2>1, <2>2, <2>3 DEF Adds
<1>4. t[1] = Head(t)
    BY <1>2, HeadTailProperties
<1> HIDE DEF t, u
<1>5. /\ Later(u)
      /\ Generating(u) => Generating(t) \/ t[1][1] = "terminate"
      /\ u # <<>> => \/ more # <<>> /\ Head(u) = more[1]
                     \/ more = <<>> /\ Head(u)[1] \notin {"truncate", "migrate", "undo", "files"}
    <2>1. /\ u \in Seq(Statement) /\ Len(u) = Len(more) + Len(t) - 1
          /\ Len(u) \in Nat /\ Len(more) \in Nat /\ Len(t) \in Nat \ {0}
          /\ \A i \in 1 .. Len(more) : u[i] = more[i]
          /\ \A i \in Len(more) + 1 .. Len(u) : u[i] = t[i - Len(more) + 1]
        BY <1>2, Rest
    <2>2. Len(t) \in Nat /\ Len(t) >= 1
        BY <2>1
    <2>3. /\ Later(u)
          /\ Generating(u) => Generating(t) \/ t[1][1] = "terminate"
          /\ Len(u) >= 1 => \/ Len(more) >= 1 /\ u[1] = more[1]
                            \/ Len(more) = 0 /\ u[1][1] \notin {"truncate", "migrate", "undo", "files"}
        <3>1. Later(t)
            BY <1>2
        <3> QED
            BY <1>3, <2>1, <2>2, <3>1, GoesOn
    <2>4. u # <<>> => Len(u) >= 1 /\ Head(u) = u[1]
        BY <2>1, EmptySeq, HeadTailProperties
    <2>5. (Len(more) >= 1 => more # <<>>) /\ (Len(more) = 0 => more = <<>>)
        BY EmptySeq
    <2> QED
        BY <2>3, <2>4, <2>5
<1>6. t[1][1] = "terminate" => Terminate(s)
    BY <1>2, <1>4, StepIs DEF At, t
<1>7. ASSUME u # <<>>, more # <<>>
      PROVE  LET x == Head(u) IN
             /\ x[1] # "files"
             /\ x[1] = "truncate" => x[3] \/ "migrations" \notin x[2]
             /\ x[1] = "migrate" => FindPending(s) /\ x[2] = files \ data.record /\ x[2] # {}
             /\ x[1] = "undo" => FindLast(s) /\ x[2] \in data.record
    <2>1. ASSUME NEW x \in Statement, more = << x >>
          PROVE  Head(u) = x
        BY <1>5, <1>7, <2>1
    <2>2. ASSUME NEW x \in Statement, NEW y \in Statement, more = << x, y >>
          PROVE  Head(u) = x
        BY <1>5, <1>7, <2>2
    <2> QED
        BY <1>1, <1>7, <2>1, <2>2 DEF Adds
<1> QED
    BY <1>2, <1>5, <1>6, <1>7 DEF t, u

\* A migration is generated by db:fresh alone, after it has terminated the
\* connections, and the migrations it finds are removed first.
LEMMA FreshKinds ==
    ASSUME NEW i \in 1 .. 11 + 3 * N
    PROVE  /\ FreshScript[i][1] \notin {"truncate", "migrate", "undo"}
           /\ FreshScript[i][1] = "files" => i = 1
           /\ FreshScript[i][1] = "generate" => i = 7 + 2 * N
<1>1. N \in Nat
    BY EnsureIs
<1> DEFINE k == i - 1
<1>2. k \in 0 .. 10 + 3 * N /\ i = k + 1
    BY <1>1
<1> HIDE DEF k
<1>3. CASE k \in {0, 1, 2, 3, 6 + 2 * N, 9 + 3 * N}
    <2>1. i \in {1, 2, 3, 4, 7 + 2 * N, 10 + 3 * N}
        BY <1>1, <1>2, <1>3
    <2>2. /\ FreshScript[1] = <<"files">> /\ FreshScript[2] = <<"terminate">>
          /\ FreshScript[3] = <<"findToDrop">> /\ FreshScript[4] = <<"findToCreate">>
          /\ FreshScript[7 + 2 * N] = <<"generate">> /\ FreshScript[10 + 3 * N] = <<"pending">>
        BY FreshIs
    <2>3. i = 1 \/ i = 7 + 2 * N \/ FreshScript[i] \in {<<"terminate">>, <<"findToDrop">>, <<"findToCreate">>, <<"pending">>}
        BY <2>1, <2>2
    <2>4. CASE i = 1
        BY <2>2, <2>4
    <2>5. CASE i = 7 + 2 * N
        BY <2>2, <2>5
    <2>6. CASE FreshScript[i] \in {<<"terminate">>, <<"findToDrop">>, <<"findToCreate">>, <<"pending">>}
        BY <2>6
    <2> QED
        BY <2>3, <2>4, <2>5, <2>6
<1>4. CASE FreshScript[i] = <<"close">> \/ \E j \in 1 .. N : FreshScript[i] = <<"schema", Required[j]>>
    BY <1>4
<1> QED
    BY <1>2, <1>3, <1>4, FreshNext

\* The other scripts contain neither.
LEMMA ServingKinds ==
    ASSUME NEW name \in Serving, NEW i \in 1 .. Len(Steps(name))
    PROVE  Steps(name)[i][1] \notin {"truncate", "migrate", "undo", "files", "generate"}
<1>1. Len(Steps(name)) \in Nat /\ N \in Nat
    BY ServingIs
<1> DEFINE k == i - 1
<1>2. k \in 0 .. Len(Steps(name)) - 1 /\ i = k + 1
    BY <1>1
<1> HIDE DEF k
<1>3. CASE Steps(name)[i] = <<"close">> \/ Steps(name)[i] = <<"schema", Required[k + 1]>>
    BY <1>3
<1>4. CASE name # "schemas" /\ k - N \in 1 .. Len(Body(name)) /\ Steps(name)[i] = Body(name)[k - N]
    <2> DEFINE j == k - N
               x == Body(name)[j]
    <2>1. name \in Serving \ {"schemas"} /\ j \in 1 .. Len(Body(name))
        BY <1>4
    <2> HIDE DEF j
    <2>2. \/ x = <<"list", name = "truncate:with-migrations">> \/ x = <<"seed">>
          \/ x = <<"pending">> \/ x = <<"last">> \/ x = <<"registry">>
          \/ \E y \in RequiredSet : x = <<"wipe", y>> \/ x = <<"schema", y>>
          \/ x = <<"asset", Assets[j - 1], name = "sql-assets:force">>
        <3>1. CASE name \in Emptying
            BY <2>1, <3>1, BodyNext
        <3>2. CASE name \in {"migrate", "migrate:revert"}
            BY <2>1, <3>2, BodyNext
        <3>3. CASE name \in Resetting
            BY <2>1, <3>3, BodyNext
        <3>4. CASE name \in Syncing
            BY <2>1, <3>4, BodyNext
        <3> QED
            BY <2>1, <3>1, <3>2, <3>3, <3>4, Groups
    <2> HIDE DEF x
    <2>3. x[1] \in {"list", "seed", "pending", "last", "registry", "wipe", "schema", "asset"}
        BY <2>2
    <2> QED
        BY <1>4, <2>3 DEF x, j
<1> QED
    BY <1>2, <1>3, <1>4, ServingNext

\* A script as it starts.
LEMMA StartShape ==
    ASSUME NEW name \in Scripts
    PROVE  /\ Later(Steps(name))
           /\ ~Generating(Steps(name))
           /\ Steps(name) # <<>>
           /\ Head(Steps(name))[1] \notin {"truncate", "migrate", "undo"}
<1> DEFINE t == Steps(name)
<1>1. t \in Seq(Fixed) /\ t # <<>>
    BY StepsFormed
<1>2. Len(t) \in Nat /\ Len(t) >= 1 /\ Head(t) = t[1]
    BY <1>1, EmptySeq, HeadTailProperties
<1> HIDE DEF t
<1>3. CASE name \in Serving
    <2>1. \A i \in 1 .. Len(t) : t[i][1] \notin {"truncate", "migrate", "undo", "files", "generate"}
        BY <1>3, ServingKinds DEF t
    <2>2. Later(t) /\ ~Generating(t)
        BY <2>1 DEF Later, Generating
    <2>3. Head(t)[1] \notin {"truncate", "migrate", "undo"}
        <3>1. 1 \in 1 .. Len(t)
            BY <1>2
        <3> QED
            BY <1>2, <2>1, <3>1
    <2> QED
        BY <1>1, <2>2, <2>3 DEF t
<1>4. CASE name \in Rebuilding
    <2> DEFINE b == Begin(name)
               e == End(name)
    <2>1. /\ t = Left(FreshScript, b, e) /\ b \in Nat /\ e \in Nat /\ b <= e /\ e <= Len(FreshScript)
          /\ N \in Nat /\ FreshScript \in Seq(Fixed) /\ Len(FreshScript) = 11 + 3 * N
          /\ FreshScript[2] = <<"terminate">>
        BY <1>4, RebuildIs, EnsureIs, FreshIs DEF t
    <2>2. (name = "fresh" => b = 0) /\ (name # "fresh" => e <= 5 + N)
        BY <1>4, <2>1 DEF Begin, End, Rebuilding
    <2> HIDE DEF b, e
    <2>3. Len(t) = e - b /\ \A i \in 1 .. e - b : t[i] = FreshScript[b + i]
        <3>1. \A i \in b + 1 .. e : FreshScript[i] \in Fixed
            BY <2>1, ElementOfSeq
        <3>2. /\ Len(SubSeq(FreshScript, b + 1, e)) = IF b + 1 <= e THEN e - (b + 1) + 1 ELSE 0
              /\ \A i \in 1 .. e - (b + 1) + 1 : SubSeq(FreshScript, b + 1, e)[i] = FreshScript[b + 1 + i - 1]
            BY <2>1, <3>1, SubSeqProperties
        <3> QED
            BY <2>1, <3>2 DEF Left
    <2>4. ASSUME NEW i \in 1 .. Len(t)
          PROVE  /\ b + i \in 1 .. 11 + 3 * N /\ t[i] = FreshScript[b + i]
        BY <2>1, <2>3
    <2>5. Later(t)
        <3> SUFFICES ASSUME NEW i \in 2 .. Len(t)
                     PROVE  t[i][1] \notin {"truncate", "migrate", "undo", "files"}
            BY DEF Later
        <3>1. i \in 1 .. Len(t) /\ b + i # 1
            BY <1>2, <2>1
        <3> QED
            BY <2>4, <3>1, FreshKinds
    <2>6. ~Generating(t)
        <3> SUFFICES ASSUME NEW i \in 1 .. Len(t), t[i][1] = "generate",
                            \A j \in 1 .. i - 1 : t[j][1] # "terminate"
                     PROVE  FALSE
            BY DEF Generating
        <3>0. b + i \in 1 .. 11 + 3 * N /\ FreshScript[b + i][1] = "generate" /\ b + i <= e
            BY <2>1, <2>3, <2>4
        <3>1. b + i = 7 + 2 * N /\ b + i <= e
            BY <3>0, FreshKinds
        <3>2. name = "fresh" /\ b = 0
            BY <2>1, <2>2, <3>1
        <3>3. 2 \in 1 .. Len(t) /\ 2 \in 1 .. i - 1
            BY <1>2, <2>1, <3>1, <3>2
        <3>4. t[2] = <<"terminate">>
            BY <2>1, <2>4, <3>2, <3>3
        <3> QED
            BY <3>3, <3>4
    <2>7. Head(t)[1] \notin {"truncate", "migrate", "undo"}
        <3>1. 1 \in 1 .. Len(t)
            BY <1>2
        <3> QED
            BY <1>2, <2>4, <3>1, FreshKinds
    <2> QED
        BY <1>1, <2>5, <2>6, <2>7 DEF t
<1> QED
    BY <1>3, <1>4 DEF Serving

\* What is known of a statement that is next.
Shape(s) ==
    /\ Later(todo[s])
    /\ At(s, "truncate") => Arg(s, 3) \/ "migrations" \notin Arg(s, 2)
    /\ At(s, "files") => ~Generating(todo[s])
    /\ At(s, "migrate") => IsFiniteSet(Arg(s, 2))

\* One migration is on record if the tables are there, and none if they are not.
OneMigration ==
    ~skewed => IF "app" \in data.tables THEN \E m \in Migrations : data.record = {m}
                                        ELSE data.record = {}

\* What a script is about to undo is what is on record.  Or the other script has
\* just undone it; then that one is about to run no other migration, and it
\* generates none before it terminates this one's connection.
UndoesTheLast(s) ==
    ~skewed /\ conn[s] /\ At(s, "undo") =>
        LET m == Arg(s, 2) IN
        \/ data.record = {m}
        \/ /\ data.record = {}
           /\ \A q \in Slot \ {s} : conn[q] /\ At(q, "migrate") => m \in Arg(q, 2)
           /\ \/ m \in files
              \/ files = {} /\ \A q \in Slot \ {s} : ~Generating(todo[q])

TwoAtOnce == \A a, b, c \in Slot : a = b \/ b = c \/ a = c

PInv ==
    /\ IInv
    /\ IsFiniteSet(files)
    /\ \A s \in Slot : Shape(s) /\ UndoesTheLast(s)
    /\ OneMigration

\* What a statement does to the record and to the tables of the application.
LEMMA StepRecords ==
    ASSUME TypeOK, Programs, NEW s \in Slot, Shape(s), Step(s)
    PROVE  \/ /\ data'.record = data.record /\ skewed' = skewed
              /\ "app" \in data'.tables <=> "app" \in data.tables
           \/ /\ data'.record = {} /\ "app" \notin data'.tables /\ \A q \in Slot : ~conn[q]
              /\ conn' = conn
           \/ skewed'
           \/ /\ Migrate(s) /\ "app" \notin data.tables /\ "app" \in data'.tables /\ conn[s]
              /\ \E m \in Migrations : Arg(s, 2) = {m} /\ data'.record = data.record \cup {m}
              /\ skewed' = skewed
           \/ /\ Undo(s) /\ "app" \in data.tables /\ "app" \notin data'.tables /\ conn[s]
              /\ data'.record = data.record \ {Arg(s, 2)}
              /\ Arg(s, 2) \in files
              /\ skewed' = skewed
<1>1. data \in Databases /\ skewed \in BOOLEAN /\ Formed(todo[s]) /\ todo[s] # <<>>
    BY StepIs DEF TypeOK, Programs
<1>2. CASE DropDatabase(s)
    BY <1>2 DEF DropDatabase, Runs, Works, Blank
<1>3. CASE CreateDatabase(s)
    <2>1. data = Blank /\ data' = [Blank EXCEPT !.schemas = {"public"}] /\ skewed' = skewed
        BY <1>3 DEF CreateDatabase, Runs, Works, TypeOK, history
    <2> QED
        BY <2>1 DEF Blank
<1>4. CASE WipeSchema(s)
    BY <1>4 DEF WipeSchema
<1>5. CASE TruncateTables(s)
    <2>1. /\ skewed' = (skewed \/ Arg(s, 3)) /\ At(s, "truncate") /\ data'.tables = data.tables
          /\ "migrations" \notin Arg(s, 2) => data'.record = data.record
        BY <1>1, <1>5 DEF TruncateTables, Runs, Databases
    <2>2. CASE skewed \/ Arg(s, 3)
        BY <2>1, <2>2
    <2>3. CASE ~skewed /\ ~Arg(s, 3)
        <3>1. ~skewed'
            BY <2>1, <2>3
        <3> QED
            BY <1>5, <2>1, <2>3, <3>1 DEF Shape, TypeOK
    <2> QED
        BY <2>2, <2>3
<1>6. CASE Migrate(s)
    <2>1. /\ At(s, "migrate") /\ Works(s) /\ skewed' = skewed
          /\ data' = [data EXCEPT !.tables = @ \cup {"app"}, !.record = @ \cup Arg(s, 2)]
        BY <1>6 DEF Migrate, Runs, history
    <2>2. /\ data'.tables = data.tables \cup {"app"} /\ data'.record = data.record \cup Arg(s, 2)
        BY <1>1, <2>1 DEF Databases
    <2>3. "app" \notin data.tables /\ conn[s] /\ Cardinality(Arg(s, 2)) = 1
        BY <1>1, <2>1 DEF Works, At, OnRunner
    <2>4. Arg(s, 2) \subseteq Migrations
        <3>1. Head(todo[s]) \in Fixed /\ Head(todo[s])[1] = "migrate"
            BY <1>1, <2>1, FirstFixed DEF At
        <3> QED
            BY <3>1, FixedArguments DEF Arg
    <2>5. \E m : Arg(s, 2) = {m}
        BY <2>1, <2>3, FS_Singleton DEF Shape
    <2> QED
        BY <1>6, <2>1, <2>2, <2>3, <2>4, <2>5
<1>7. CASE Undo(s)
    <2>1. /\ At(s, "undo") /\ Works(s) /\ skewed' = skewed
          /\ data' = [Without(data, {"app"}) EXCEPT !.record = @ \ {Arg(s, 2)}]
        BY <1>7 DEF Undo, Runs
    <2>2. data'.tables = data.tables \ {"app"} /\ data'.record = data.record \ {Arg(s, 2)}
        BY <1>1, <2>1 DEF Without, Databases
    <2>3. "app" \in data.tables /\ conn[s] /\ Arg(s, 2) \in files
        BY <1>1, <2>1 DEF Works, At, OnRunner
    <2> QED
        BY <1>7, <2>1, <2>2, <2>3
<1>8. CASE \/ Terminate(s) \/ FindToDrop(s) \/ FindToCreate(s) \/ ListTables(s) \/ Close(s)
           \/ RemoveInitialSchemaMigrations(s) \/ Generate(s) \/ CheckAsset(s)
    BY <1>8 DEF Terminate, FindToDrop, FindToCreate, ListTables, Close,
       RemoveInitialSchemaMigrations, Generate, CheckAsset, history
<1>9. CASE \/ CreateSchema(s) \/ Seed(s) \/ EnsureRegistryTable(s) \/ RunAsset(s) \/ UpsertRegistry(s)
           \/ RunAndRegister(s) \/ FindPending(s) \/ FindLast(s)
    <2>1. /\ data'.record = data.record /\ skewed' = skewed
          /\ data'.tables \in {data.tables, data.tables \cup {"registry"}, data.tables \cup {"migrations"}}
        BY <1>1, <1>9 DEF CreateSchema, Seed, EnsureRegistryTable, RunAsset, UpsertRegistry,
           RunAndRegister, FindPending, FindLast, Databases, history
    <2> QED
        BY <2>1
<1> QED
    BY <1>2, <1>3, <1>4, <1>5, <1>6, <1>7, <1>8, <1>9 DEF Step

\* What it does to the migrations in the source tree, and to connections.
LEMMA StepFiles ==
    ASSUME TypeOK, Programs, NEW s \in Slot, Step(s)
    PROVE  /\ \/ files' = files
              \/ files' = {} /\ At(s, "files")
              \/ At(s, "generate") /\ \E m : files' = files \cup {m}
           /\ \A q \in Slot \ {s} : conn'[q] => conn[q]
           /\ Terminate(s) => \A q \in Slot : ~conn'[q]
<1>1. conn \in [Slot -> BOOLEAN]
    BY DEF TypeOK
<1>2. CASE Terminate(s)
    BY <1>1, <1>2 DEF Terminate, environment
<1>3. CASE RemoveInitialSchemaMigrations(s) \/ Generate(s)
    BY <1>1, <1>3 DEF RemoveInitialSchemaMigrations, Generate, Runs, Terminate
<1>4. CASE ~Terminate(s) /\ ~RemoveInitialSchemaMigrations(s) /\ ~Generate(s)
    BY <1>1, <1>4 DEF Step, FindToDrop, DropDatabase, FindToCreate, CreateDatabase, CreateSchema,
       WipeSchema, ListTables, TruncateTables, Close, FindPending, Migrate, FindLast, Undo,
       Seed, EnsureRegistryTable, CheckAsset, RunAsset,
       UpsertRegistry, RunAndRegister, Query, environment
<1> QED
    BY <1>2, <1>3, <1>4

\* The shape of a script is kept ...
LEMMA StepShape ==
    ASSUME PInv, NEW s \in Slot, Step(s), NEW q \in Slot
    PROVE  Shape(q)'
<1>1. TypeOK /\ Programs /\ Shape(s) /\ Shape(q) /\ IsFiniteSet(files)
    BY DEF PInv, IInv
<1>2. /\ Later(todo'[s])
      /\ \A p \in Slot \ {s} : todo'[p] = todo[p]
      /\ todo'[s] # <<>> =>
            LET x == Head(todo'[s]) IN
            /\ x[1] # "files"
            /\ x[1] = "truncate" => x[3] \/ "migrations" \notin x[2]
            /\ x[1] = "migrate" => FindPending(s) /\ x[2] = files \ data.record /\ x[2] # {}
    BY <1>1, NextStatement DEF Shape
<1>3. CASE q # s
    <2>1. todo'[q] = todo[q]
        BY <1>2, <1>3
    <2> QED
        BY <1>1, <2>1 DEF Shape, At, Arg
<1>4. CASE q = s
    <2>1. IsFiniteSet(files \ data.record)
        BY <1>1, FS_Subset
    <2> QED
        BY <1>2, <1>4, <2>1 DEF Shape, At, Arg
<1> QED
    BY <1>3, <1>4

\* ... and so is what the record tells ...
LEMMA StepOneMigration ==
    ASSUME PInv, NEW s \in Slot, Step(s)
    PROVE  OneMigration'
<1> SUFFICES ASSUME ~skewed'
             PROVE  IF "app" \in data'.tables THEN \E m \in Migrations : data'.record = {m}
                                              ELSE data'.record = {}
    BY DEF OneMigration
<1>1. TypeOK /\ Programs /\ Shape(s) /\ OneMigration /\ UndoesTheLast(s)
    BY DEF PInv, IInv
<1>2. CASE /\ data'.record = data.record /\ skewed' = skewed
           /\ "app" \in data'.tables <=> "app" \in data.tables
    BY <1>1, <1>2 DEF OneMigration
<1>3. CASE data'.record = {} /\ "app" \notin data'.tables
    BY <1>3
<1>4. CASE /\ Migrate(s) /\ "app" \notin data.tables /\ "app" \in data'.tables
           /\ \E m \in Migrations : Arg(s, 2) = {m} /\ data'.record = data.record \cup {m}
           /\ skewed' = skewed
    BY <1>1, <1>4 DEF OneMigration
<1>5. CASE /\ Undo(s) /\ "app" \in data.tables /\ "app" \notin data'.tables /\ conn[s]
           /\ data'.record = data.record \ {Arg(s, 2)}
           /\ skewed' = skewed
    <2>1. At(s, "undo") /\ data.record # {}
        BY <1>1, <1>5 DEF Undo, Runs, OneMigration
    <2>2. data.record = {Arg(s, 2)}
        BY <1>1, <1>5, <2>1 DEF UndoesTheLast
    <2> QED
        BY <1>5, <2>2
<1> QED
    BY <1>1, <1>2, <1>3, <1>4, <1>5, StepRecords

\* ... and, with two scripts, what they are about to undo.
LEMMA StepUndoesTheLast ==
    ASSUME TwoAtOnce, PInv, NEW r \in Slot, Step(r), NEW s \in Slot
    PROVE  UndoesTheLast(s)'
<1>1. /\ TypeOK /\ Programs /\ Shape(r) /\ OneMigration /\ UndoesTheLast(s) /\ UndoesTheLast(r)
    BY DEF PInv, IInv
<1>2. /\ \A p \in Slot \ {r} : todo'[p] = todo[p]
      /\ Generating(todo'[r]) => Generating(todo[r]) \/ Terminate(r)
      /\ todo'[r] # <<>> =>
            LET x == Head(todo'[r]) IN
            /\ x[1] = "migrate" => FindPending(r) /\ x[2] = files \ data.record /\ x[2] # {}
            /\ x[1] = "undo" => FindLast(r) /\ x[2] \in data.record
    BY <1>1, NextStatement DEF Shape
<1>3. /\ \/ files' = files
         \/ files' = {} /\ At(r, "files")
         \/ At(r, "generate") /\ \E m : files' = files \cup {m}
      /\ \A q \in Slot \ {r} : conn'[q] => conn[q]
      /\ Terminate(r) => \A q \in Slot : ~conn'[q]
    BY <1>1, StepFiles
<1>4. \/ /\ data'.record = data.record /\ skewed' = skewed
         /\ "app" \in data'.tables <=> "app" \in data.tables
      \/ /\ data'.record = {} /\ "app" \notin data'.tables /\ \A q \in Slot : ~conn[q]
         /\ conn' = conn
      \/ skewed'
      \/ /\ Migrate(r) /\ "app" \notin data.tables /\ "app" \in data'.tables /\ conn[r]
         /\ \E m \in Migrations : Arg(r, 2) = {m} /\ data'.record = data.record \cup {m}
         /\ skewed' = skewed
      \/ /\ Undo(r) /\ "app" \in data.tables /\ "app" \notin data'.tables /\ conn[r]
         /\ data'.record = data.record \ {Arg(r, 2)}
         /\ Arg(r, 2) \in files
         /\ skewed' = skewed
    BY <1>1, StepRecords
<1> SUFFICES ASSUME ~skewed', conn'[s], At(s, "undo")', NEW m, m = Arg(s, 2)'
             PROVE  \/ data'.record = {m}
                    \/ /\ data'.record = {}
                       /\ \A q \in Slot \ {s} : conn'[q] /\ At(q, "migrate")' => m \in Arg(q, 2)'
                       /\ \/ m \in files'
                          \/ files' = {} /\ \A q \in Slot \ {s} : ~Generating(todo'[q])
    BY DEF UndoesTheLast
\* It has just looked up what to undo.
<1>5. CASE s = r
    <2>1. FindLast(r) /\ m \in data.record
        BY <1>2, <1>5 DEF At, Arg
    <2>2. data'.record = data.record /\ ~skewed
        BY <1>1, <2>1 DEF FindLast, TypeOK, Databases, history
    <2> QED
        BY <1>1, <2>1, <2>2 DEF OneMigration
\* The other script takes a step.
<1>6. CASE s # r
    <2>1. /\ todo'[s] = todo[s] /\ conn[s] /\ At(s, "undo") /\ m = Arg(s, 2)
          /\ ~Terminate(r) /\ ~skewed
          /\ \A q \in Slot \ {s} : q = r
        <3>1. todo'[s] = todo[s] /\ conn[s] /\ ~Terminate(r)
            BY <1>2, <1>3, <1>6
        <3>2. ~skewed
            BY <1>4, <3>1
        <3>3. \A q \in Slot \ {s} : q = r
            BY <1>6 DEF TwoAtOnce
        <3> QED
            BY <3>1, <3>2, <3>3 DEF At, Arg
    <2>2. CASE data.record = {m}
        <3>1. "app" \in data.tables
            BY <1>1, <2>1, <2>2 DEF OneMigration
        <3>2. CASE data'.record = data.record
            BY <2>2, <3>2
        <3>3. CASE /\ Undo(r) /\ data'.record = data.record \ {Arg(r, 2)} /\ Arg(r, 2) \in files
                   /\ conn[r]
            <4>1. At(r, "undo") /\ files' = files /\ At(r, "migrate")' = FALSE
                <5>1. At(r, "undo") /\ files' = files
                    BY <3>3 DEF Undo, Runs, Query, environment
                <5>2. ~FindPending(r)
                    BY <5>1 DEF FindPending, Runs, At
                <5> QED
                    BY <1>2, <5>1, <5>2 DEF At
            <4>2. data.record = {Arg(r, 2)}
                BY <1>1, <2>1, <2>2, <3>3, <4>1 DEF UndoesTheLast
            <4>3. Arg(r, 2) = m
                BY <2>2, <4>2
            <4> QED
                BY <2>1, <3>3, <4>1, <4>2, <4>3
        <3> QED
            BY <1>4, <2>1, <3>1, <3>2, <3>3
    <2>3. CASE /\ data.record = {}
               /\ \A q \in Slot \ {s} : conn[q] /\ At(q, "migrate") => m \in Arg(q, 2)
               /\ \/ m \in files
                  \/ files = {} /\ \A q \in Slot \ {s} : ~Generating(todo[q])
        <3>1. CASE Migrate(r) /\ conn[r] /\ \E n \in Migrations : Arg(r, 2) = {n} /\ data'.record = data.record \cup {n}
            <4>1. At(r, "migrate")
                BY <3>1 DEF Migrate, Runs
            <4>2. m \in Arg(r, 2)
                BY <1>6, <2>3, <3>1, <4>1
            <4> QED
                BY <2>3, <3>1, <4>2
        <3>2. CASE data'.record = {}
            <4>1. ASSUME At(r, "migrate")'
                  PROVE  m \in Arg(r, 2)'
                <5>1. Arg(r, 2)' = files \ data.record /\ Arg(r, 2)' # {}
                    BY <1>2, <4>1 DEF At, Arg
                <5> QED
                    BY <2>3, <5>1
            <4>2. \/ m \in files'
                  \/ files' = {} /\ ~Generating(todo'[r])
                <5>1. At(r, "generate") => Generating(todo[r])
                    <6> SUFFICES ASSUME At(r, "generate")
                                 PROVE  Generating(todo[r])
                        OBVIOUS
                    <6>1. todo[r] \in Seq(Statement) /\ todo[r] # <<>>
                        BY <1>1 DEF Programs, At
                    <6>2. Len(todo[r]) \in Nat /\ Len(todo[r]) >= 1 /\ Head(todo[r]) = todo[r][1]
                        BY <6>1, EmptySeq, HeadTailProperties
                    <6>3. 1 \in 1 .. Len(todo[r]) /\ todo[r][1][1] = "generate" /\ 1 .. 1 - 1 = {}
                        BY <6>2 DEF At
                    <6> QED
                        BY <6>3 DEF Generating
                <5>2. At(r, "files") => ~Generating(todo[r])
                    BY <1>1 DEF Shape
                <5>3. ~Generating(todo[r]) => ~Generating(todo'[r])
                    BY <1>2, <2>1
                <5> QED
                    BY <1>3, <1>6, <2>3, <5>1, <5>2, <5>3
            <4> QED
                BY <2>1, <3>2, <4>1, <4>2
        <3> QED
            BY <1>4, <2>1, <2>3, <3>1, <3>2
    <2> QED
        BY <1>1, <2>1, <2>2, <2>3 DEF UndoesTheLast
<1> QED
    BY <1>5, <1>6

\* Starting a script, or its end by an error, changes neither the record nor the
\* migrations.
LEMMA SlotKeepsRecord ==
    ASSUME PInv, NEW r \in Slot, (\E name \in Scripts : Start(r, name)) \/ Fail(r)
    PROVE  /\ IsFiniteSet(files')
           /\ \A s \in Slot : Shape(s)' /\ UndoesTheLast(s)'
           /\ OneMigration'
<1>1. TypeOK /\ Programs /\ (\A s \in Slot : Shape(s) /\ UndoesTheLast(s)) /\ OneMigration
    BY DEF PInv, IInv
<1>2. /\ files' = files /\ data' = data /\ skewed' = skewed
      /\ \A q \in Slot \ {r} : todo'[q] = todo[q] /\ conn'[q] = conn[q]
      /\ conn'[r] => conn[r]
      /\ Later(todo'[r]) /\ ~Generating(todo'[r])
      /\ todo'[r] # <<>> => Head(todo'[r])[1] \notin {"truncate", "migrate", "undo"}
    <2>0. todo \in [Slot -> Seq(Statement)] /\ conn \in [Slot -> BOOLEAN]
        BY <1>1 DEF TypeOK, Programs
    <2>1. CASE \E name \in Scripts : Start(r, name)
        <3>1. PICK name \in Scripts : Start(r, name)
            BY <2>1
        <3>2. /\ todo' = [todo EXCEPT ![r] = Steps(name)]
              /\ UNCHANGED <<files, data, skewed, conn>>
            BY <3>1 DEF Start, environment, history
        <3> QED
            BY <2>0, <3>2, StartShape
    <2>2. CASE Fail(r)
        <3>1. /\ todo' = [todo EXCEPT ![r] = <<>>] /\ conn' = [conn EXCEPT ![r] = FALSE]
              /\ UNCHANGED <<files, data, skewed>>
            BY <2>2 DEF Fail, environment
        <3>2. todo'[r] = <<>> /\ Later(<<>>) /\ ~Generating(<<>>)
            BY <2>0, <3>1 DEF Later, Generating
        <3> QED
            BY <2>0, <3>1, <3>2
    <2> QED
        BY <2>1, <2>2
<1>3. ASSUME NEW s \in Slot
      PROVE  Shape(s)'
    <2>1. CASE s = r
        BY <1>2, <2>1 DEF Shape, At, Arg
    <2>2. CASE s # r
        BY <1>1, <1>2, <2>2 DEF Shape, At, Arg
    <2> QED
        BY <2>1, <2>2
<1>4. ASSUME NEW s \in Slot
      PROVE  UndoesTheLast(s)'
    <2>1. CASE s = r
        BY <1>2, <2>1 DEF UndoesTheLast, At
    <2>2. CASE s # r
        <3>1. UndoesTheLast(s) /\ todo'[s] = todo[s] /\ conn'[s] = conn[s]
            BY <1>1, <1>2, <2>2
        <3>2. \A q \in Slot \ {s} :
                 /\ conn'[q] /\ At(q, "migrate")' => conn[q] /\ At(q, "migrate") /\ Arg(q, 2)' = Arg(q, 2)
                 /\ ~Generating(todo[q]) => ~Generating(todo'[q])
            <4> SUFFICES ASSUME NEW q \in Slot \ {s}
                         PROVE  /\ conn'[q] /\ At(q, "migrate")' =>
                                      conn[q] /\ At(q, "migrate") /\ Arg(q, 2)' = Arg(q, 2)
                                /\ ~Generating(todo[q]) => ~Generating(todo'[q])
                OBVIOUS
            <4>1. CASE q = r
                BY <1>2, <4>1 DEF At
            <4>2. CASE q # r
                BY <1>2, <4>2 DEF At, Arg
            <4> QED
                BY <4>1, <4>2
        <3> QED
            BY <1>2, <3>1, <3>2 DEF UndoesTheLast, At, Arg
    <2> QED
        BY <2>1, <2>2
<1>5. IsFiniteSet(files') /\ OneMigration'
    BY <1>1, <1>2 DEF PInv, OneMigration
<1> QED
    BY <1>3, <1>4, <1>5

\* Nor does anybody else.
LEMMA OthersKeepRecord ==
    ASSUME PInv,
           \/ ClientConnects \/ ClientWrites
           \/ \E a \in Asset, v \in Versions : EditAsset(a, v)
           \/ UNCHANGED vars
    PROVE  /\ IsFiniteSet(files')
           /\ \A s \in Slot : Shape(s)' /\ UndoesTheLast(s)'
           /\ OneMigration'
<1>1. /\ UNCHANGED <<files, todo, conn, skewed>>
      /\ data'.record = data.record /\ data'.tables = data.tables
    BY DEF ClientConnects, ClientWrites, EditAsset, Disturb, environment, history, vars, process,
       PInv, IInv, TypeOK, Databases
<1>2. ASSUME NEW s \in Slot
      PROVE  Shape(s)' /\ UndoesTheLast(s)'
    <2>1. Shape(s) /\ UndoesTheLast(s)
        BY DEF PInv
    <2> QED
        BY <1>1, <2>1 DEF Shape, UndoesTheLast, At, Arg
<1>3. IsFiniteSet(files') /\ OneMigration'
    BY <1>1 DEF PInv, OneMigration
<1> QED
    BY <1>2, <1>3

LEMMA PInvKept == ASSUME TwoAtOnce, PInv, [Next]_vars PROVE PInv'
<1>1. IInv'
    BY RegistryKept DEF PInv
<1>2. CASE \E s \in Slot : Step(s)
    <2>1. PICK s \in Slot : Step(s)
        BY <1>2
    <2>2. (\A q \in Slot : Shape(q)' /\ UndoesTheLast(q)') /\ OneMigration'
        BY <2>1, StepShape, StepOneMigration, StepUndoesTheLast
    <2>3. IsFiniteSet(files')
        <3>1. \/ files' = files
              \/ files' = {}
              \/ \E m : files' = files \cup {m}
            BY <2>1, StepFiles DEF PInv, IInv
        <3>2. IsFiniteSet(files)
            BY DEF PInv
        <3>3. IsFiniteSet({}) /\ \A m : IsFiniteSet(files \cup {m})
            BY <3>2, FS_EmptySet, FS_AddElement
        <3> QED
            BY <3>1, <3>2, <3>3
    <2> QED
        BY <1>1, <2>2, <2>3 DEF PInv
<1>3. CASE \E s \in Slot : (\E name \in Scripts : Start(s, name)) \/ Fail(s)
    BY <1>1, <1>3, SlotKeepsRecord DEF PInv
<1>4. CASE \/ ClientConnects \/ ClientWrites
           \/ \E a \in Asset, v \in Versions : EditAsset(a, v)
           \/ UNCHANGED vars
    BY <1>1, <1>4, OthersKeepRecord DEF PInv
<1> QED
    BY <1>2, <1>3, <1>4 DEF Next

LEMMA InitPInv == Init => PInv
<1> SUFFICES ASSUME Init
             PROVE  PInv
    OBVIOUS
<1>1. IInv
    BY InitTypes, InitRegistry DEF IInv
<1>2. ASSUME NEW s \in Slot
      PROVE  Shape(s) /\ UndoesTheLast(s)
    <2>1. todo[s] = <<>> /\ ~conn[s]
        BY DEF Init
    <2> QED
        BY <2>1 DEF Shape, UndoesTheLast, Later, At
<1>3. IsFiniteSet(files)
    <2>1. files = {} \/ \E m : files = {m}
        BY DEF Init
    <2> QED
        BY <2>1, FS_EmptySet, FS_Singleton
<1>4. OneMigration
    <2>1. /\ Blank.record = {} /\ Blank.tables = {}
          /\ [Blank EXCEPT !.schemas = {"public"}].record = {}
          /\ [Blank EXCEPT !.schemas = {"public"}].tables = {}
        BY DEF Blank
    <2>2. ASSUME NEW m \in Migrations
          PROVE  "app" \in Deployed(m).tables /\ Deployed(m).record = {m}
        BY DEF Deployed, Table
    <2> QED
        BY <2>1, <2>2 DEF Init, OneMigration
<1> QED
    BY <1>1, <1>2, <1>3, <1>4 DEF PInv

\* While no more than two scripts run at once, the record of migrations tells
\* whether the tables are there, for any number of scripts started one after the
\* other and wherever they fail.  Three that overlap can break it: two db:fresh that
\* record a migration each, with a revert of both that drops the tables once.
THEOREM RecordAlwaysTellsTruth == ASSUME TwoAtOnce PROVE Spec => []RecordTellsTruth
<1>1. Init => PInv
    BY InitPInv
<1>2. PInv /\ [Next]_vars => PInv'
    BY PInvKept
<1>3. PInv => RecordTellsTruth
    BY DEF PInv, OneMigration, RecordTellsTruth
<1> QED
    BY <1>1, <1>2, <1>3, PTL DEF Spec
=============================================================================
