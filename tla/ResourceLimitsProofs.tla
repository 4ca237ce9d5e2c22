------------------------ MODULE ResourceLimitsProofs ------------------------
(***************************************************************************)
(* Theorems about ResourceLimits, for any table, limits and number of      *)
(* requests.                                                               *)
(***************************************************************************)
EXTENDS ResourceLimits, FiniteSetTheorems, WellFoundedInduction, TLAPS

Context == [up : Id \cup {None}, owner : Owner \cup {None}]
WalkType == [cur : Id \cup {None}, seen : SUBSET Id, depth : Nat]
Snapshot == [current : Nat, maximum : Nat, reached : BOOLEAN]

\* The types of what the guards keep.
GuardTypes ==
    /\ pc \in [Request -> {"idle"} \cup Querying \cup Verdict]
    /\ ctx \in [Request -> Context]
    /\ walk \in [Request -> WalkType]
    /\ snap \in [Request -> Snapshot]
    /\ units \in [Request -> Nat]

WalkOK(r) ==
    /\ walk[r].cur \notin walk[r].seen
    /\ walk[r].depth = Cardinality(walk[r].seen) /\ walk[r].depth <= Safety

\* What a guard knows at each stage.
StageOK(r) ==
    /\ pc[r] # "idle" => ask[r] \in AskType
    /\ pc[r] = "hydrate" => ask[r].id \in Id
    /\ pc[r] \in {"walk", "link"} => walk[r].cur \in Id
    /\ pc[r] = "link" => walk[r].depth < Safety
    /\ pc[r] = "admitted" =>
        ~snap[r].reached /\ snap[r].current + units[r] <= snap[r].maximum
    /\ WalkOK(r)

\* What was counted is still the group, but for the rows that joined it since.
CountOK(r) ==
    pc[r] \in Counted =>
        snap[r].reached \/ Cardinality(Group(r)) <= snap[r].current + late[r]

\* The inductive invariant.
IInv == TypeOK /\ \A r \in Request : StageOK(r) /\ CountOK(r)

\* A step of r touches no other request.
Only(r) ==
    \A q \in Request \ {r} :
        /\ pc'[q] = pc[q] /\ ask'[q] = ask[q] /\ ctx'[q] = ctx[q] /\ walk'[q] = walk[q]
        /\ snap'[q] = snap[q] /\ units'[q] = units[q]

\* A step of r to a stage of a guard at work, or to its verdict.
Moves(r) ==
    /\ pc' \in [Request -> {"idle"} \cup Querying \cup Verdict]
    /\ walk' \in [Request -> WalkType]
    /\ snap' \in [Request -> Snapshot]
    /\ units' \in [Request -> Nat]
    /\ pc'[r] \notin {"idle", "hydrate"}
    /\ pc'[r] \in {"walk", "link"} => walk'[r].cur \in Id
    /\ pc'[r] = "link" => walk'[r].depth < Safety
    /\ pc'[r] = "admitted" =>
        ~snap'[r].reached /\ snap'[r].current + units'[r] <= snap'[r].maximum
    /\ WalkOK(r)'
    /\ \A q \in Request \ {r} :
        /\ pc'[q] = pc[q] /\ walk'[q] = walk[q] /\ snap'[q] = snap[q] /\ units'[q] = units[q]

\* The context of r is settled.
Settles(r) ==
    /\ ctx' \in [Request -> Context]
    /\ \A q \in Request \ {r} : ctx'[q] = ctx[q]

\* A snapshot is the number of rows in the group, and stays as it was taken.
Counting(r) ==
    pc'[r] \in Counted =>
        \/ snap'[r].reached
        \/ /\ pc[r] \notin Counted /\ ctx'[r] = ctx[r] /\ rows' = rows
           /\ snap'[r].current = Cardinality(Group(r))
        \/ pc[r] \in Counted /\ ctx'[r] = ctx[r] /\ snap'[r] = snap[r]

\* What a step of r keeps.
Keeps(r) ==
    /\ GuardTypes' /\ ask' \in [Request -> AskType \cup {None}]
    /\ StageOK(r)' /\ Only(r) /\ Counting(r)

-----------------------------------------------------------------------------
\* A set of natural numbers has a least element.
LEMMA SmallestNat ==
    ASSUME NEW T, T \subseteq Nat, T # {}
    PROVE  \E x \in T : \A y \in T : x <= y
<1> DEFINE R == OpToRel(<, Nat)
<1>1. IsWellFoundedOn(R, Nat)
    BY NatLessThanWellFounded, Zenon
<1>2. \E x \in T : \A y \in T : <<y, x>> \notin R
    <2> HIDE DEF R
    <2> QED
        BY <1>1, WFMin, Zenon
<1>3. PICK x \in T : \A y \in T : <<y, x>> \notin R
    BY <1>2
<1>4. \A y \in T : <<y, x>> \in R <=> y < x
    BY DEF OpToRel
<1> HIDE DEF R
<1>5. \A y \in T : ~(y < x)
    BY <1>3, <1>4, Zenon
<1> QED
    BY <1>5

\* The maximum of a level is one of those that are configured.
LEMMA MaximumType ==
    ASSUME config \in ConfigType, NEW level
    PROVE  MaximumAt(level) \in Nat
<1> DEFINE matching == { n \in DOMAIN config.rules : Matches(config.rules[n], level) }
           first == CHOOSE n \in matching : \A m \in matching : n <= m
<1>1. config.rules \in Seq(Rule) /\ config.maximum \in Nat
    BY DEF ConfigType
<1>2. CASE matching = {} \/ config.strategy # "tree"
    BY <1>1, <1>2 DEF MaximumAt
<1>3. CASE matching # {} /\ config.strategy = "tree"
    <2>1. matching \subseteq Nat
        BY <1>1
    <2>2. \E n \in matching : \A m \in matching : n <= m
        <3> HIDE DEF matching
        <3> QED
            BY <1>3, <2>1, SmallestNat
    <2>3. first \in matching
        <3> HIDE DEF matching
        <3> QED
            BY <2>2
    <2>4. first \in DOMAIN config.rules
        <3> HIDE DEF first
        <3> QED
            BY <2>3
    <2>5. config.rules[first].maximum \in Nat
        <3> HIDE DEF first
        <3>1. config.rules[first] \in Rule
            BY <2>4, <1>1
        <3> QED
            BY <3>1 DEF Rule
    <2>6. MaximumAt(level) = config.rules[first].maximum
        BY <1>3 DEF MaximumAt
    <2> QED
        BY <2>5, <2>6
<1> QED
    BY <1>2, <1>3

\* Whatever was counted, at least one unit is asked for.
LEMMA UnitsType == ASSUME NEW n \in Int PROVE NormalizeUnits(n) \in Nat
BY DEF NormalizeUnits

\* Sets of rows are finite.
LEMMA IdSets ==
    ASSUME NEW S, S \subseteq Id
    PROVE  IsFiniteSet(S) /\ Cardinality(S) \in Nat
BY IdAssumption, FS_Subset, FS_CardinalityType

\* A set outgrows another by the elements it has and the other has not.
LEMMA Outgrows ==
    ASSUME NEW S, S \subseteq Id, NEW T, T \subseteq Id
    PROVE  Cardinality(T) <= Cardinality(S) + Cardinality(T \ S)
<1>1. /\ IsFiniteSet(S) /\ Cardinality(S) \in Nat
      /\ IsFiniteSet(T) /\ Cardinality(T) \in Nat
    BY IdSets
<1>2. IsFiniteSet(T \ S) /\ Cardinality(T \ S) = Cardinality(T) - Cardinality(T \cap S)
    BY <1>1, FS_Difference
<1>3. T \cap S \in SUBSET S /\ T \cap S \subseteq Id
    OBVIOUS
<1>4. Cardinality(T \cap S) <= Cardinality(S)
    BY <1>1, <1>3, FS_Subset
<1>5. Cardinality(T \cap S) \in Nat
    BY <1>3, IdSets
<1> QED
    BY <1>1, <1>2, <1>4, <1>5

\* A group is a finite set of rows.
LEMMA GroupType == \A r : Group(r) \subseteq Id /\ Cardinality(Group(r)) \in Nat
BY IdSets DEF Group, Live

\* A decision ends the walk and keeps the types.
LEMMA DecideType ==
    ASSUME GuardTypes, NEW r \in Request, NEW v \in Verdict, NEW u \in Nat, Decide(r, v, u)
    PROVE  /\ pc' \in [Request -> {"idle"} \cup Querying \cup Verdict]
           /\ walk' \in [Request -> WalkType] /\ units' \in [Request -> Nat]
           /\ pc'[r] = v /\ walk'[r] = NoWalk /\ units'[r] = u /\ WalkOK(r)'
           /\ \A q \in Request \ {r} :
                pc'[q] = pc[q] /\ walk'[q] = walk[q] /\ units'[q] = units[q]
<1>1. Cardinality({}) = 0 /\ NoWalk \in WalkType
    BY FS_EmptySet DEF NoWalk, WalkType
<1>2. /\ pc' \in [Request -> {"idle"} \cup Querying \cup Verdict]
      /\ walk' \in [Request -> WalkType] /\ units' \in [Request -> Nat]
      /\ pc'[r] = v /\ walk'[r] = NoWalk /\ units'[r] = u
      /\ \A q \in Request \ {r} :
            pc'[q] = pc[q] /\ walk'[q] = walk[q] /\ units'[q] = units[q]
    BY <1>1 DEF Decide, GuardTypes
<1>3. WalkOK(r)'
    BY <1>1, <1>2, SafetyAssumption, NoneAssumption DEF WalkOK, NoWalk
<1> QED
    BY <1>2, <1>3

\* What is admitted fits.
LEMMA ConsumeFits ==
    ASSUME GuardTypes, NEW r \in Request, NEW s \in Snapshot, NEW u \in Nat, Consume(r, s, u)
    PROVE  /\ pc' \in [Request -> {"idle"} \cup Querying \cup Verdict]
           /\ walk' \in [Request -> WalkType] /\ units' \in [Request -> Nat]
           /\ pc'[r] \in {"admitted", "conflict"} /\ units'[r] = u /\ WalkOK(r)'
           /\ pc'[r] = "admitted" => ~s.reached /\ s.current + u <= s.maximum
           /\ \A q \in Request \ {r} :
                pc'[q] = pc[q] /\ walk'[q] = walk[q] /\ units'[q] = units[q]
<1> DEFINE v == IF ~s.reached /\ s.current + u <= s.maximum THEN "admitted" ELSE "conflict"
<1>1. v \in Verdict /\ Decide(r, v, u)
    BY DEF Consume, Verdict
<1>2. pc'[r] = v
    BY <1>1, DecideType
<1> QED
    BY <1>1, <1>2, DecideType

\* A walk starts with nothing seen.
LEMMA FreshWalk ==
    ASSUME NEW i \in Id
    PROVE  LET w == [NoWalk EXCEPT !.cur = i] IN
           /\ w \in WalkType /\ w.cur = i /\ w.cur \notin w.seen
           /\ w.depth = Cardinality(w.seen) /\ w.depth <= Safety /\ w.depth < Safety
BY FS_EmptySet, SafetyAssumption DEF NoWalk, WalkType

\* What follows a snapshot.
LEMMA JudgeMoves ==
    ASSUME GuardTypes, NEW r \in Request, NEW a \in AskType, NEW s \in Snapshot, Judge(r, a, s)
    PROVE  Moves(r) /\ snap'[r] = s
<1>1. /\ snap' \in [Request -> Snapshot] /\ snap'[r] = s
      /\ \A q \in Request \ {r} : snap'[q] = snap[q]
    BY DEF Judge, GuardTypes
<1>2. ASSUME NEW u \in Nat, Consume(r, s, u) PROVE Moves(r)
    BY <1>1, <1>2, ConsumeFits DEF Moves
<1>3. CASE Action(a) = "list" /\ Decide(r, "listed", 0)
    <2>1. "listed" \in Verdict /\ 0 \in Nat
        BY DEF Verdict
    <2> QED
        BY <1>1, <1>3, <2>1, DecideType DEF Moves
<1>4. CASE Consume(r, s, 1)
    BY <1>2, <1>4, <1>1
<1>5. CASE Consume(r, s, NormalizeUnits(a.fixed))
    <2>1. NormalizeUnits(a.fixed) \in Nat
        BY UnitsType DEF AskType
    <2> QED
        BY <1>1, <1>2, <1>5, <2>1
<1>6. CASE /\ a.id # None
           /\ pc' = [pc EXCEPT ![r] = IF a.how = "linked" THEN "link" ELSE "children"]
           /\ walk' = [walk EXCEPT ![r] = [NoWalk EXCEPT !.cur = a.id]]
           /\ UNCHANGED units
    <2> DEFINE w == [NoWalk EXCEPT !.cur = a.id]
    <2>1. a.id \in Id
        BY <1>6 DEF AskType
    <2>2. /\ w \in WalkType /\ w.cur = a.id /\ w.cur \notin w.seen
          /\ w.depth = Cardinality(w.seen) /\ w.depth <= Safety /\ w.depth < Safety
        BY <2>1, FreshWalk
    <2> HIDE DEF w
    <2>3. walk' = [walk EXCEPT ![r] = w]
        BY <1>6 DEF w
    <2>4. /\ walk' \in [Request -> WalkType] /\ walk'[r] = w
          /\ \A q \in Request \ {r} : walk'[q] = walk[q]
        BY <2>2, <2>3 DEF GuardTypes
    <2>5. /\ pc' \in [Request -> {"idle"} \cup Querying \cup Verdict]
          /\ pc'[r] \in {"link", "children"}
          /\ \A q \in Request \ {r} : pc'[q] = pc[q]
        BY <1>6 DEF GuardTypes, Querying
    <2>6. WalkOK(r)'
        BY <2>2, <2>4 DEF WalkOK
    <2>7. units' \in [Request -> Nat] /\ units' = units
        BY <1>6 DEF GuardTypes
    <2> QED
        BY <1>1, <2>1, <2>2, <2>4, <2>5, <2>6, <2>7 DEF Moves
<1> QED
    BY <1>1, <1>3, <1>4, <1>5, <1>6 DEF Judge

\* A request that is placed is counted next, or has reached a limit of depth.
LEMMA PlaceMoves ==
    ASSUME GuardTypes, config \in ConfigType, NEW r \in Request, NEW a \in AskType,
           NEW up \in Id \cup {None}, NEW owner \in Owner \cup {None}, NEW d \in Nat,
           Place(r, a, up, owner, d)
    PROVE  Moves(r) /\ Settles(r) /\ (pc'[r] \in Counted => snap'[r].reached)
<1>1. Settles(r)
    BY DEF Place, GuardTypes, Settles, Context
<1>2. CASE Judge(r, a, [NoSnap EXCEPT !.reached = TRUE])
    <2> DEFINE s == [NoSnap EXCEPT !.reached = TRUE]
    <2>1. s \in Snapshot /\ s.reached
        BY DEF NoSnap, Snapshot
    <2> HIDE DEF s
    <2>2. Judge(r, a, s)
        BY <1>2 DEF s
    <2> QED
        BY <1>1, <2>1, <2>2, JudgeMoves
<1>3. CASE Decide(r, "badRequest", 0) /\ UNCHANGED snap
    <2>1. "badRequest" \in Verdict /\ 0 \in Nat
        BY DEF Verdict
    <2>2. pc'[r] = "badRequest" /\ Moves(r)
        BY <1>3, <2>1, DecideType DEF Moves, GuardTypes
    <2> QED
        BY <1>1, <2>2 DEF Counted
<1>4. CASE /\ pc' = [pc EXCEPT ![r] = "count"]
           /\ walk' = [walk EXCEPT ![r] = NoWalk]
           /\ snap' = [snap EXCEPT ![r] = [NoSnap EXCEPT !.maximum = MaximumAt(d + 1)]]
           /\ UNCHANGED units
    <2> DEFINE s == [NoSnap EXCEPT !.maximum = MaximumAt(d + 1)]
    <2>1. s \in Snapshot
        BY MaximumType DEF NoSnap, Snapshot
    <2>2. NoWalk \in WalkType /\ Cardinality({}) = 0
        BY FS_EmptySet DEF NoWalk, WalkType
    <2> HIDE DEF s
    <2>3. snap' = [snap EXCEPT ![r] = s]
        BY <1>4 DEF s
    <2>4. /\ snap' \in [Request -> Snapshot]
          /\ \A q \in Request \ {r} : snap'[q] = snap[q]
        BY <2>1, <2>3 DEF GuardTypes
    <2>5. /\ walk' \in [Request -> WalkType] /\ walk'[r] = NoWalk
          /\ \A q \in Request \ {r} : walk'[q] = walk[q]
        BY <2>2, <1>4 DEF GuardTypes
    <2>6. WalkOK(r)'
        BY <2>2, <2>5, SafetyAssumption DEF WalkOK, NoWalk
    <2>7. /\ pc' \in [Request -> {"idle"} \cup Querying \cup Verdict] /\ pc'[r] = "count"
          /\ \A q \in Request \ {r} : pc'[q] = pc[q]
        BY <1>4 DEF GuardTypes, Querying
    <2>8. units' \in [Request -> Nat] /\ units' = units
        BY <1>4 DEF GuardTypes
    <2> QED
        BY <1>1, <2>4, <2>5, <2>6, <2>7, <2>8 DEF Moves, Counted
<1> QED
    BY <1>2, <1>3, <1>4 DEF Place

\* A request is resolved, is refused or starts to walk.
LEMMA ResolveMoves ==
    ASSUME GuardTypes, config \in ConfigType, NEW r \in Request, NEW a \in AskType,
           NEW up \in Id \cup {None}, NEW owner \in Owner \cup {None},
           Resolve(r, a, up, owner)
    PROVE  Moves(r) /\ Settles(r) /\ (pc'[r] \in Counted => snap'[r].reached)
<1>1. ASSUME NEW v \in {"badRequest", "typeError"}, Decide(r, v, 0), UNCHANGED <<ctx, snap>>
      PROVE  Moves(r) /\ Settles(r) /\ (pc'[r] \in Counted => snap'[r].reached)
    <2>1. v \in Verdict /\ 0 \in Nat
        BY DEF Verdict
    <2>2. pc'[r] = v /\ Moves(r)
        BY <1>1, <2>1, DecideType DEF Moves, GuardTypes
    <2> QED
        BY <1>1, <2>2 DEF Counted, Settles, GuardTypes
<1>2. CASE Place(r, a, up, owner, 0)
    BY <1>2, PlaceMoves
<1>3. CASE /\ up # None
           /\ pc' = [pc EXCEPT ![r] = "walk"]
           /\ ctx' = [ctx EXCEPT ![r] = [up |-> up, owner |-> owner]]
           /\ walk' = [walk EXCEPT ![r] = [NoWalk EXCEPT !.cur = up]]
           /\ UNCHANGED <<snap, units>>
    <2> DEFINE w == [NoWalk EXCEPT !.cur = up]
    <2>1. /\ w \in WalkType /\ w.cur = up /\ w.cur \notin w.seen /\ up \in Id
          /\ w.depth = Cardinality(w.seen) /\ w.depth <= Safety
        BY <1>3, FreshWalk
    <2> HIDE DEF w
    <2>2. walk' = [walk EXCEPT ![r] = w]
        BY <1>3 DEF w
    <2>3. /\ walk' \in [Request -> WalkType] /\ walk'[r] = w
          /\ \A q \in Request \ {r} : walk'[q] = walk[q]
        BY <2>1, <2>2 DEF GuardTypes
    <2>4. /\ pc' \in [Request -> {"idle"} \cup Querying \cup Verdict] /\ pc'[r] = "walk"
          /\ \A q \in Request \ {r} : pc'[q] = pc[q]
        BY <1>3 DEF GuardTypes, Querying
    <2>5. WalkOK(r)'
        BY <2>1, <2>3 DEF WalkOK
    <2>6. Moves(r)
        BY <1>3, <2>1, <2>3, <2>4, <2>5 DEF Moves, GuardTypes
    <2>7. Settles(r)
        BY <1>3 DEF Settles, GuardTypes, Context
    <2> QED
        BY <2>4, <2>6, <2>7 DEF Counted
<1> QED
    BY <1>1, <1>2, <1>3 DEF Resolve

-----------------------------------------------------------------------------
(* What each step keeps.                                                   *)

\* What the invariant says of the types.
LEMMA Types == ASSUME IInv PROVE GuardTypes /\ config \in ConfigType
BY ConfigAssumption DEF IInv, TypeOK, GuardTypes, Context, WalkType, Snapshot

\* A step to a later stage.
LEMMA MovesKeep ==
    ASSUME IInv, NEW r \in Request, Moves(r), Settles(r), Counting(r),
           ask' \in [Request -> AskType \cup {None}], ask'[r] \in AskType,
           \A q \in Request \ {r} : ask'[q] = ask[q]
    PROVE  Keeps(r)
BY DEF Moves, Settles, Keeps, GuardTypes, StageOK, Only

\* A step of a request whose ask stays.
LEMMA AskStays ==
    ASSUME IInv, NEW r \in Request, pc[r] # "idle", Moves(r), Settles(r), Counting(r),
           UNCHANGED ask
    PROVE  Keeps(r)
<1>1. ask' \in [Request -> AskType \cup {None}] /\ ask'[r] \in AskType
    BY DEF IInv, TypeOK, StageOK
<1> QED
    BY <1>1, MovesKeep

\* A verdict that nothing is counted for.
LEMMA DecideKeeps ==
    ASSUME IInv, NEW r \in Request, pc[r] # "idle",
           NEW v \in {"badRequest", "error"}, Decide(r, v, 0), UNCHANGED <<ask, ctx, snap>>
    PROVE  Keeps(r)
<1>1. GuardTypes
    BY Types
<1>2. v \in Verdict /\ 0 \in Nat
    BY DEF Verdict
<1>3. pc'[r] = v /\ Moves(r)
    BY <1>1, <1>2, DecideType DEF Moves, GuardTypes
<1>4. Settles(r) /\ Counting(r)
    BY <1>1, <1>3 DEF Settles, GuardTypes, Counting, Counted
<1> QED
    BY <1>3, <1>4, AskStays

\* A decision on units keeps the snapshot.
LEMMA ConsumeKeeps ==
    ASSUME IInv, NEW r \in Request, pc[r] \in Counted, NEW u \in Nat,
           Consume(r, snap[r], u), UNCHANGED <<ask, ctx, snap>>
    PROVE  Keeps(r)
<1>1. GuardTypes /\ snap[r] \in Snapshot
    BY Types DEF GuardTypes
<1>2. Moves(r)
    BY <1>1, ConsumeFits DEF Moves, GuardTypes
<1>3. Settles(r) /\ Counting(r) /\ pc[r] # "idle"
    BY <1>1 DEF Settles, GuardTypes, Counting, Counted
<1> QED
    BY <1>2, <1>3, AskStays

\* A request arrives: nothing has been walked or counted for it.
LEMMA ArriveKeeps ==
    ASSUME IInv, NEW r \in Request, NEW a \in Ask[r], Arrive(r, a)
    PROVE  Keeps(r)
<1>1. a \in AskType /\ GuardTypes /\ config \in ConfigType
    BY RequestAssumption, Types
<1>2. /\ ask' \in [Request -> AskType \cup {None}] /\ ask'[r] = a
      /\ \A q \in Request \ {r} : ask'[q] = ask[q]
    BY <1>1 DEF Arrive, IInv, TypeOK
<1>3. CASE pc' = [pc EXCEPT ![r] = "passed"] /\ UNCHANGED <<ctx, walk, snap, units>>
    <2>1. Moves(r) /\ Settles(r) /\ Counting(r)
        BY <1>1, <1>3 DEF Moves, Settles, Counting, Counted, GuardTypes, Verdict, IInv, StageOK,
           WalkOK
    <2> QED
        BY <1>1, <1>2, <2>1, MovesKeep
<1>4. CASE /\ NeedsRow(a)
           /\ pc' = [pc EXCEPT ![r] = "hydrate"] /\ UNCHANGED <<ctx, walk, snap, units>>
    <2>1. a.id \in Id
        BY <1>1, <1>4 DEF NeedsRow, AskType
    <2>2. pc'[r] = "hydrate" /\ \A q \in Request \ {r} : pc'[q] = pc[q]
        BY <1>1, <1>4 DEF GuardTypes
    <2>3. GuardTypes'
        BY <1>1, <1>4 DEF GuardTypes, Querying
    <2>4. StageOK(r)'
        BY <1>1, <1>2, <1>4, <2>1, <2>2 DEF StageOK, WalkOK, IInv
    <2>5. Only(r) /\ Counting(r)
        BY <1>2, <1>4, <2>2 DEF Only, Counting, Counted
    <2> QED
        BY <1>2, <2>3, <2>4, <2>5 DEF Keeps
<1>5. CASE Resolve(r, a, a.up, IF config.strategy = "user" THEN Given(a.owner, a.subject)
                               ELSE a.owner)
    <2> DEFINE owner == IF config.strategy = "user" THEN Given(a.owner, a.subject) ELSE a.owner
    <2>1. a.up \in Id \cup {None} /\ owner \in Owner \cup {None}
        BY <1>1 DEF AskType, Given
    <2> HIDE DEF owner
    <2>2. Resolve(r, a, a.up, owner)
        BY <1>5 DEF owner
    <2>3. Moves(r) /\ Settles(r) /\ (pc'[r] \in Counted => snap'[r].reached)
        BY <1>1, <2>1, <2>2, ResolveMoves
    <2> QED
        BY <1>1, <1>2, <2>3, MovesKeep DEF Counting
<1> QED
    BY <1>3, <1>4, <1>5 DEF Arrive

\* The row of the route fills in what the request lacks; the walk begins anew.
LEMMA HydrateKeeps ==
    ASSUME IInv, NEW r \in Request, Hydrate(r)
    PROVE  Keeps(r)
<1> DEFINE a == ask[r]
           Value(f) == IF f \in Fields /\ rows[a.id] # None THEN Given(a[f], rows[a.id][f])
                       ELSE a[f]
           up == Value("up")
           owner == Value("owner")
<1>1. GuardTypes /\ config \in ConfigType /\ pc[r] = "hydrate"
    BY Types DEF Hydrate
<1>2. a \in AskType /\ a.id \in Id
    BY <1>1 DEF IInv, StageOK
<1>3. rows[a.id] \in Row \cup {None}
    BY <1>2 DEF IInv, TypeOK
<1>4. up \in Id \cup {None} /\ owner \in Owner \cup {None}
    BY <1>2, <1>3 DEF AskType, Row, Given
<1>5. Resolve(r, a, up, owner) /\ UNCHANGED ask
    BY DEF Hydrate
<1> HIDE DEF a, up, owner
<1>6. Moves(r) /\ Settles(r) /\ (pc'[r] \in Counted => snap'[r].reached)
    BY <1>1, <1>2, <1>4, <1>5, ResolveMoves
<1> QED
    BY <1>1, <1>5, <1>6, AskStays DEF Counting

\* A walk that goes on has seen one node more.
LEMMA WalksOn ==
    ASSUME IInv, NEW r \in Request, walk[r].cur \in Id, NEW next \in Id,
           next \notin walk[r].seen \cup {walk[r].cur}, walk[r].depth + 1 <= Safety,
           walk' = [walk EXCEPT ![r] = [cur |-> next, seen |-> walk[r].seen \cup {walk[r].cur},
                                        depth |-> walk[r].depth + 1]]
    PROVE  /\ walk' \in [Request -> WalkType] /\ walk'[r].cur = next /\ WalkOK(r)'
           /\ walk'[r].depth = walk[r].depth + 1
           /\ \A q \in Request \ {r} : walk'[q] = walk[q]
<1>1. walk \in [Request -> WalkType] /\ WalkOK(r)
    BY Types DEF GuardTypes, IInv, StageOK
<1>2. walk[r].seen \subseteq Id /\ walk[r].depth \in Nat
    BY <1>1 DEF WalkType
<1>3. Cardinality(walk[r].seen \cup {walk[r].cur}) = walk[r].depth + 1
    BY <1>1, <1>2, IdSets, FS_AddElement DEF WalkOK
<1>4. /\ walk' \in [Request -> WalkType]
      /\ walk'[r].cur = next /\ walk'[r].seen = walk[r].seen \cup {walk[r].cur}
      /\ walk'[r].depth = walk[r].depth + 1
      /\ \A q \in Request \ {r} : walk'[q] = walk[q]
    BY <1>1, <1>2 DEF WalkType
<1> QED
    BY <1>3, <1>4 DEF WalkOK

\* A step of the walk meets one more row and is one deeper, or it is over.
LEMMA WalkKeeps ==
    ASSUME IInv, NEW r \in Request, Walk(r)
    PROVE  Keeps(r)
<1> DEFINE i == walk[r].cur
           up == IF i \in Found THEN rows[i].up ELSE None
           owner == IF i \in Found /\ config.scoped THEN Given(ctx[r].owner, rows[i].owner)
                    ELSE ctx[r].owner
           seen == walk[r].seen \cup {i}
           depth == walk[r].depth + 1
           failed == i \notin Found \/ Stops(seen, depth, up, Safety)
<1>1. GuardTypes /\ config \in ConfigType /\ pc[r] = "walk"
    BY Types DEF Walk
<1>2. i \in Id /\ depth \in Nat /\ ctx[r] \in Context /\ ask[r] \in AskType
    BY <1>1 DEF IInv, StageOK, GuardTypes, WalkType
<1>3. i \in Found => rows[i] \in Row
    BY <1>2 DEF Found, Live, IInv, TypeOK
<1>4. up \in Id \cup {None} /\ owner \in Owner \cup {None}
    BY <1>2, <1>3 DEF Row, Context, Given
<1>5. UNCHANGED ask
    BY DEF Walk
<1>6. \/ failed /\ Decide(r, "badRequest", 0) /\ UNCHANGED <<ctx, snap>>
      \/ Place(r, ask[r], ctx[r].up, owner, depth)
      \/ /\ ~failed /\ up # None
         /\ ctx' = [ctx EXCEPT ![r].owner = owner]
         /\ walk' = [walk EXCEPT ![r] = [cur |-> up, seen |-> seen, depth |-> depth]]
         /\ UNCHANGED <<pc, snap, units>>
    BY DEF Walk
<1> HIDE DEF owner, up
<1>7. CASE Decide(r, "badRequest", 0) /\ UNCHANGED <<ctx, snap>>
    BY <1>1, <1>5, <1>7, DecideKeeps
<1>8. CASE Place(r, ask[r], ctx[r].up, owner, depth)
    <2>1. ctx[r].up \in Id \cup {None}
        BY <1>2 DEF Context
    <2>2. Moves(r) /\ Settles(r) /\ (pc'[r] \in Counted => snap'[r].reached)
        BY <1>1, <1>2, <1>4, <1>8, <2>1, PlaceMoves
    <2> QED
        BY <1>1, <1>5, <2>2, AskStays DEF Counting
<1>9. CASE /\ ~failed /\ up # None
           /\ ctx' = [ctx EXCEPT ![r].owner = owner]
           /\ walk' = [walk EXCEPT ![r] = [cur |-> up, seen |-> seen, depth |-> depth]]
           /\ UNCHANGED <<pc, snap, units>>
    <2>1. up \in Id /\ up \notin seen /\ depth <= Safety
        BY <1>2, <1>4, <1>9, SafetyAssumption DEF Stops
    <2>2. /\ walk' \in [Request -> WalkType] /\ walk'[r].cur = up /\ WalkOK(r)'
          /\ \A q \in Request \ {r} : walk'[q] = walk[q]
        BY <1>2, <1>9, <2>1, WalksOn
    <2>3. Moves(r)
        BY <1>1, <1>9, <2>1, <2>2 DEF Moves, GuardTypes
    <2>4. ctx' \in [Request -> Context] /\ \A q \in Request \ {r} : ctx'[q] = ctx[q]
        BY <1>1, <1>2, <1>4, <1>9 DEF GuardTypes, Context
    <2>5. Settles(r) /\ Counting(r)
        BY <1>1, <1>9, <2>4 DEF Settles, Counting, Counted
    <2> QED
        BY <1>1, <1>5, <2>3, <2>5, AskStays
<1> QED
    BY <1>6, <1>7, <1>8, <1>9

\* The count is the size of the group in this state, so nothing is late yet.
LEMMA CountKeeps ==
    ASSUME IInv, NEW r \in Request, Count(r)
    PROVE  Keeps(r)
<1> DEFINE s == [snap[r] EXCEPT !.current = Cardinality(Group(r))]
<1>1. GuardTypes /\ pc[r] = "count" /\ ask[r] \in AskType /\ snap[r] \in Snapshot
    BY Types DEF Count, IInv, StageOK, GuardTypes
<1>2. s \in Snapshot /\ s.current = Cardinality(Group(r))
    BY <1>1, GroupType DEF Snapshot
<1>3. Judge(r, ask[r], s) /\ UNCHANGED <<rows, ask, ctx>>
    BY DEF Count
<1> HIDE DEF s
<1>4. Moves(r) /\ snap'[r] = s
    BY <1>1, <1>2, <1>3, JudgeMoves
<1>5. Settles(r) /\ Counting(r)
    BY <1>1, <1>2, <1>3, <1>4 DEF Settles, GuardTypes, Counting, Counted
<1> QED
    BY <1>1, <1>3, <1>4, <1>5, AskStays

\* A step along a linked list, as one along the parents.
LEMMA LinkKeeps ==
    ASSUME IInv, NEW r \in Request, Link(r)
    PROVE  Keeps(r)
<1> DEFINE i == walk[r].cur
           next == IF i \in Live THEN rows[i].up ELSE None
           seen == walk[r].seen \cup {i}
           depth == walk[r].depth + 1
           failed == next # None /\ Stops(seen, depth + 1, next, Safety)
           counted == IF i \in Live THEN units[r] + 1 ELSE units[r]
           total == IF ask[r].includeRoot THEN counted ELSE counted - 1
<1>1. GuardTypes /\ pc[r] = "link"
    BY Types DEF Link
<1>2. i \in Id /\ depth \in Nat /\ counted \in Nat /\ total \in Int
    BY <1>1 DEF IInv, StageOK, GuardTypes, WalkType
<1>3. i \in Live => rows[i] \in Row
    BY <1>2 DEF Live, IInv, TypeOK
<1>4. next \in Id \cup {None}
    BY <1>3 DEF Row
<1>5. UNCHANGED <<ask, ctx, snap>>
    BY DEF Link
<1>6. \/ Consume(r, snap[r], NormalizeUnits(total))
      \/ Decide(r, "badRequest", 0)
      \/ /\ next # None /\ ~failed
         /\ walk' = [walk EXCEPT ![r] = [cur |-> next, seen |-> seen, depth |-> depth]]
         /\ units' = [units EXCEPT ![r] = counted]
         /\ UNCHANGED pc
    BY DEF Link
<1> HIDE DEF next, counted, total
<1>7. CASE Consume(r, snap[r], NormalizeUnits(total))
    BY <1>1, <1>2, <1>5, <1>7, UnitsType, ConsumeKeeps DEF Counted
<1>8. CASE Decide(r, "badRequest", 0)
    BY <1>1, <1>5, <1>8, DecideKeeps
<1>9. CASE /\ next # None /\ ~failed
           /\ walk' = [walk EXCEPT ![r] = [cur |-> next, seen |-> seen, depth |-> depth]]
           /\ units' = [units EXCEPT ![r] = counted]
           /\ UNCHANGED pc
    <2>1. next \in Id /\ next \notin seen /\ depth <= Safety /\ depth < Safety
        BY <1>2, <1>4, <1>9, SafetyAssumption DEF Stops
    <2>2. /\ walk' \in [Request -> WalkType] /\ walk'[r].cur = next /\ WalkOK(r)'
          /\ walk'[r].depth = depth
          /\ \A q \in Request \ {r} : walk'[q] = walk[q]
        BY <1>2, <1>9, <2>1, WalksOn
    <2>3. units' \in [Request -> Nat] /\ \A q \in Request \ {r} : units'[q] = units[q]
        BY <1>1, <1>2, <1>9 DEF GuardTypes
    <2>4. Moves(r) /\ Settles(r) /\ Counting(r)
        BY <1>1, <1>5, <1>9, <2>1, <2>2, <2>3
           DEF Moves, Settles, Counting, Counted, GuardTypes
    <2> QED
        BY <1>1, <1>5, <2>4, AskStays
<1> QED
    BY <1>6, <1>7, <1>8, <1>9

\* Counting the children only sets the units that are asked for.
LEMMA ChildrenKeeps ==
    ASSUME IInv, NEW r \in Request, Children(r)
    PROVE  Keeps(r)
<1> DEFINE children == { i \in Live : rows[i].up = ask[r].id }
           total == Cardinality(children) + (IF ask[r].includeRoot THEN 1 ELSE 0)
<1>1. children \subseteq Id
    BY DEF Live
<1>2. Cardinality(children) \in Nat
    <2> HIDE DEF children
    <2> QED
        BY <1>1, IdSets
<1>3. total \in Int
    BY <1>2
<1>4. /\ pc[r] \in Counted /\ Consume(r, snap[r], NormalizeUnits(total))
      /\ UNCHANGED <<ask, ctx, snap>>
    BY DEF Children, Counted
<1> HIDE DEF total
<1> QED
    BY <1>3, <1>4, UnitsType, ConsumeKeeps

\* A query that fails ends the guard with an error.
LEMMA FailKeeps ==
    ASSUME IInv, NEW r \in Request, Fail(r)
    PROVE  Keeps(r)
<1>1. pc[r] # "idle" /\ Decide(r, "error", 0) /\ UNCHANGED <<ask, ctx, snap>>
    BY DEF Fail, Querying
<1> QED
    BY <1>1, DecideKeeps

\* A request that leaves is forgotten; its walk had ended.
LEMMA LeaveKeeps ==
    ASSUME IInv, NEW r \in Request, Leave(r)
    PROVE  Keeps(r)
<1>1. GuardTypes
    BY Types
<1>2. NoCtx \in Context /\ NoSnap \in Snapshot
    BY DEF NoCtx, NoSnap, Context, Snapshot
<1>3. GuardTypes' /\ ask' \in [Request -> AskType \cup {None}] /\ pc'[r] = "idle"
    BY <1>1, <1>2 DEF Leave, GuardTypes, IInv, TypeOK
<1>4. Only(r)
    BY <1>1 DEF Leave, Only, GuardTypes, IInv, TypeOK
<1>5. StageOK(r)'
    BY <1>3 DEF Leave, StageOK, WalkOK, IInv
<1> QED
    BY <1>3, <1>4, <1>5 DEF Keeps, Counting, Counted

-----------------------------------------------------------------------------
(* The invariant.                                                          *)

\* No request is under way in the beginning.
LEMMA InitIInv == Init => IInv
<1> SUFFICES ASSUME Init PROVE IInv
    OBVIOUS
<1>1. Cardinality({}) = 0
    BY FS_EmptySet
<1>2. TypeOK
    BY SafetyAssumption DEF Init, TypeOK, Row, NoCtx, NoWalk, NoSnap
<1>3. ASSUME NEW r \in Request PROVE StageOK(r) /\ CountOK(r)
    <2>1. pc[r] = "idle" /\ walk[r] = NoWalk
        BY DEF Init
    <2>2. WalkOK(r)
        BY <1>1, <2>1, SafetyAssumption DEF WalkOK, NoWalk
    <2> QED
        BY <2>1, <2>2 DEF StageOK, CountOK, Counted
<1> QED
    BY <1>2, <1>3 DEF IInv

\* The group grows by what joins it, and that is what late counts.
LEMMA CountKept ==
    ASSUME IInv, NEW r \in Request, GuardTypes', Counting(r), Observe
    PROVE  CountOK(r)'
<1> SUFFICES ASSUME pc'[r] \in Counted, ~snap'[r].reached
             PROVE  Cardinality(Group(r)') <= snap'[r].current + late'[r]
    BY DEF CountOK, Counted
<1>1. Group(r) \subseteq Id /\ Group(r)' \subseteq Id
    BY DEF Group, Live
<1>2. /\ Cardinality(Group(r)) \in Nat /\ Cardinality(Group(r)') \in Nat
      /\ Cardinality(Group(r)' \ Group(r)) \in Nat
      /\ Cardinality(Group(r)') <= Cardinality(Group(r)) + Cardinality(Group(r)' \ Group(r))
    <2>1. Group(r)' \ Group(r) \subseteq Id
        BY <1>1
    <2> QED
        BY <1>1, <2>1, IdSets, Outgrows
<1>3. snap'[r].current \in Nat /\ late[r] \in Nat /\ snap[r].current \in Nat
    BY Types DEF GuardTypes, Snapshot, IInv, TypeOK
<1>4. late'[r] = IF pc[r] \in Counted
                 THEN late[r] + Cardinality(Group(r)' \ Group(r)) ELSE 0
    BY DEF Observe
<1>5. CASE pc[r] \notin Counted
    <2>1. /\ ctx'[r] = ctx[r] /\ rows' = rows /\ config' = config
          /\ snap'[r].current = Cardinality(Group(r))
        BY <1>5 DEF Counting, Observe
    <2>2. Group(r)' = Group(r)
        BY <2>1 DEF Group, Live
    <2> QED
        BY <1>2, <1>3, <1>4, <1>5, <2>1, <2>2
<1>6. CASE pc[r] \in Counted
    <2>1. snap'[r] = snap[r] /\ Cardinality(Group(r)) <= snap[r].current + late[r]
        BY <1>6 DEF Counting, IInv, CountOK
    <2> QED
        BY <1>2, <1>3, <1>4, <1>6, <2>1
<1> QED
    BY <1>5, <1>6

\* A step of one request keeps what is known of all.
LEMMA RequestKeeps ==
    ASSUME IInv, NEW r \in Request, Keeps(r), Observe,
           rows' \in [Id -> Row \cup {None}], writes' \in 0..MaxWrites
    PROVE  IInv'
<1>1. TypeOK'
    <2>1. late' \in [Request -> Nat]
        <3> SUFFICES ASSUME NEW q \in Request
                     PROVE  late[q] + Cardinality(Group(q)' \ Group(q)) \in Nat
            BY DEF Observe
        <3>1. Group(q)' \ Group(q) \subseteq Id
            BY DEF Group, Live
        <3> QED
            BY <3>1, IdSets DEF IInv, TypeOK
    <2>2. stale' \in [Request -> BOOLEAN]
        BY DEF Observe, IInv, TypeOK
    <2>3. config' \in Config
        BY DEF Observe, IInv, TypeOK
    <2> QED
        BY <2>1, <2>2, <2>3
           DEF TypeOK, Keeps, GuardTypes, Context, WalkType, Snapshot
<1>2. ASSUME NEW q \in Request PROVE StageOK(q)' /\ Counting(q)
    <2>1. CASE q = r
        BY <2>1 DEF Keeps
    <2>2. CASE q # r
        <3>1. /\ pc'[q] = pc[q] /\ ask'[q] = ask[q] /\ ctx'[q] = ctx[q] /\ walk'[q] = walk[q]
              /\ snap'[q] = snap[q] /\ units'[q] = units[q]
            BY <2>2 DEF Keeps, Only
        <3> QED
            BY <3>1 DEF IInv, StageOK, WalkOK, Counting
    <2> QED
        BY <2>1, <2>2
<1>3. ASSUME NEW q \in Request PROVE CountOK(q)'
    BY <1>2, CountKept DEF Keeps
<1> QED
    BY <1>1, <1>2, <1>3 DEF IInv

\* Every step keeps the invariant.
LEMMA NextKeepsIInv == IInv /\ [Next]_vars => IInv'
<1> SUFFICES ASSUME IInv, [Next]_vars PROVE IInv'
    OBVIOUS
<1>1. ASSUME NEW r \in Request, Keeps(r), Observe, UNCHANGED <<rows, writes>> PROVE IInv'
    <2>1. rows' \in [Id -> Row \cup {None}] /\ writes' \in 0..MaxWrites
        BY <1>1 DEF IInv, TypeOK
    <2> QED
        BY <1>1, <2>1, RequestKeeps
<1>2. ASSUME NEW r \in Request, NEW a \in Ask[r], Arrive(r, a), Observe PROVE IInv'
    BY <1>1, <1>2, ArriveKeeps DEF Arrive
<1>3. ASSUME NEW r \in Request, Step(r), Observe PROVE IInv'
    <2>1. CASE Hydrate(r)
        BY <1>1, <1>3, <2>1, HydrateKeeps DEF Hydrate
    <2>2. CASE Walk(r)
        BY <1>1, <1>3, <2>2, WalkKeeps DEF Walk
    <2>3. CASE Count(r)
        BY <1>1, <1>3, <2>3, CountKeeps DEF Count
    <2>4. CASE Link(r)
        BY <1>1, <1>3, <2>4, LinkKeeps DEF Link
    <2>5. CASE Children(r)
        BY <1>1, <1>3, <2>5, ChildrenKeeps DEF Children
    <2>6. CASE Fail(r)
        BY <1>1, <1>3, <2>6, FailKeeps DEF Fail
    <2>7. CASE Respond(r)
        BY <1>1, <1>3, <2>7, LeaveKeeps DEF Respond, Leave
    <2> QED
        BY <1>3, <2>1, <2>2, <2>3, <2>4, <2>5, <2>6, <2>7 DEF Step
<1>4. ASSUME NEW r \in Request, Perform(r), Observe PROVE IInv'
    <2>1. Leave(r) /\ writes' \in 0..MaxWrites
        BY <1>4 DEF Perform, Leave, IInv, TypeOK
    <2>2. ctx[r] \in Context
        BY Types DEF GuardTypes
    <2>3. rows' \in [Id -> Row \cup {None}]
        <3>1. [up |-> ctx[r].up, owner |-> ctx[r].owner, deleted |-> FALSE] \in Row
            BY <2>2 DEF Context, Row
        <3> QED
            BY <1>4, <3>1 DEF Perform, IInv, TypeOK
    <2> QED
        BY <1>4, <2>1, <2>3, LeaveKeeps, RequestKeeps
<1>5. ASSUME NEW i \in Id, NEW row \in Row, Write(i, row), Observe PROVE IInv'
    <2>1. rows' \in [Id -> Row \cup {None}] /\ writes' \in 0..MaxWrites
        BY <1>5, SafetyAssumption DEF Write, IInv, TypeOK
    <2>2. CASE Request = {}
        BY <1>5, <2>1, <2>2 DEF Write, guard, Observe, IInv, TypeOK
    <2>3. CASE Request # {}
        <3>1. PICK r \in Request : TRUE
            BY <2>3
        <3>2. GuardTypes' /\ ask' \in [Request -> AskType \cup {None}] /\ Only(r)
            BY <1>5, Types DEF Write, guard, GuardTypes, Only, IInv, TypeOK
        <3>3. StageOK(r)' /\ Counting(r)
            BY <1>5 DEF Write, guard, StageOK, WalkOK, Counting, IInv
        <3> QED
            BY <1>5, <2>1, <3>2, <3>3, RequestKeeps DEF Keeps
    <2> QED
        BY <2>2, <2>3
<1>6. ASSUME NEW i \in Id, Delete(i), Observe PROVE IInv'
    <2>1. rows[i] \in Row
        BY <1>6 DEF Delete, Live, IInv, TypeOK
    <2>2. [rows[i] EXCEPT !.deleted = TRUE] \in Row
        BY <2>1 DEF Row
    <2> QED
        BY <1>5, <1>6, <2>2 DEF Delete
<1>7. ASSUME NEW i \in Id, NEW up \in Id \cup {None}, MoveRow(i, up), Observe PROVE IInv'
    <2>1. rows[i] \in Row
        BY <1>7 DEF MoveRow, Live, IInv, TypeOK
    <2>2. [rows[i] EXCEPT !.up = up] \in Row
        BY <2>1 DEF Row
    <2> QED
        BY <1>5, <1>7, <2>2 DEF MoveRow
<1>8. CASE UNCHANGED vars
    <2>1. TypeOK'
        BY <1>8 DEF vars, guard, IInv, TypeOK
    <2>2. ASSUME NEW r \in Request PROVE StageOK(r)' /\ CountOK(r)'
        <3>1. StageOK(r) /\ CountOK(r)
            BY DEF IInv
        <3> QED
            BY <1>8, <3>1 DEF vars, guard, StageOK, WalkOK, CountOK, Group, Live
    <2> QED
        BY <2>1, <2>2 DEF IInv
<1> QED
    BY <1>2, <1>3, <1>4, <1>6, <1>7, <1>8 DEF Next

\* The inductive invariant holds in every reachable state.
THEOREM Invariance == Spec => []IInv
BY InitIInv, NextKeepsIInv, PTL DEF Spec

\* The guards keep the types of their state, and ask for a natural number of rows.
THEOREM TypeCorrect == Spec => []TypeOK
<1>1. IInv => TypeOK
    BY DEF IInv
<1> QED
    BY <1>1, Invariance, PTL

\* However long or cyclic the chains of rows are and however they change, a walk meets
\* no row twice, and ends after Safety + 1 rows on the way to the root and after Safety
\* rows along a list.
THEOREM WalksEnd == Spec => []WalksAreShort
<1>1. ASSUME IInv PROVE WalksAreShort
    <2> SUFFICES ASSUME NEW r \in Request
                 PROVE  LET queried == walk[r].seen \cup {walk[r].cur} IN
                        /\ walk[r].cur \notin walk[r].seen
                        /\ pc[r] = "walk" => Cardinality(queried) <= Safety + 1
                        /\ pc[r] = "link" => Cardinality(queried) <= Safety
        BY DEF WalksAreShort
    <2>1. /\ WalkOK(r)
          /\ pc[r] \in {"walk", "link"} => walk[r].cur \in Id
          /\ pc[r] = "link" => walk[r].depth < Safety
          /\ walk[r].seen \subseteq Id /\ walk[r].depth \in Nat
        BY <1>1, Types DEF IInv, StageOK, GuardTypes, WalkType
    <2>2. ASSUME walk[r].cur \in Id
          PROVE  Cardinality(walk[r].seen \cup {walk[r].cur}) = walk[r].depth + 1
        <3>1. IsFiniteSet(walk[r].seen) /\ walk[r].cur \notin walk[r].seen
            BY <2>1, IdSets DEF WalkOK
        <3>2. Cardinality(walk[r].seen \cup {walk[r].cur}) = Cardinality(walk[r].seen) + 1
            BY <3>1, FS_AddElement
        <3> QED
            BY <2>1, <3>2 DEF WalkOK
    <2>3. walk[r].cur \notin walk[r].seen /\ walk[r].depth <= Safety
        BY <2>1 DEF WalkOK
    <2> QED
        BY <2>1, <2>2, <2>3, SafetyAssumption
<1> QED
    BY <1>1, Invariance, PTL

\* With any number of requests and any writes between their queries, a maximum is
\* exceeded by no more rows than joined the group after it was counted.
THEOREM OverrunsAreOverlaps == Spec => []OverrunIsOverlap
<1>1. ASSUME IInv PROVE OverrunIsOverlap
    <2> SUFFICES ASSUME NEW r \in Request, pc[r] = "admitted"
                 PROVE  Cardinality(Group(r)) + units[r] <= snap[r].maximum + late[r]
        BY DEF OverrunIsOverlap
    <2>1. /\ ~snap[r].reached /\ snap[r].current + units[r] <= snap[r].maximum
          /\ snap[r].reached \/ Cardinality(Group(r)) <= snap[r].current + late[r]
        BY <1>1 DEF IInv, StageOK, CountOK, Counted
    <2>2. /\ snap[r] \in Snapshot /\ units[r] \in Nat /\ late[r] \in Nat
          /\ Cardinality(Group(r)) \in Nat
        BY <1>1, Types, GroupType DEF GuardTypes, IInv, TypeOK
    <2>3. snap[r].current \in Nat /\ snap[r].maximum \in Nat
        BY <2>2 DEF Snapshot
    <2> QED
        BY <2>1, <2>2, <2>3
<1> QED
    BY <1>1, Invariance, PTL
-----------------------------------------------------------------------------
(* What a guard that nobody disturbs knows of the table: each stage holds  *)
(* a part of what makes the verdict the one that is due.                   *)

Up(a) == SentOrStored(a, "up")
Sent(a) == SentOrStored(a, "owner")
Scoped == config.strategy = "tree" /\ config.scoped
Scope(a) == IF Scoped /\ Sent(a) = None /\ Up(a) # None THEN Nearest(Up(a)) ELSE Sent(a)

Limits(a) == a \in AskType /\ Action(a) \in {"create", "dynamic", "list"}

\* The request is one that is limited, and has a place in the table.
Limited(a) ==
    /\ Limits(a) /\ Placed(a, Up(a), Sent(a))
    /\ Scoped => Scope(a) # None \/ TooDeep(Up(a))

\* The context c is that of the request a.
InContext(a, c) ==
    /\ config.strategy = "tree" => c.up = Up(a)
    /\ config.strategy = "parent" \/ Scoped => c.owner = Scope(a)
    /\ config.strategy = "user" => c.owner = Given(a.owner, a.subject)

\* The nodes seen lead from i to cur, and all of them but cur have a parent.
Path(i, seen, cur) ==
    /\ cur \in Id /\ i \in seen \cup {cur} /\ seen \cup {cur} \subseteq Above(i)
    /\ \A k \in seen : k \in Live /\ rows[k].up \in seen \cup {cur}

\* The owner carried along the nodes seen above i is the first on the way.
Carries(i, seen, owner) ==
    /\ owner = None => \A k \in seen : rows[k].owner = None
    /\ owner # None =>
        \E j \in seen : /\ rows[j].owner = owner
                        /\ \A k \in Above(i) \cap Live : rows[k].owner # None => k \in Above(j)

OnTheWay(a, c, w) ==
    /\ config.strategy = "tree" /\ Limits(a) /\ Up(a) # None /\ c.up = Up(a)
    /\ Path(Up(a), w.seen, w.cur)
    /\ IF Scoped /\ Sent(a) = None THEN Carries(Up(a), w.seen, c.owner) ELSE c.owner = Sent(a)

ToCount(a, c, s) ==
    /\ Limited(a) /\ InContext(a, c) /\ ~TooDeep(Up(a))
    /\ ~s.reached /\ s.maximum = MaximumAt(Level(Up(a)))

\* The snapshot s is that of the table.
Measured(a, s) ==
    IF TooDeep(Up(a)) THEN s.reached
    ELSE /\ ~s.reached /\ s.maximum = MaximumAt(Level(Up(a)))
         /\ s.current = Cardinality(Siblings(a, Up(a), Scope(a)))

ToMeasure(a, s, how) ==
    /\ Limited(a) /\ Measured(a, s) /\ s \in Snapshot
    /\ Action(a) = "dynamic" /\ a.how = how /\ a.id \in Id

ToLink(a, w, s, u) ==
    /\ ToMeasure(a, s, "linked") /\ Path(a.id, w.seen, w.cur)
    /\ w.depth + 1 <= Safety /\ u = Cardinality(w.seen)

StageIs(p, a, c, w, s, u) ==
    /\ p \in {"hydrate", "walk", "count"} => u = 0
    /\ p = "hydrate" => Action(a) \in {"create", "dynamic"} /\ config.strategy # "user"
    /\ p = "walk" => OnTheWay(a, c, w)
    /\ p = "count" => ToCount(a, c, s)
    /\ p = "link" => ToLink(a, w, s, u)
    /\ p = "children" => ToMeasure(a, s, "children")
    /\ p \in Verdict \ {"error"} => p = Due(a)

\* The second inductive invariant.
RInv ==
    \A r \in Request :
        /\ pc[r] = "idle" => units[r] = 0 /\ ~stale[r]
        /\ ~stale[r] => StageIs(pc[r], ask[r], ctx[r], walk[r], snap[r], units[r])

\* A set of rows that has the parents of its members.
Closed(S) == \A k \in S \cap Live : rows[k].up # None => rows[k].up \in S

\* A row has a parent and an owner, or none.
LEMMA RowType ==
    ASSUME TypeOK, NEW k \in Live
    PROVE  k \in Id /\ rows[k].up \in Id \cup {None} /\ rows[k].owner \in Owner \cup {None}
BY DEF TypeOK, Live, Row

\* The nodes above i are the least closed set with i.
LEMMA AboveLeast ==
    ASSUME TypeOK, NEW i \in Id
    PROVE  /\ i \in Above(i) /\ Above(i) \subseteq Id /\ Closed(Above(i))
           /\ \A S \in SUBSET Id : i \in S /\ Closed(S) => Above(i) \subseteq S
<1>1. /\ i \in Above(i) /\ Above(i) \subseteq Id
      /\ \A S \in SUBSET Id : i \in S /\ Closed(S) => Above(i) \subseteq S
    BY DEF Above, Closed
<1>2. ASSUME NEW k \in Above(i) \cap Live, rows[k].up # None PROVE rows[k].up \in Above(i)
    <2>1. rows[k].up \in Id
        BY <1>2, RowType
    <2>2. ASSUME NEW S \in SUBSET Id, i \in S, Closed(S) PROVE rows[k].up \in S
        BY <1>1, <1>2, <2>2 DEF Closed
    <2> QED
        BY <2>1, <2>2 DEF Above, Closed
<1> QED
    BY <1>1, <1>2 DEF Closed

\* What is above a node above i is above i.
LEMMA AboveAbove ==
    ASSUME TypeOK, NEW i \in Id, NEW j \in Above(i)
    PROVE  j \in Id /\ Above(j) \subseteq Above(i)
<1>1. j \in Id
    BY AboveLeast
<1>2. Above(i) \in SUBSET Id /\ Closed(Above(i))
    BY AboveLeast
<1> QED
    BY <1>1, <1>2, AboveLeast

\* The nodes above i are i and those above its parent.
LEMMA AboveStep ==
    ASSUME TypeOK, NEW i \in Id, NEW j \in Above(i), j # i
    PROVE  i \in Live /\ rows[i].up # None /\ j \in Above(rows[i].up)
<1>1. CASE i \in Live /\ rows[i].up # None
    <2>1. rows[i].up \in Id
        BY <1>1, RowType
    <2>2. /\ Above(rows[i].up) \subseteq Id /\ Closed(Above(rows[i].up))
          /\ rows[i].up \in Above(rows[i].up)
        BY <2>1, AboveLeast
    <2>3. {i} \cup Above(rows[i].up) \in SUBSET Id /\ Closed({i} \cup Above(rows[i].up))
        BY <2>2 DEF Closed
    <2>4. Above(i) \subseteq {i} \cup Above(rows[i].up)
        BY <2>3, AboveLeast
    <2> QED
        BY <1>1, <2>4
<1>2. CASE ~(i \in Live /\ rows[i].up # None)
    <2>1. {i} \in SUBSET Id /\ Closed({i})
        BY <1>2 DEF Closed
    <2>2. Above(i) \subseteq {i}
        BY <2>1, AboveLeast
    <2> QED
        BY <2>2
<1> QED
    BY <1>1, <1>2

\* On a chain that ends, no two nodes are above each other.
LEMMA AboveOrders ==
    ASSUME TypeOK, NEW i \in Id, Ends(i), NEW j \in Above(i), NEW k \in Above(j), j \in Above(k)
    PROVE  j = k
<1> SUFFICES ASSUME j # k PROVE FALSE
    OBVIOUS
<1>1. PICK e \in Above(i) : e \notin Live \/ rows[e].up = None
    BY DEF Ends
<1>2. e \in Above(j)
    <2> DEFINE U == { m \in Above(i) : e \in Above(m) }
    <2>1. ASSUME NEW m \in U \cap Live, rows[m].up # None PROVE rows[m].up \in U
        <3>1. m \in Id /\ e \in Above(m) /\ m # e /\ rows[m].up \in Above(i)
            BY <1>1, <2>1, AboveLeast DEF Closed
        <3> QED
            BY <3>1, AboveStep
    <2>2. i \in U /\ U \in SUBSET Id
        BY <1>1, AboveLeast
    <2>3. Closed(U)
        BY <2>1 DEF Closed
    <2> HIDE DEF U
    <2>4. Above(i) \subseteq U
        BY <2>2, <2>3, AboveLeast
    <2> QED
        BY <2>4 DEF U
<1>3. j \in Id /\ k \in Id
    BY AboveAbove
<1> DEFINE T == { m \in Above(j) : j \in Above(m) }
<1>4. ASSUME NEW m \in T PROVE m \in Live /\ rows[m].up # None /\ rows[m].up \in T
    <2>1. m \in Id /\ m \in Above(j) /\ j \in Above(m)
        BY <1>3, AboveLeast
    <2>2. CASE m # j
        <3>1. m \in Live /\ rows[m].up # None /\ j \in Above(rows[m].up)
            BY <2>1, <2>2, AboveStep
        <3>2. rows[m].up \in Above(j)
            BY <1>3, <2>1, <3>1, AboveLeast DEF Closed
        <3> QED
            BY <3>1, <3>2
    <2>3. CASE m = j
        <3>1. j \in Live /\ rows[j].up # None /\ k \in Above(rows[j].up)
            BY <1>3, AboveStep
        <3>2. rows[j].up \in Id
            BY <3>1, RowType
        <3>3. j \in Above(rows[j].up)
            BY <3>1, <3>2, AboveAbove
        <3>4. rows[j].up \in Above(j)
            BY <1>3, <3>1, AboveLeast DEF Closed
        <3> QED
            BY <2>3, <3>1, <3>3, <3>4
    <2> QED
        BY <2>2, <2>3
<1>5. j \in T /\ T \in SUBSET Id
    BY <1>3, AboveLeast
<1> HIDE DEF T
<1>6. Closed(T)
    BY <1>4 DEF Closed
<1>7. e \in T
    BY <1>2, <1>3, <1>5, <1>6, AboveLeast
<1> QED
    BY <1>1, <1>4, <1>7

\* Whatever the nodes seen, no node is None.
LEMMA PathType ==
    ASSUME NEW i \in Id, NEW seen \in SUBSET Id, NEW cur \in Id
    PROVE  seen \cup {cur} \in SUBSET Id /\ None \notin seen \cup {cur}
BY NoneAssumption

\* A path that comes to an end has met every node above its first.
LEMMA PathEnds ==
    ASSUME TypeOK, NEW i \in Id, NEW seen \in SUBSET Id, NEW cur \in Id, Path(i, seen, cur),
           cur \in Live => rows[cur].up = None
    PROVE  Above(i) = seen \cup {cur} /\ Ends(i)
<1>1. Closed(seen \cup {cur}) /\ seen \cup {cur} \in SUBSET Id
    BY DEF Path, Closed
<1>2. Above(i) \subseteq seen \cup {cur}
    BY <1>1, AboveLeast DEF Path
<1> QED
    BY <1>2 DEF Path, Ends

\* A path that comes back to a node has met every node above its first, and has no end.
LEMMA PathCycles ==
    ASSUME TypeOK, NEW i \in Id, NEW seen \in SUBSET Id, NEW cur \in Id, Path(i, seen, cur),
           cur \in Live, rows[cur].up \in seen \cup {cur}
    PROVE  ~Ends(i)
<1>1. Closed(seen \cup {cur}) /\ seen \cup {cur} \in SUBSET Id
    BY DEF Path, Closed
<1>2. Above(i) \subseteq seen \cup {cur}
    BY <1>1, AboveLeast DEF Path
<1>3. \A k \in seen \cup {cur} : k \in Live /\ rows[k].up # None
    BY PathType DEF Path
<1> QED
    BY <1>2, <1>3 DEF Ends

\* A path goes on to the parent.
LEMMA PathGoes ==
    ASSUME TypeOK, NEW i \in Id, NEW seen \in SUBSET Id, NEW cur \in Id, Path(i, seen, cur),
           cur \in Live, rows[cur].up # None
    PROVE  Path(i, seen \cup {cur}, rows[cur].up)
<1>1. rows[cur].up \in Id
    BY RowType
<1>2. rows[cur].up \in Above(i)
    BY AboveLeast DEF Path, Closed
<1> QED
    BY <1>1, <1>2 DEF Path

\* A path starts with no node seen.
LEMMA PathStarts == ASSUME TypeOK, NEW i \in Id PROVE Path(i, {}, i)
BY AboveLeast DEF Path

\* There are at least as many nodes above i as were met.
LEMMA PathSize ==
    ASSUME TypeOK, NEW i \in Id, NEW S, S \subseteq Above(i)
    PROVE  /\ Cardinality(S) <= Cardinality(Above(i))
           /\ Cardinality(S) \in Nat /\ Cardinality(Above(i)) \in Nat
<1>1. Above(i) \subseteq Id /\ S \subseteq Id
    BY AboveLeast
<1>2. IsFiniteSet(Above(i)) /\ Cardinality(S) \in Nat /\ Cardinality(Above(i)) \in Nat
    BY <1>1, IdSets
<1>3. S \in SUBSET Above(i)
    OBVIOUS
<1>4. Cardinality(S) <= Cardinality(Above(i))
    BY <1>2, <1>3, FS_Subset
<1> QED
    BY <1>2, <1>4

\* What is above i was seen, or is above the node that is read now.
LEMMA PathSplits ==
    ASSUME TypeOK, NEW i \in Id, NEW seen \in SUBSET Id, NEW cur \in Id, Path(i, seen, cur)
    PROVE  Above(i) \subseteq seen \cup Above(cur)
<1>1. cur \in Above(cur) /\ Above(cur) \subseteq Id /\ Closed(Above(cur))
    BY AboveLeast
<1>2. seen \cup Above(cur) \in SUBSET Id /\ i \in seen \cup Above(cur)
    BY <1>1 DEF Path
<1>3. Closed(seen \cup Above(cur))
    BY <1>1 DEF Closed, Path
<1> QED
    BY <1>2, <1>3, AboveLeast

\* The first owner on the way is carried on.
LEMMA CarriesOn ==
    ASSUME TypeOK, NEW i \in Id, NEW seen \in SUBSET Id, NEW cur \in Id, Path(i, seen, cur),
           cur \in Live, NEW owner, Carries(i, seen, owner)
    PROVE  Carries(i, seen \cup {cur}, Given(owner, rows[cur].owner))
<1>1. CASE owner # None
    BY <1>1 DEF Carries, Given
<1>2. CASE owner = None /\ rows[cur].owner = None
    BY <1>2 DEF Carries, Given
<1>3. CASE owner = None /\ rows[cur].owner # None
    <2>1. \A k \in seen : rows[k].owner = None
        BY <1>3 DEF Carries
    <2>2. \A k \in Above(i) \cap Live : rows[k].owner # None => k \in Above(cur)
        BY <2>1, PathSplits
    <2> QED
        BY <1>3, <2>2 DEF Carries, Given
<1> QED
    BY <1>1, <1>2, <1>3

\* What has been carried to the root is the nearest owner.
LEMMA CarriesNearest ==
    ASSUME TypeOK, NEW i \in Id, Above(i) \subseteq Live, Ends(i), NEW owner,
           Carries(i, Above(i), owner)
    PROVE  Nearest(i) = owner
<1> DEFINE scoped == { j \in Above(i) : rows[j].owner # None }
           first == { j \in scoped : \A k \in scoped : k \in Above(j) }
<1>1. Nearest(i) = IF first = {} THEN None ELSE rows[CHOOSE j \in first : TRUE].owner
    BY DEF Nearest
<1>2. CASE owner = None
    <2>1. first = {}
        BY <1>2 DEF Carries
    <2> HIDE DEF first
    <2> QED
        BY <1>1, <1>2, <2>1
<1>3. CASE owner # None
    <2>1. PICK j \in Above(i) :
            /\ rows[j].owner = owner
            /\ \A k \in Above(i) \cap Live : rows[k].owner # None => k \in Above(j)
        BY <1>3 DEF Carries
    <2>2. j \in first
        BY <1>3, <2>1
    <2>3. \A m \in first : m = j
        <3> SUFFICES ASSUME NEW m \in first PROVE m = j
            OBVIOUS
        <3>1. m \in Above(i) /\ j \in Above(m) /\ m \in Above(j)
            BY <2>1, <2>2
        <3> QED
            BY <3>1, AboveOrders
    <2> HIDE DEF first
    <2>4. (CHOOSE m \in first : TRUE) \in first
        BY <2>2
    <2>5. (CHOOSE m \in first : TRUE) = j
        BY <2>3, <2>4
    <2> QED
        BY <1>1, <2>1, <2>2, <2>5
<1> QED
    BY <1>2, <1>3

\* What a guard knows of the table it knows until the table changes.
LEMMA TableStays ==
    ASSUME UNCHANGED <<rows, config>>
    PROVE  \A p, a, c, w, s, u : StageIs(p, a, c, w, s, u)' <=> StageIs(p, a, c, w, s, u)
<1>1. Live' = Live /\ Fields' = Fields /\ (Scoped' <=> Scoped)
    BY DEF Live, Fields, Scoped
<1>2. \A a : Action(a)' = Action(a)
    BY DEF Action
<1>3. \A a, f : SentOrStored(a, f)' = SentOrStored(a, f)
    BY <1>1 DEF SentOrStored
<1>4. \A i : Above(i)' = Above(i)
    BY <1>1 DEF Above
<1>5. /\ \A i : Ends(i)' <=> Ends(i)
      /\ \A i : Rooted(i)' <=> Rooted(i)
    BY <1>1, <1>4 DEF Ends, Rooted
<1>6. ASSUME NEW i PROVE Nearest(i)' = Nearest(i)
    <2> DEFINE scoped == { j \in Above(i) : rows[j].owner # None }
               first == { j \in scoped : \A k \in scoped : k \in Above(j) }
    <2>1. scoped' = scoped
        BY <1>4
    <2> HIDE DEF scoped
    <2>2. first' = first
        BY <1>4, <2>1
    <2>3. Nearest(i) = IF first = {} THEN None ELSE rows[CHOOSE j \in first : TRUE].owner
        BY DEF Nearest, first, scoped
    <2>4. Nearest(i)' = IF first' = {} THEN None ELSE rows'[CHOOSE j \in first' : TRUE].owner
        BY DEF Nearest, first, scoped
    <2> HIDE DEF first
    <2> QED
        BY <2>2, <2>3, <2>4
<1>7. \A a : Up(a)' = Up(a) /\ Sent(a)' = Sent(a)
    BY <1>3 DEF Up, Sent
<1>8. \A a : Scope(a)' = Scope(a)
    BY <1>1, <1>6, <1>7 DEF Scope
<1>9. \A up : Level(up)' = Level(up)
    BY <1>4 DEF Level
<1>10. \A up : TooDeep(up)' <=> TooDeep(up)
    BY <1>9 DEF TooDeep
<1>11. \A a : Wanted(a)' = Wanted(a)
    BY <1>1, <1>2, <1>4 DEF Wanted
<1>12. \A a, up, scope : Placed(a, up, scope)' <=> Placed(a, up, scope)
    BY <1>5 DEF Placed
<1>13. \A a, up, scope : Siblings(a, up, scope)' = Siblings(a, up, scope)
    BY <1>1 DEF Siblings
<1>14. \A level : MaximumAt(level)' = MaximumAt(level)
    BY DEF MaximumAt
<1>15. \A a : BadList(a)' <=> BadList(a)
    BY <1>2, <1>4, <1>5 DEF BadList
<1>16. \A a : Due(a)' = Due(a)
    <2>1. \A a, owner : Userless(a, owner)' <=> Userless(a, owner)
        BY DEF Userless
    <2> QED
        BY <1>2, <1>3, <1>6, <1>9, <1>10, <1>11, <1>12, <1>13, <1>14, <1>15, <2>1 DEF Due
<1>17. /\ \A a : Limits(a)' <=> Limits(a)
       /\ \A a : Limited(a)' <=> Limited(a)
       /\ \A a, c : InContext(a, c)' <=> InContext(a, c)
    BY <1>1, <1>2, <1>7, <1>8, <1>10, <1>12 DEF Limits, Limited, InContext
<1>18. \A i, seen, cur : Path(i, seen, cur)' <=> Path(i, seen, cur)
    BY <1>1, <1>4 DEF Path
<1>19. \A i, seen, owner : Carries(i, seen, owner)' <=> Carries(i, seen, owner)
    BY <1>1, <1>4 DEF Carries
<1>20. \A a, s : Measured(a, s)' <=> Measured(a, s)
    BY <1>7, <1>8, <1>9, <1>10, <1>13, <1>14 DEF Measured
<1>21. \A a, c, w : OnTheWay(a, c, w)' <=> OnTheWay(a, c, w)
    BY <1>1, <1>7, <1>17, <1>18, <1>19 DEF OnTheWay
<1>22. \A a, c, s : ToCount(a, c, s)' <=> ToCount(a, c, s)
    BY <1>7, <1>9, <1>10, <1>14, <1>17 DEF ToCount
<1>23. \A a, s, how : ToMeasure(a, s, how)' <=> ToMeasure(a, s, how)
    BY <1>2, <1>17, <1>20 DEF ToMeasure
<1>24. \A a, w, s, u : ToLink(a, w, s, u)' <=> ToLink(a, w, s, u)
    BY <1>18, <1>23 DEF ToLink
<1> QED
    BY <1>2, <1>16, <1>21, <1>22, <1>23, <1>24 DEF StageIs

\* What is due to a request whose place in the table is known.
LEMMA DueIs ==
    ASSUME NEW a, Limited(a)
    PROVE  Due(a) =
             IF BadList(a) THEN "badRequest"
             ELSE IF Action(a) = "list" THEN "listed"
             ELSE IF /\ ~TooDeep(Up(a))
                     /\ Cardinality(Siblings(a, Up(a), Scope(a))) + Wanted(a)
                            <= MaximumAt(Level(Up(a)))
             THEN "admitted" ELSE "conflict"
BY DEF Limited, Limits, Due, Up, Sent, Scope, Scoped, Userless, Placed, Given

\* What is due to a request that has no place in the table, or that copies no list.
LEMMA DueRefused ==
    ASSUME NEW a, Limits(a), ~Userless(a, Given(a.owner, a.subject)),
           \/ ~Placed(a, Up(a), Sent(a))
           \/ Scoped /\ Scope(a) = None /\ ~TooDeep(Up(a))
           \/ BadList(a)
    PROVE  Due(a) = "badRequest"
BY DEF Limits, Due, Up, Sent, Scope, Scoped

\* A request with a place in the table has the user it is limited by.
LEMMA LimitedHasUser ==
    ASSUME NEW a, Limited(a)
    PROVE  ~Userless(a, Given(a.owner, a.subject))
BY DEF Limited, Placed, Userless, Given

\* What the next state knows of the request a.
Told(r, a) == StageIs(pc'[r], a, ctx'[r], walk'[r], snap'[r], units'[r])

\* A verdict that is due, or an error.
LEMMA VerdictTold ==
    ASSUME NEW r, NEW a, pc'[r] \in Verdict, pc'[r] \in {Due(a), "error"}
    PROVE  Told(r, a)
BY DEF Told, StageIs, Verdict

\* Whatever is asked for is a number of rows.
LEMMA WantedType == ASSUME NEW a \in AskType PROVE Wanted(a) \in Nat
<1> DEFINE children == { j \in Live : rows[j].up = a.id }
<1>1. Above(a.id) \cap Live \subseteq Id /\ children \subseteq Id
    BY DEF Live
<1>2. Cardinality(Above(a.id) \cap Live) \in Nat /\ Cardinality(children) \in Nat
    <2> HIDE DEF children
    <2> QED
        BY <1>1, IdSets
<1>3. /\ Cardinality(Above(a.id) \cap Live) - (IF a.includeRoot THEN 0 ELSE 1) \in Int
      /\ Cardinality(children) + (IF a.includeRoot THEN 1 ELSE 0) \in Int
      /\ a.fixed \in Int
    <2> HIDE DEF children
    <2> QED
        BY <1>2 DEF AskType
<1> QED
    BY <1>3, UnitsType DEF Wanted

\* The rows that are wanted are admitted if they fit, and refused if not.
LEMMA ConsumeIsDue ==
    ASSUME GuardTypes, NEW r \in Request, NEW a, Limited(a), NEW s \in Snapshot, Measured(a, s),
           Action(a) \in {"create", "dynamic"}, ~BadList(a), Consume(r, s, Wanted(a))
    PROVE  Told(r, a)
<1>1. Wanted(a) \in Nat
    BY WantedType DEF Limited, Limits
<1>2. pc'[r] = IF ~s.reached /\ s.current + Wanted(a) <= s.maximum
               THEN "admitted" ELSE "conflict"
    BY DEF Consume, Decide, GuardTypes
<1>3. pc'[r] = Due(a)
    <2>1. CASE TooDeep(Up(a))
        BY <1>2, <2>1, DueIs DEF Measured
    <2>2. CASE ~TooDeep(Up(a))
        <3>1. /\ ~s.reached /\ s.maximum = MaximumAt(Level(Up(a)))
              /\ s.current = Cardinality(Siblings(a, Up(a), Scope(a)))
            BY <2>2 DEF Measured
        <3> QED
            BY <1>2, <2>2, <3>1, DueIs
    <2> QED
        BY <2>1, <2>2
<1>4. pc'[r] \in Verdict
    BY <1>2 DEF Verdict
<1> QED
    BY <1>3, <1>4, VerdictTold

\* A measured request is judged, or goes on to count what it wants.
LEMMA JudgeIsDue ==
    ASSUME TypeOK, GuardTypes, NEW r \in Request, NEW a, Limited(a), NEW s \in Snapshot,
           Measured(a, s), units[r] = 0, Judge(r, a, s)
    PROVE  Told(r, a)
<1>1. a \in AskType /\ snap'[r] = s
    BY DEF Judge, GuardTypes, Limited, Limits
<1>2. CASE Action(a) = "list" /\ Decide(r, "listed", 0)
    <2>1. pc'[r] = "listed" /\ ~BadList(a)
        BY <1>2 DEF Decide, GuardTypes, BadList
    <2>2. pc'[r] = Due(a)
        BY <1>2, <2>1, DueIs
    <2> QED
        BY <2>1, <2>2, VerdictTold DEF Verdict
<1>3. CASE Action(a) = "create" /\ Consume(r, s, 1)
    <2>1. Wanted(a) = 1 /\ ~BadList(a)
        BY <1>3 DEF Wanted, BadList
    <2> QED
        BY <1>3, <2>1, ConsumeIsDue
<1>4. CASE Action(a) = "dynamic" /\ a.how = "fixed" /\ Consume(r, s, NormalizeUnits(a.fixed))
    <2>1. Wanted(a) = NormalizeUnits(a.fixed) /\ ~BadList(a)
        BY <1>4 DEF Wanted, BadList
    <2> QED
        BY <1>4, <2>1, ConsumeIsDue
<1>5. CASE Action(a) = "dynamic" /\ a.how # "fixed" /\ a.id = None /\ Consume(r, s, 1)
    <2>1. Wanted(a) = 1 /\ ~BadList(a)
        BY <1>5 DEF Wanted, BadList
    <2> QED
        BY <1>5, <2>1, ConsumeIsDue
<1>6. CASE /\ Action(a) = "dynamic" /\ a.how # "fixed" /\ a.id # None
           /\ pc' = [pc EXCEPT ![r] = IF a.how = "linked" THEN "link" ELSE "children"]
           /\ walk' = [walk EXCEPT ![r] = [NoWalk EXCEPT !.cur = a.id]]
           /\ UNCHANGED units
    <2>1. a.id \in Id /\ a.how \in {"linked", "children"}
        BY <1>1, <1>6 DEF AskType
    <2>2. pc'[r] = IF a.how = "linked" THEN "link" ELSE "children"
        BY <1>6 DEF GuardTypes
    <2>3. walk'[r].cur = a.id /\ walk'[r].seen = {} /\ walk'[r].depth = 0 /\ units'[r] = 0
        BY <1>6 DEF GuardTypes, NoWalk
    <2>4. ToMeasure(a, s, a.how)
        BY <1>6, <2>1 DEF ToMeasure
    <2>5. Path(a.id, {}, a.id) /\ Cardinality({}) = 0 /\ 0 + 1 <= Safety
        BY <2>1, PathStarts, FS_EmptySet, SafetyAssumption
    <2>6. CASE a.how = "linked"
        <3>1. ToLink(a, walk'[r], s, units'[r])
            BY <2>3, <2>4, <2>5, <2>6 DEF ToLink
        <3> QED
            BY <1>1, <2>2, <2>6, <3>1 DEF Told, StageIs, Verdict
    <2>7. CASE a.how = "children"
        BY <1>1, <2>2, <2>4, <2>7 DEF Told, StageIs, Verdict
    <2> QED
        BY <2>1, <2>6, <2>7
<1> QED
    BY <1>2, <1>3, <1>4, <1>5, <1>6 DEF Judge

\* A request that is placed where it belongs is counted, or is refused as it should be.
LEMMA PlaceIsDue ==
    ASSUME TypeOK, GuardTypes, config \in ConfigType, NEW r \in Request, units[r] = 0,
           NEW a, Limits(a), Placed(a, Up(a), Sent(a)),
           NEW up \in Id \cup {None}, NEW owner \in Owner \cup {None}, NEW d \in Nat,
           InContext(a, [up |-> up, owner |-> owner]),
           config.strategy = "tree" => d + 1 = Level(Up(a)),
           Place(r, a, up, owner, d)
    PROVE  Told(r, a)
<1> DEFINE tooDeep == config.strategy = "tree" /\ config.maxDepth # None
                      /\ d + 1 > config.maxDepth
           s == [NoSnap EXCEPT !.reached = TRUE]
           m == [NoSnap EXCEPT !.maximum = MaximumAt(d + 1)]
<1>1. tooDeep <=> TooDeep(Up(a))
    BY DEF TooDeep
<1>2. \/ tooDeep /\ Judge(r, a, s)
      \/ /\ ~tooDeep /\ config.strategy = "tree" /\ config.scoped /\ owner = None
         /\ Decide(r, "badRequest", 0)
         /\ UNCHANGED snap
      \/ /\ ~tooDeep
         /\ config.strategy = "tree" /\ config.scoped => owner # None
         /\ pc' = [pc EXCEPT ![r] = "count"]
         /\ walk' = [walk EXCEPT ![r] = NoWalk]
         /\ snap' = [snap EXCEPT ![r] = m]
         /\ UNCHANGED units
    BY DEF Place
<1>3. ctx'[r] = [up |-> up, owner |-> owner]
    BY DEF Place, GuardTypes
<1>4. s \in Snapshot /\ s.reached
    BY DEF NoSnap, Snapshot
<1>5. m.maximum = MaximumAt(Level(Up(a))) /\ ~m.reached
    <2>1. m.maximum = MaximumAt(d + 1) /\ ~m.reached
        BY DEF NoSnap
    <2>2. config.strategy # "tree" => MaximumAt(d + 1) = MaximumAt(Level(Up(a)))
        BY DEF MaximumAt
    <2> HIDE DEF m
    <2> QED
        BY <2>1, <2>2
<1>6. Scoped => Scope(a) = owner
    BY DEF InContext
<1> HIDE DEF tooDeep, s, m
<1>7. CASE tooDeep /\ Judge(r, a, s)
    <2>1. Limited(a) /\ Measured(a, s)
        BY <1>1, <1>4, <1>7 DEF Limited, Measured
    <2> QED
        BY <1>4, <1>7, <2>1, JudgeIsDue
<1>8. CASE /\ ~tooDeep /\ config.strategy = "tree" /\ config.scoped /\ owner = None
           /\ Decide(r, "badRequest", 0)
    <2>1. Due(a) = "badRequest"
        BY <1>1, <1>6, <1>8, DueRefused DEF Scoped, Userless
    <2>2. pc'[r] = "badRequest"
        BY <1>8 DEF Decide, GuardTypes
    <2> QED
        BY <2>1, <2>2, VerdictTold DEF Verdict
<1>9. CASE /\ ~tooDeep
           /\ config.strategy = "tree" /\ config.scoped => owner # None
           /\ pc' = [pc EXCEPT ![r] = "count"]
           /\ snap' = [snap EXCEPT ![r] = m]
           /\ UNCHANGED units
    <2>1. Limited(a)
        BY <1>6, <1>9 DEF Limited, Scoped
    <2>2. pc'[r] = "count" /\ snap'[r] = m /\ units'[r] = 0
        BY <1>9 DEF GuardTypes
    <2>3. ToCount(a, ctx'[r], snap'[r])
        BY <1>1, <1>3, <1>5, <1>9, <2>1, <2>2 DEF ToCount
    <2> QED
        BY <2>2, <2>3 DEF Told, StageIs, Verdict
<1> QED
    BY <1>2, <1>7, <1>8, <1>9

\* A request is resolved to its parent and owner, or starts on the way to the root.
LEMMA ResolveIsDue ==
    ASSUME TypeOK, GuardTypes, config \in ConfigType, NEW r \in Request, units[r] = 0,
           NEW a, Limits(a),
           NEW up \in Id \cup {None}, NEW owner \in Owner \cup {None},
           config.strategy = "tree" => up = Up(a),
           owner = IF config.strategy = "user" THEN Given(a.owner, a.subject) ELSE Sent(a),
           Resolve(r, a, up, owner)
    PROVE  Told(r, a)
<1>1. config.strategy \in {"user", "parent", "global", "tree"}
    BY DEF ConfigType
<1>2. CASE /\ config.strategy \in {"user", "parent"} /\ owner = None /\ ~Userless(a, owner)
           /\ Decide(r, "badRequest", 0)
    <2>1. ~Placed(a, Up(a), Sent(a)) /\ ~Userless(a, Given(a.owner, a.subject))
        BY <1>2 DEF Placed, Given, Userless
    <2>2. Due(a) = "badRequest"
        BY <2>1, DueRefused
    <2>3. pc'[r] = "badRequest"
        BY <1>2 DEF Decide, GuardTypes
    <2> QED
        BY <2>2, <2>3, VerdictTold DEF Verdict
<1>3. CASE /\ config.strategy \in {"user", "parent"} => owner # None
           /\ config.strategy # "tree" \/ up = None
           /\ Place(r, a, up, owner, 0)
    <2>1. Placed(a, Up(a), Sent(a))
        BY <1>1, <1>3 DEF Placed, Given
    <2>2. InContext(a, [up |-> up, owner |-> owner])
        BY <1>1, <1>3 DEF InContext, Scope, Scoped
    <2>3. config.strategy = "tree" => 0 + 1 = Level(Up(a))
        BY <1>3 DEF Level
    <2> QED
        BY <1>3, <2>1, <2>2, <2>3, PlaceIsDue
<1>4. CASE /\ config.strategy = "tree" /\ up # None
           /\ pc' = [pc EXCEPT ![r] = "walk"]
           /\ ctx' = [ctx EXCEPT ![r] = [up |-> up, owner |-> owner]]
           /\ walk' = [walk EXCEPT ![r] = [NoWalk EXCEPT !.cur = up]]
           /\ UNCHANGED <<snap, units>>
    <2>1. /\ pc'[r] = "walk" /\ ctx'[r] = [up |-> up, owner |-> owner] /\ units'[r] = 0
          /\ walk'[r].cur = up /\ walk'[r].seen = {}
        BY <1>4 DEF GuardTypes, NoWalk
    <2>2. Path(Up(a), {}, up)
        BY <1>4, PathStarts
    <2>3. Carries(Up(a), {}, None)
        BY DEF Carries
    <2>4. ctx'[r].up = Up(a) /\ ctx'[r].owner = Sent(a) /\ Up(a) # None
        BY <1>4, <2>1
    <2>5. IF Scoped /\ Sent(a) = None THEN Carries(Up(a), walk'[r].seen, ctx'[r].owner)
          ELSE ctx'[r].owner = Sent(a)
        BY <2>1, <2>3, <2>4, Zenon
    <2>6. OnTheWay(a, ctx'[r], walk'[r])
        BY <1>4, <2>1, <2>2, <2>4, <2>5 DEF OnTheWay
    <2> QED
        BY <2>1, <2>6 DEF Told, StageIs, Verdict
<1>5. CASE Userless(a, owner) /\ Decide(r, "typeError", 0)
    <2>1. Due(a) = "typeError"
        BY <1>5 DEF Limits, Due, Userless
    <2>2. pc'[r] = "typeError"
        BY <1>5 DEF Decide, GuardTypes
    <2> QED
        BY <2>1, <2>2, VerdictTold DEF Verdict
<1> QED
    BY <1>2, <1>3, <1>4, <1>5 DEF Resolve

\* A request that arrives is let through, or resolved from what it sent.
LEMMA ArriveIsDue ==
    ASSUME IInv, NEW r \in Request, NEW a \in Ask[r], units[r] = 0, Arrive(r, a)
    PROVE  Told(r, a)
<1>1. a \in AskType /\ TypeOK /\ GuardTypes /\ config \in ConfigType
    BY RequestAssumption, Types DEF IInv
<1>2. Action(a) \in {"skip", "create", "dynamic", "list"}
    BY <1>1 DEF Action, AskType
<1>3. CASE Action(a) = "skip" /\ pc' = [pc EXCEPT ![r] = "passed"]
    <2>1. pc'[r] = "passed" /\ Due(a) = "passed"
        BY <1>1, <1>3 DEF GuardTypes, Due
    <2> QED
        BY <2>1, VerdictTold DEF Verdict
<1>4. CASE /\ NeedsRow(a)
           /\ pc' = [pc EXCEPT ![r] = "hydrate"] /\ UNCHANGED <<ctx, walk, snap, units>>
    <2>1. pc'[r] = "hydrate" /\ units'[r] = 0
        BY <1>1, <1>4 DEF GuardTypes
    <2>2. Action(a) \in {"create", "dynamic"} /\ config.strategy # "user"
        BY <1>4 DEF NeedsRow, Fields
    <2> QED
        BY <2>1, <2>2 DEF Told, StageIs, Verdict
<1>5. CASE /\ Action(a) # "skip" /\ ~NeedsRow(a)
           /\ Resolve(r, a, a.up, IF config.strategy = "user" THEN Given(a.owner, a.subject)
                                  ELSE a.owner)
    <2> DEFINE owner == IF config.strategy = "user" THEN Given(a.owner, a.subject) ELSE a.owner
    <2>1. a.up \in Id \cup {None} /\ owner \in Owner \cup {None} /\ Limits(a)
        BY <1>1, <1>2, <1>5 DEF AskType, Given, Limits
    <2>2. Action(a) = "list" => config.strategy \in {"user", "global"}
        BY DEF Action
    <2>3. \A f \in Fields : a.id = None \/ a[f] # None
        BY <1>1, <1>2, <1>5, <2>2 DEF NeedsRow, Fields
    <2>4. Up(a) = a.up /\ Sent(a) = a.owner
        BY <2>3 DEF Up, Sent, SentOrStored
    <2>5. owner = IF config.strategy = "user" THEN Given(a.owner, a.subject) ELSE Sent(a)
        BY <2>4
    <2> HIDE DEF owner
    <2>6. Resolve(r, a, a.up, owner)
        BY <1>5 DEF owner
    <2> QED
        BY <1>1, <2>1, <2>4, <2>5, <2>6, ResolveIsDue
<1> QED
    BY <1>3, <1>4, <1>5 DEF Arrive

\* What was not sent is what is stored in the row of the route.
LEMMA HydrateIsDue ==
    ASSUME IInv, NEW r \in Request,
           StageIs(pc[r], ask[r], ctx[r], walk[r], snap[r], units[r]), Hydrate(r)
    PROVE  Told(r, ask[r])
<1> DEFINE a == ask[r]
           Value(f) == IF f \in Fields /\ rows[a.id] # None THEN Given(a[f], rows[a.id][f])
                       ELSE a[f]
           up == Value("up")
           owner == Value("owner")
<1>1. TypeOK /\ GuardTypes /\ config \in ConfigType /\ pc[r] = "hydrate"
    BY Types DEF Hydrate, IInv
<1>2. /\ a \in AskType /\ a.id \in Id /\ units[r] = 0 /\ config.strategy # "user"
      /\ Action(a) \in {"create", "dynamic"}
    BY <1>1 DEF IInv, StageOK, StageIs
<1>3. rows[a.id] \in Row \cup {None} /\ a.id # None
    BY <1>2, NoneAssumption DEF IInv, TypeOK
<1>4. up \in Id \cup {None} /\ owner \in Owner \cup {None}
    BY <1>2, <1>3 DEF AskType, Row, Given
<1>5. up = Up(a) /\ owner = Sent(a)
    BY <1>2, <1>3 DEF Up, Sent, SentOrStored, Given
<1>6. Resolve(r, a, up, owner) /\ Limits(a)
    BY <1>2 DEF Hydrate, Limits
<1> HIDE DEF a, up, owner
<1>7. Told(r, a)
    BY <1>1, <1>2, <1>4, <1>5, <1>6, ResolveIsDue
<1> QED
    BY <1>7 DEF a

\* The group of a request is that of the rows it is to be counted with.
LEMMA GroupIs ==
    ASSUME config \in ConfigType, NEW r, NEW a, InContext(a, ctx[r])
    PROVE  Group(r) = Siblings(a, Up(a), Scope(a))
<1>1. config.strategy \in {"user", "parent", "global", "tree"}
    BY DEF ConfigType
<1> QED
    BY <1>1 DEF Group, Siblings, InContext, Scoped

\* The count is that of the table.
LEMMA CountIsDue ==
    ASSUME IInv, NEW r \in Request,
           StageIs(pc[r], ask[r], ctx[r], walk[r], snap[r], units[r]), Count(r)
    PROVE  Told(r, ask[r])
<1> DEFINE s == [snap[r] EXCEPT !.current = Cardinality(Group(r))]
<1>1. TypeOK /\ GuardTypes /\ config \in ConfigType /\ pc[r] = "count" /\ snap[r] \in Snapshot
    BY Types DEF Count, IInv, GuardTypes
<1>2. ToCount(ask[r], ctx[r], snap[r]) /\ units[r] = 0
    BY <1>1 DEF StageIs
<1>3. Group(r) = Siblings(ask[r], Up(ask[r]), Scope(ask[r]))
    BY <1>1, <1>2, GroupIs DEF ToCount
<1>4. /\ s \in Snapshot /\ s.current = Cardinality(Group(r))
      /\ s.reached = snap[r].reached /\ s.maximum = snap[r].maximum
    BY <1>1, GroupType DEF Snapshot
<1>5. Judge(r, ask[r], s)
    BY DEF Count
<1> HIDE DEF s
<1>6. Measured(ask[r], s) /\ Limited(ask[r])
    BY <1>2, <1>3, <1>4 DEF Measured, ToCount
<1> QED
    BY <1>1, <1>2, <1>4, <1>5, <1>6, JudgeIsDue

\* At the root the level and the scope are known, and a chain that has none is refused.
LEMMA WalkIsDue ==
    ASSUME IInv, NEW r \in Request,
           StageIs(pc[r], ask[r], ctx[r], walk[r], snap[r], units[r]), Walk(r)
    PROVE  Told(r, ask[r])
<1> DEFINE a == ask[r]
           i == walk[r].cur
           up == IF i \in Found THEN rows[i].up ELSE None
           owner == IF i \in Found /\ config.scoped THEN Given(ctx[r].owner, rows[i].owner)
                    ELSE ctx[r].owner
           seen == walk[r].seen \cup {i}
           depth == walk[r].depth + 1
           failed == i \notin Found \/ Stops(seen, depth, up, Safety)
<1>1. TypeOK /\ GuardTypes /\ config \in ConfigType /\ pc[r] = "walk" /\ Found = Live
    BY Types DEF Walk, IInv, Found
<1>2. /\ i \in Id /\ depth \in Nat /\ ctx[r] \in Context
      /\ walk[r].seen \in SUBSET Id /\ walk[r].depth = Cardinality(walk[r].seen)
      /\ i \notin walk[r].seen
    BY <1>1 DEF IInv, StageOK, WalkOK, GuardTypes, WalkType
<1>3. OnTheWay(a, ctx[r], walk[r]) /\ units[r] = 0
    BY <1>1 DEF StageIs
<1>4. /\ Limits(a) /\ Up(a) # None /\ Path(Up(a), walk[r].seen, i)
      /\ config.strategy = "tree" /\ ctx[r].up = Up(a)
    BY <1>3 DEF OnTheWay
<1>5. Up(a) \in Id
    BY <1>4, <1>2 DEF Context
<1>6. Cardinality(seen) = depth /\ seen \subseteq Above(Up(a)) /\ i \in seen
    BY <1>2, <1>4, IdSets, FS_AddElement DEF Path
<1>7. i \in Live => rows[i] \in Row
    BY DEF TypeOK, Live, IInv
<1>8. up \in Id \cup {None} /\ owner \in Owner \cup {None}
    BY <1>1, <1>2, <1>7 DEF Row, Context, Given
<1>9. i \in Live => IF Scoped /\ Sent(a) = None THEN Carries(Up(a), seen, owner)
                    ELSE owner = Sent(a)
    <2> SUFFICES ASSUME i \in Live
                 PROVE  IF Scoped /\ Sent(a) = None THEN Carries(Up(a), seen, owner)
                        ELSE owner = Sent(a)
        OBVIOUS
    <2>1. CASE Scoped /\ Sent(a) = None
        <3>1. Carries(Up(a), walk[r].seen, ctx[r].owner)
            BY <1>3, <2>1 DEF OnTheWay
        <3>2. Carries(Up(a), seen, Given(ctx[r].owner, rows[i].owner))
            BY <1>1, <1>2, <1>4, <1>5, <3>1, CarriesOn
        <3>3. owner = Given(ctx[r].owner, rows[i].owner)
            BY <1>1, <2>1 DEF Scoped
        <3> HIDE DEF owner, seen
        <3> QED
            BY <2>1, <3>2, <3>3
    <2>2. CASE ~(Scoped /\ Sent(a) = None)
        <3>1. ctx[r].owner = Sent(a)
            BY <1>3, <2>2 DEF OnTheWay
        <3>2. owner = ctx[r].owner
            BY <1>4, <2>2, <3>1 DEF Scoped, Given
        <3> HIDE DEF owner, seen
        <3> QED
            BY <2>2, <3>1, <3>2
    <2> QED
        BY <2>1, <2>2
<1>10. \/ failed /\ Decide(r, "badRequest", 0)
       \/ ~failed /\ up = None /\ Place(r, a, ctx[r].up, owner, depth)
       \/ /\ ~failed /\ up # None
          /\ ctx' = [ctx EXCEPT ![r].owner = owner]
          /\ walk' = [walk EXCEPT ![r] = [cur |-> up, seen |-> seen, depth |-> depth]]
          /\ UNCHANGED <<pc, snap, units>>
    BY DEF Walk
<1>11. up = IF i \in Live THEN rows[i].up ELSE None
    BY <1>1
<1> HIDE DEF owner, up
<1>12. CASE failed /\ Decide(r, "badRequest", 0)
    <2>1. ~Rooted(Up(a))
        <3>1. CASE i \notin Live
            BY <1>6, <3>1 DEF Rooted
        <3>2. CASE i \in Live /\ up \in seen
            <4>1. ~Ends(Up(a))
                BY <1>1, <1>2, <1>4, <1>5, <1>11, <3>2, PathCycles
            <4> QED
                BY <4>1 DEF Rooted
        <3>3. CASE depth > Safety
            <4>1. /\ depth <= Cardinality(Above(Up(a))) /\ Cardinality(Above(Up(a))) \in Nat
                BY <1>1, <1>5, <1>6, PathSize
            <4> QED
                BY <1>2, <3>3, <4>1, SafetyAssumption DEF Rooted
        <3> QED
            BY <1>1, <1>12, <3>1, <3>2, <3>3 DEF Stops
    <2>2. Due(a) = "badRequest"
        BY <1>4, <2>1, DueRefused DEF Placed, Userless
    <2>3. pc'[r] = "badRequest"
        BY <1>1, <1>12 DEF Decide, GuardTypes
    <2> QED
        BY <2>2, <2>3, VerdictTold DEF Verdict
<1>13. CASE ~failed /\ up = None /\ Place(r, a, ctx[r].up, owner, depth)
    <2>1. i \in Live /\ rows[i].up = None /\ depth <= Safety
        BY <1>1, <1>2, <1>11, <1>13, SafetyAssumption DEF Stops
    <2>2. Above(Up(a)) = seen /\ Ends(Up(a))
        BY <1>1, <1>2, <1>4, <1>5, <2>1, PathEnds
    <2>3. seen \subseteq Live
        BY <1>4, <2>1 DEF Path
    <2>4. Rooted(Up(a)) /\ Level(Up(a)) = depth + 1
        BY <1>4, <1>6, <2>1, <2>2, <2>3 DEF Rooted, Level
    <2>5. Placed(a, Up(a), Sent(a))
        BY <1>4, <2>4 DEF Placed
    <2>6. Scoped => Scope(a) = owner
        <3>1. CASE Sent(a) = None /\ Scoped
            <4>1. Carries(Up(a), Above(Up(a)), owner)
                BY <1>9, <2>1, <2>2, <3>1
            <4>2. Nearest(Up(a)) = owner
                BY <1>1, <1>5, <2>2, <2>3, <4>1, CarriesNearest
            <4> QED
                BY <1>4, <3>1, <4>2 DEF Scope
        <3>2. CASE Sent(a) # None
            BY <1>9, <2>1, <3>2 DEF Scope
        <3> QED
            BY <3>1, <3>2
    <2>7. InContext(a, [up |-> ctx[r].up, owner |-> owner])
        BY <1>4, <2>6 DEF InContext
    <2>8. ctx[r].up \in Id \cup {None}
        BY <1>2 DEF Context
    <2> QED
        BY <1>1, <1>2, <1>3, <1>4, <1>8, <1>13, <2>4, <2>5, <2>7, <2>8, PlaceIsDue
<1>14. CASE /\ ~failed /\ up # None
            /\ ctx' = [ctx EXCEPT ![r].owner = owner]
            /\ walk' = [walk EXCEPT ![r] = [cur |-> up, seen |-> seen, depth |-> depth]]
            /\ UNCHANGED <<pc, snap, units>>
    <2>1. i \in Live /\ rows[i].up = up
        BY <1>1, <1>11, <1>14
    <2>2. Path(Up(a), seen, up)
        BY <1>1, <1>2, <1>4, <1>5, <1>14, <2>1, PathGoes
    <2>3. ctx'[r].up = Up(a) /\ ctx'[r].owner = owner
        BY <1>1, <1>4, <1>14 DEF GuardTypes, Context
    <2>4. walk'[r].cur = up /\ walk'[r].seen = seen /\ pc'[r] = "walk" /\ units'[r] = 0
        BY <1>1, <1>3, <1>14 DEF GuardTypes
    <2>5. IF Scoped /\ Sent(a) = None THEN Carries(Up(a), walk'[r].seen, ctx'[r].owner)
          ELSE ctx'[r].owner = Sent(a)
        <3> HIDE DEF seen, a
        <3> QED
            BY <1>9, <2>1, <2>3, <2>4
    <2>6. OnTheWay(a, ctx'[r], walk'[r])
        <3> HIDE DEF seen, a
        <3> QED
            BY <1>4, <2>2, <2>3, <2>4, <2>5 DEF OnTheWay
    <2> QED
        BY <2>4, <2>6 DEF Told, StageIs, Verdict
<1> QED
    BY <1>10, <1>12, <1>13, <1>14

\* At its end the list has been counted, and one that has no end is refused.
LEMMA LinkIsDue ==
    ASSUME IInv, NEW r \in Request,
           StageIs(pc[r], ask[r], ctx[r], walk[r], snap[r], units[r]), Link(r)
    PROVE  Told(r, ask[r])
<1> DEFINE a == ask[r]
           i == walk[r].cur
           next == IF i \in Live THEN rows[i].up ELSE None
           seen == walk[r].seen \cup {i}
           depth == walk[r].depth + 1
           failed == next # None /\ Stops(seen, depth + 1, next, Safety)
           counted == IF i \in Live THEN units[r] + 1 ELSE units[r]
           total == IF a.includeRoot THEN counted ELSE counted - 1
<1>1. TypeOK /\ GuardTypes /\ pc[r] = "link"
    BY Types DEF Link, IInv
<1>2. /\ i \in Id /\ depth \in Nat
      /\ walk[r].seen \in SUBSET Id /\ walk[r].depth = Cardinality(walk[r].seen)
      /\ i \notin walk[r].seen /\ units[r] \in Nat
    BY <1>1 DEF IInv, StageOK, WalkOK, GuardTypes, WalkType
<1>3. ToLink(a, walk[r], snap[r], units[r])
    BY <1>1 DEF StageIs
<1>4. /\ Limited(a) /\ Measured(a, snap[r]) /\ snap[r] \in Snapshot /\ Limits(a)
      /\ Action(a) = "dynamic" /\ a.how = "linked" /\ a.id \in Id
      /\ Path(a.id, walk[r].seen, i) /\ depth <= Safety /\ units[r] = Cardinality(walk[r].seen)
    BY <1>3 DEF ToLink, ToMeasure, Limited
<1>5. Cardinality(seen) = depth /\ seen \subseteq Above(a.id) /\ seen \in SUBSET Id
    BY <1>2, <1>4, IdSets, FS_AddElement DEF Path
<1>6. a.id # None
    BY <1>4, NoneAssumption
<1>7. \/ next = None /\ Consume(r, snap[r], NormalizeUnits(total))
      \/ failed /\ Decide(r, "badRequest", 0)
      \/ /\ next # None /\ ~failed
         /\ walk' = [walk EXCEPT ![r] = [cur |-> next, seen |-> seen, depth |-> depth]]
         /\ units' = [units EXCEPT ![r] = counted]
         /\ UNCHANGED pc
    BY DEF Link
<1>8. UNCHANGED <<ctx, snap>>
    BY DEF Link
<1>9. CASE next = None /\ Consume(r, snap[r], NormalizeUnits(total))
    <2>1. Above(a.id) = seen /\ Ends(a.id)
        BY <1>1, <1>2, <1>4, <1>9, PathEnds
    <2>2. ~BadList(a)
        BY <1>2, <1>4, <1>5, <2>1, SafetyAssumption DEF BadList
    <2>3. Cardinality(Above(a.id) \cap Live) = counted
        <3>1. CASE i \in Live
            <4>1. Above(a.id) \cap Live = seen
                BY <1>4, <2>1, <3>1 DEF Path
            <4>2. counted = depth
                BY <1>2, <1>4, <3>1
            <4> HIDE DEF seen, counted, depth
            <4> QED
                BY <1>5, <4>1, <4>2
        <3>2. CASE i \notin Live
            <4>1. Above(a.id) \cap Live = walk[r].seen
                BY <1>4, <2>1, <3>2 DEF Path
            <4> QED
                BY <1>4, <3>2, <4>1
        <3> QED
            BY <3>1, <3>2
    <2>4. total = Cardinality(Above(a.id) \cap Live) - (IF a.includeRoot THEN 0 ELSE 1)
        <3>1. counted \in Nat
            BY <1>2
        <3>2. a.includeRoot \in BOOLEAN
            BY <1>4 DEF Limits, AskType
        <3> HIDE DEF counted
        <3> QED
            BY <2>3, <3>1, <3>2
    <2>5. Wanted(a) = NormalizeUnits(total)
        BY <1>4, <1>6, <2>4 DEF Wanted
    <2>6. Consume(r, snap[r], Wanted(a))
        <3> HIDE DEF total
        <3> QED
            BY <1>9, <2>5
    <2> QED
        BY <1>1, <1>4, <2>2, <2>6, ConsumeIsDue
<1>10. CASE failed /\ Decide(r, "badRequest", 0)
    <2>1. i \in Live /\ rows[i].up = next /\ next # None
        BY <1>10
    <2>2. CASE next \in seen
        <3>1. ~Ends(a.id)
            BY <1>1, <1>2, <1>4, <2>1, <2>2, PathCycles
        <3>2. BadList(a)
            BY <1>4, <1>6, <3>1 DEF BadList
        <3> QED
            BY <1>1, <1>4, <1>10, <3>2, DueRefused, LimitedHasUser, VerdictTold
               DEF Decide, GuardTypes, Verdict
    <2>3. CASE next \notin seen
        <3>1. depth + 1 > Safety
            BY <1>10, <2>3 DEF Stops
        <3>2. next \in Id
            BY <1>1, <2>1, RowType
        <3>3. Path(a.id, seen, next)
            BY <1>1, <1>2, <1>4, <2>1, PathGoes
        <3>4. Cardinality(seen \cup {next}) = depth + 1
            BY <1>5, <2>3, IdSets, FS_AddElement
        <3>5. seen \cup {next} \subseteq Above(a.id)
            BY <3>3 DEF Path
        <3>6. /\ depth + 1 <= Cardinality(Above(a.id))
              /\ Cardinality(Above(a.id)) \in Nat
            BY <1>1, <1>4, <3>4, <3>5, PathSize
        <3>7. BadList(a)
            BY <1>2, <1>4, <1>6, <3>1, <3>6, SafetyAssumption DEF BadList
        <3> QED
            BY <1>1, <1>4, <1>10, <3>7, DueRefused, LimitedHasUser, VerdictTold
               DEF Decide, GuardTypes, Verdict
    <2> QED
        BY <2>2, <2>3
<1>11. CASE /\ next # None /\ ~failed
            /\ walk' = [walk EXCEPT ![r] = [cur |-> next, seen |-> seen, depth |-> depth]]
            /\ units' = [units EXCEPT ![r] = counted]
            /\ UNCHANGED pc
    <2>1. i \in Live /\ rows[i].up = next /\ counted = depth
        BY <1>2, <1>4, <1>11
    <2>2. depth + 1 <= Safety
        BY <1>2, <1>11, SafetyAssumption DEF Stops
    <2>3. Path(a.id, seen, next)
        BY <1>1, <1>2, <1>4, <1>11, <2>1, PathGoes
    <2>4. /\ walk'[r].cur = next /\ walk'[r].seen = seen /\ walk'[r].depth = depth
          /\ units'[r] = depth /\ pc'[r] = "link" /\ snap'[r] = snap[r]
        BY <1>1, <1>8, <1>11, <2>1 DEF GuardTypes
    <2>5. ToMeasure(a, snap'[r], "linked")
        BY <1>3, <1>8 DEF ToLink
    <2>6. ToLink(a, walk'[r], snap'[r], units'[r])
        <3> HIDE DEF seen, depth, next
        <3> QED
            BY <1>5, <2>2, <2>3, <2>4, <2>5 DEF ToLink
    <2> QED
        BY <2>4, <2>6 DEF Told, StageIs, Verdict
<1> HIDE DEF next, seen, depth, failed, total, counted
<1> QED
    BY <1>7, <1>9, <1>10, <1>11

\* The children that are counted are those of the table.
LEMMA ChildrenIsDue ==
    ASSUME IInv, NEW r \in Request,
           StageIs(pc[r], ask[r], ctx[r], walk[r], snap[r], units[r]), Children(r)
    PROVE  Told(r, ask[r])
<1>1. GuardTypes /\ pc[r] = "children"
    BY Types DEF Children
<1>2. ToMeasure(ask[r], snap[r], "children")
    BY <1>1 DEF StageIs
<1>3. ask[r].id # None
    BY <1>2, NoneAssumption DEF ToMeasure
<1>4. Consume(r, snap[r], Wanted(ask[r]))
    BY <1>2, <1>3 DEF Children, Wanted, ToMeasure
<1>5. ~BadList(ask[r])
    BY <1>2 DEF ToMeasure, BadList
<1> QED
    BY <1>1, <1>2, <1>4, <1>5, ConsumeIsDue DEF ToMeasure

-----------------------------------------------------------------------------
(* The second invariant.                                                   *)

\* No request has arrived in the beginning.
LEMMA InitRInv == Init => RInv
BY DEF Init, RInv, StageIs, Querying, Verdict

\* A request that another step leaves alone, and the table too, knows what it knew.
LEMMA StageKept ==
    ASSUME NEW q, UNCHANGED <<rows, config>>,
           StageIs(pc[q], ask[q], ctx[q], walk[q], snap[q], units[q]),
           /\ pc'[q] = pc[q] /\ ask'[q] = ask[q] /\ ctx'[q] = ctx[q] /\ walk'[q] = walk[q]
           /\ snap'[q] = snap[q] /\ units'[q] = units[q]
    PROVE  StageIs(pc[q], ask[q], ctx[q], walk[q], snap[q], units[q])'
<1>1. \A p, a, c, w, s, u : StageIs(p, a, c, w, s, u)' <=> StageIs(p, a, c, w, s, u)
    BY TableStays
<1> QED
    BY <1>1

\* What a step tells its request holds in the next state.
LEMMA ToldKeeps ==
    ASSUME NEW r, UNCHANGED <<rows, config>>, NEW a, ask'[r] = a, Told(r, a)
    PROVE  StageIs(pc[r], ask[r], ctx[r], walk[r], snap[r], units[r])'
<1>1. \A p, b, c, w, s, u : StageIs(p, b, c, w, s, u)' <=> StageIs(p, b, c, w, s, u)
    BY TableStays
<1> QED
    BY <1>1 DEF Told

\* A step that tells its request what is due keeps the second invariant.
LEMMA RequestRight ==
    ASSUME IInv, RInv, Observe, NEW r \in Request, Only(r), pc'[r] = "idle" => units'[r] = 0,
           NEW a, pc'[r] # "idle" => ask'[r] = a,
           ~stale[r] /\ UNCHANGED rows => Told(r, a) \/ pc'[r] = "idle"
    PROVE  RInv'
<1> SUFFICES ASSUME NEW q \in Request
             PROVE  /\ pc'[q] = "idle" => units'[q] = 0 /\ ~stale'[q]
                    /\ ~stale'[q] => StageIs(pc[q], ask[q], ctx[q], walk[q], snap[q], units[q])'
    BY DEF RInv
<1>1. /\ stale'[q] = (pc'[q] # "idle" /\ (stale[q] \/ rows' # rows))
      /\ config' = config
    BY DEF Observe
<1>2. pc'[q] = "idle" => units'[q] = 0
    BY DEF RInv, Only
<1>3. CASE pc'[q] = "idle"
    BY <1>1, <1>2, <1>3 DEF StageIs, Verdict
<1>4. CASE pc'[q] # "idle" /\ ~stale'[q]
    <2>1. ~stale[q] /\ UNCHANGED <<rows, config>>
        BY <1>1, <1>4
    <2>2. CASE q = r
        BY <1>4, <2>1, <2>2, ToldKeeps
    <2>3. CASE q # r
        <3>1. StageIs(pc[q], ask[q], ctx[q], walk[q], snap[q], units[q])
            BY <2>1 DEF RInv
        <3>2. /\ pc'[q] = pc[q] /\ ask'[q] = ask[q] /\ ctx'[q] = ctx[q] /\ walk'[q] = walk[q]
              /\ snap'[q] = snap[q] /\ units'[q] = units[q]
            BY <2>3 DEF Only
        <3> QED
            BY <1>4, <2>1, <3>1, <3>2, StageKept
    <2> QED
        BY <2>2, <2>3
<1> QED
    BY <1>3, <1>4

\* A write changes no guard, and what changed is no longer known.
LEMMA WriteRight ==
    ASSUME IInv, RInv, UNCHANGED guard, Observe
    PROVE  RInv'
<1> SUFFICES ASSUME NEW q \in Request
             PROVE  /\ pc'[q] = "idle" => units'[q] = 0 /\ ~stale'[q]
                    /\ ~stale'[q] => StageIs(pc[q], ask[q], ctx[q], walk[q], snap[q], units[q])'
    BY DEF RInv
<1>1. /\ stale'[q] = (pc'[q] # "idle" /\ (stale[q] \/ rows' # rows))
      /\ config' = config /\ UNCHANGED <<pc, ask, ctx, walk, snap, units>>
    BY DEF Observe, guard
<1>2. CASE pc'[q] = "idle"
    BY <1>1, <1>2 DEF RInv, StageIs, Verdict
<1>3. CASE pc'[q] # "idle" /\ ~stale'[q]
    <2>1. StageIs(pc[q], ask[q], ctx[q], walk[q], snap[q], units[q])
        BY <1>1, <1>3 DEF RInv
    <2> QED
        BY <1>1, <1>3, <2>1, StageKept
<1> QED
    BY <1>2, <1>3

\* A request under way stays under way until it is answered.
LEMMA ResolveBusy ==
    ASSUME GuardTypes, NEW r \in Request, NEW a, NEW up, NEW owner, NEW d,
           Resolve(r, a, up, owner) \/ Place(r, a, up, owner, d)
    PROVE  pc'[r] # "idle"
<1>1. ASSUME NEW v, v # "idle", NEW u, Decide(r, v, u) PROVE pc'[r] # "idle"
    BY <1>1 DEF Decide, GuardTypes
<1>2. ASSUME NEW s, NEW u, Consume(r, s, u) PROVE pc'[r] # "idle"
    BY <1>1, <1>2 DEF Consume
<1>3. ASSUME NEW v, v # "idle", pc' = [pc EXCEPT ![r] = v] PROVE pc'[r] # "idle"
    BY <1>3 DEF GuardTypes
<1>4. ASSUME NEW s, Judge(r, a, s) PROVE pc'[r] # "idle"
    BY <1>1, <1>2, <1>3, <1>4 DEF Judge
<1>5. ASSUME NEW e, Place(r, a, up, owner, e) PROVE pc'[r] # "idle"
    BY <1>1, <1>3, <1>4, <1>5 DEF Place
<1> QED
    BY <1>1, <1>3, <1>5 DEF Resolve

\* Every step keeps the second invariant.
LEMMA NextKeepsRInv == IInv /\ RInv /\ [Next]_vars => RInv'
<1> SUFFICES ASSUME IInv, RInv, [Next]_vars PROVE RInv'
    OBVIOUS
<1>1. ASSUME NEW r \in Request, Leave(r), Observe PROVE RInv'
    <2>1. pc'[r] = "idle" /\ units'[r] = 0 /\ Only(r)
        BY <1>1, Types, LeaveKeeps DEF Leave, GuardTypes, Keeps
    <2> QED
        BY <1>1, <2>1, RequestRight
<1>2. ASSUME NEW r \in Request, pc[r] # "idle", pc'[r] # "idle", Keeps(r), Observe,
             UNCHANGED <<rows, ask>>,
             StageIs(pc[r], ask[r], ctx[r], walk[r], snap[r], units[r]) => Told(r, ask[r])
      PROVE  RInv'
    <2>1. Only(r) /\ ask'[r] = ask[r] /\ (~stale[r] => Told(r, ask[r]))
        BY <1>2 DEF Keeps, RInv
    <2> QED
        BY <1>2, <2>1, RequestRight
<1>3. ASSUME NEW r \in Request, NEW a \in Ask[r], Arrive(r, a), Observe PROVE RInv'
    <2>1. Only(r) /\ ask'[r] = a /\ pc'[r] # "idle"
        <3>1. GuardTypes /\ Only(r) /\ ask'[r] = a
            BY <1>3, Types, ArriveKeeps DEF Keeps, Arrive, IInv, TypeOK
        <3> QED
            BY <1>3, <3>1, ResolveBusy DEF Arrive, GuardTypes
    <2>2. Told(r, a)
        BY <1>3, ArriveIsDue DEF Arrive, RInv
    <2> QED
        BY <1>3, <2>1, <2>2, RequestRight
<1>4. ASSUME NEW r \in Request, Step(r), Observe PROVE RInv'
    <2>1. GuardTypes
        BY Types
    <2>2. ASSUME NEW v, v # "idle", NEW u, Decide(r, v, u) PROVE pc'[r] # "idle"
        BY <2>1, <2>2 DEF Decide, GuardTypes
    <2>3. ASSUME NEW s, NEW u, Consume(r, s, u) PROVE pc'[r] # "idle"
        BY <2>2, <2>3 DEF Consume
    <2>4. CASE Hydrate(r)
        <3>1. pc[r] # "idle" /\ pc'[r] # "idle" /\ UNCHANGED <<rows, ask>>
            BY <2>1, <2>4, ResolveBusy DEF Hydrate
        <3> QED
            BY <1>2, <1>4, <2>4, <3>1, HydrateKeeps, HydrateIsDue
    <2>5. CASE Walk(r)
        <3>1. pc[r] # "idle" /\ pc'[r] # "idle" /\ UNCHANGED <<rows, ask>>
            BY <2>1, <2>2, <2>5, ResolveBusy DEF Walk
        <3> QED
            BY <1>2, <1>4, <2>5, <3>1, WalkKeeps, WalkIsDue
    <2>6. CASE Count(r)
        <3>1. pc[r] # "idle" /\ pc'[r] # "idle" /\ UNCHANGED <<rows, ask>>
            BY <2>1, <2>2, <2>3, <2>6 DEF Count, Judge, GuardTypes
        <3> QED
            BY <1>2, <1>4, <2>6, <3>1, CountKeeps, CountIsDue
    <2>7. CASE Link(r)
        <3>1. pc[r] # "idle" /\ pc'[r] # "idle" /\ UNCHANGED <<rows, ask>>
            BY <2>1, <2>2, <2>3, <2>7 DEF Link
        <3> QED
            BY <1>2, <1>4, <2>7, <3>1, LinkKeeps, LinkIsDue
    <2>8. CASE Children(r)
        <3>1. pc[r] # "idle" /\ pc'[r] # "idle" /\ UNCHANGED <<rows, ask>>
            BY <2>1, <2>3, <2>8 DEF Children
        <3> QED
            BY <1>2, <1>4, <2>8, <3>1, ChildrenKeeps, ChildrenIsDue
    <2>9. CASE Fail(r)
        <3>1. pc[r] # "idle" /\ pc'[r] = "error" /\ UNCHANGED <<rows, ask>>
            BY <2>1, <2>9 DEF Fail, Decide, GuardTypes, Querying
        <3>2. Told(r, ask[r])
            BY <3>1, VerdictTold DEF Verdict
        <3> QED
            BY <1>2, <1>4, <2>9, <3>1, <3>2, FailKeeps
    <2>10. CASE Respond(r)
        BY <1>1, <1>4, <2>10 DEF Respond
    <2> QED
        BY <1>4, <2>4, <2>5, <2>6, <2>7, <2>8, <2>9, <2>10 DEF Step
<1>5. ASSUME NEW r \in Request, Perform(r), Observe PROVE RInv'
    BY <1>1, <1>5 DEF Perform
<1>6. ASSUME NEW i \in Id, Delete(i), Observe PROVE RInv'
    BY <1>6, WriteRight DEF Delete, Write
<1>7. ASSUME NEW i \in Id, NEW up \in Id \cup {None}, MoveRow(i, up), Observe PROVE RInv'
    BY <1>7, WriteRight DEF MoveRow, Write
<1>8. CASE UNCHANGED vars
    <2>1. UNCHANGED <<rows, config>> /\ UNCHANGED <<pc, ask, ctx, walk, snap, units, stale>>
        BY <1>8 DEF vars, guard
    <2>2. ASSUME NEW q \in Request, ~stale[q]
          PROVE  StageIs(pc[q], ask[q], ctx[q], walk[q], snap[q], units[q])'
        BY <2>1, <2>2, StageKept DEF RInv
    <2> QED
        BY <2>1, <2>2 DEF RInv
<1> QED
    BY <1>3, <1>4, <1>5, <1>6, <1>7, <1>8 DEF Next

\* The second invariant holds in every reachable state.
THEOREM GuardsKnow == Spec => []RInv
<1>1. Init => IInv /\ RInv
    BY InitIInv, InitRInv
<1>2. (IInv /\ RInv) /\ [Next]_vars => (IInv /\ RInv)'
    BY NextKeepsIInv, NextKeepsRInv
<1> QED
    BY <1>1, <1>2, PTL DEF Spec

\* However large the table, whatever its trees, cycles and broken chains, a request that
\* met no change of the table gets the answer that is due to it.
THEOREM VerdictsAlwaysRight == Spec => []VerdictIsRight
<1>1. RInv => VerdictIsRight
    BY DEF RInv, StageIs, VerdictIsRight
<1> QED
    BY <1>1, GuardsKnow, PTL
=============================================================================
