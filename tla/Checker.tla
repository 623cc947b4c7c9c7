------------------------------- MODULE Checker -------------------------------
(***************************************************************************)
(* The walk over a body (check_statement, check_expr and check_function in *)
(* src/check/mod.rs): the kids of a node are checked in order, each in the *)
(* state the ones before it left, and the rule of the node concludes.      *)
(*                                                                         *)
(* While the kids of a node are checked the walk has [rs, S, callee]: the  *)
(* results so far, the state, and the callee of a call or what the pattern *)
(* of an arm covers.  Where the code gives up on a node early the model    *)
(* goes on, so it may report more of a body that is rejected anyway.       *)
(*                                                                         *)
(* Match statements and their patterns (src/check/patterns.rs and          *)
(* src/check/coverage.rs) come first.  A pattern is a node: "Bind" (the    *)
(* name "_" binds nothing), "Literal", "Tuple", "Dereference",             *)
(* "Alternatives", "Unit" (a variant without fields: info [enum]),         *)
(* "Fields" (info [declaration, variant, record, labels, rest]: a struct   *)
(* when the variant is "", by position unless record, a field by its name  *)
(* alone binds it).  What a pattern covers is [kind, values, layers]:      *)
(* layers dereferences of nothing, everything, a set of variants or of     *)
(* booleans, or something that is not followed.                            *)
(***************************************************************************)
EXTENDS CallRules

-----------------------------------------------------------------------------
(* What patterns cover *)

Covers(kind, values) == [kind |-> kind, values |-> values, layers |-> 0]
CoversNothing == Covers("None", {})
Catchall == Covers("Catchall", {})
CoversOther == Covers("Other", {})
IsCatchall(c) == c.kind = "Catchall"

\* Coverage::union, below the dereferences that both have.
Union(left, right) ==
    LET shared == IF left.layers < right.layers THEN left.layers ELSE right.layers
        l == [left EXCEPT !.layers = @ - shared]
        r == [right EXCEPT !.layers = @ - shared]
        top == CASE l = CoversNothing -> r
                 [] r = CoversNothing -> l
                 [] Catchall \in {l, r} -> Catchall
                 [] l # CoversNothing /\ r # CoversNothing /\ l.kind = r.kind /\ l.layers = r.layers ->
                        [l EXCEPT !.values = @ \cup r.values]
                 [] OTHER -> CoversOther
    IN  [top EXCEPT !.layers = @ + shared]

\* is_covered_by, with covers_variants and covers_bools, which look through the
\* dereferences of what came before.
IsCoveredBy(c, previous) ==
    CASE c.kind \in {"Variants", "Bools"} ->
            /\ previous.kind = c.kind /\ c.layers <= previous.layers
            /\ c.values # {} /\ c.values \subseteq previous.values
      [] c.kind = "Catchall" -> IsCatchall(previous) /\ c.layers <= previous.layers
      [] OTHER -> FALSE

VariantsOf(enum) == {Declaration(enum).variants[i] : i \in DOMAIN Declaration(enum).variants}

\* coverage_is_exhaustive: aliases are followed to a reference only.
RECURSIVE Exhaustive(_, _, _)
Exhaustive(S, type, c) ==
    CASE c.kind = "Catchall" /\ c.layers = 0 -> TRUE
      [] c.layers > 0 -> /\ Kind(Plain(S, type)) = "Reference"
                         /\ Exhaustive(S, TargetOf(Plain(S, type)), [c EXCEPT !.layers = @ - 1])
      [] c.layers = 0 /\ c.kind = "Bools" -> Cardinality(c.values) >= 2
      [] c.layers = 0 /\ c.kind = "Variants" ->
            KindOf(S, type) = "Nominal" /\ VariantsOf(Name(At(S, type))) \subseteq c.values
      [] OTHER -> FALSE

\* describe_missing_coverage: whether a match that is not exhaustive is reported.
RECURSIVE MissingReported(_, _, _)
MissingReported(S, type, c) ==
    LET t == At(S, type) IN
    IF c.layers > 0
    THEN Kind(t) = "Reference" /\ MissingReported(S, TargetOf(t), [c EXCEPT !.layers = @ - 1])
    ELSE IF Kind(t) = "Nominal" /\ Declaration(Name(t)).kind = "Enum"
    THEN ~(VariantsOf(Name(t)) \subseteq (IF c.kind = "Variants" THEN c.values ELSE {}))
    ELSE Kind(t) # "Error"

-----------------------------------------------------------------------------
(* Patterns *)

\* collect_pattern_binding_names
RECURSIVE BoundNames(_)
BoundNames(p) ==
    (IF p.kind = "Bind" /\ p.name # "_" THEN {p.name} ELSE {})
        \cup UNION {BoundNames(p.kids[i]) : i \in DOMAIN p.kids}

\* nominal_arguments_for_type: <<>> when the type is of another declaration.
OwnerArguments(S, type, declaration) ==
    LET t == Plain(S, type) IN
    CASE Kind(t) = "Nominal" /\ Name(t) = declaration -> <<Children(t)>>
      [] Kind(t) = "Error" -> <<<<>>>>
      [] OTHER -> <<>>

\* The field a sub-pattern is for, and its type in the type matched.
PatternField(p, i) ==
    LET fields == FieldsOf(p.info.declaration, p.info.variant) IN
    IF p.info.record THEN SelectSeq(fields, LAMBDA f : f.name = p.info.labels[i])
    ELSE IF i <= Len(fields) THEN <<fields[i]>> ELSE <<>>
FieldPatternType(S, p, i, type) ==
    LET arguments == OwnerArguments(S, type, p.info.declaration)
        map == Assigned(Declaration(p.info.declaration).parameters, IF arguments = <<>> THEN <<>> ELSE arguments[1])
    IN  IF PatternField(p, i) = <<>> THEN ErrorType ELSE Substitute(S.bindings, PatternField(p, i)[1].type, map)

\* check_pattern: the type each sub-pattern is checked against.
FitsTuple(S, p, type) == KindOf(S, type) = "Tuple" /\ Len(Children(At(S, type))) = Len(p.kids)
SubPatternType(S, p, i, type) ==
    CASE p.kind = "Alternatives" -> type
      [] p.kind = "Tuple" -> IF FitsTuple(S, p, type) THEN Children(At(S, type))[i] ELSE ErrorType
      [] p.kind = "Dereference" ->
            IF Kind(Plain(S, type)) = "Reference" THEN TargetOf(Plain(S, type)) ELSE ErrorType
      [] p.kind = "Fields" -> FieldPatternType(S, p, i, type)

\* check_variant_positional_pattern, check_record_pattern_fields: all_irrefutable
\* or, in a record, a rest.
AllFieldsMatched(p, covered) ==
    LET fields == FieldsOf(p.info.declaration, p.info.variant)
        each == \A i \in DOMAIN covered : PatternField(p, i) # <<>> /\ IsCatchall(covered[i])
        every == \A f \in DOMAIN fields : \E i \in DOMAIN covered : PatternField(p, i) = <<fields[f]>>
    IN  IF p.info.record THEN p.info.rest \/ (each /\ every)
        ELSE Len(covered) = Len(fields) /\ \A i \in DOMAIN covered : IsCatchall(covered[i])
FieldErrors(S, p, covered) ==
    LET fields == FieldsOf(p.info.declaration, p.info.variant)
        Named(i) == PatternField(p, i)
        unknown == \E i \in DOMAIN covered : Named(i) = <<>>
        twice == \E i \in DOMAIN covered : \E j \in 1..(i - 1) : Named(i) # <<>> /\ Named(i) = Named(j)
        missing == {f \in DOMAIN fields : \A i \in DOMAIN covered : Named(i) # <<fields[f]>>}
        hidden == \/ \E i \in DOMAIN covered : Named(i) # <<>> /\ ~Accessible(S, p.info.declaration, Named(i)[1].public)
                  \/ ~p.info.rest /\ \E f \in missing : ~Accessible(S, p.info.declaration, fields[f].public)
    IN  IF ~p.info.record THEN IF Len(covered) = Len(fields) THEN {} ELSE {"pattern arity"}
        ELSE (IF unknown THEN {"pattern field"} ELSE {}) \cup (IF twice THEN {"field matched twice"} ELSE {})
             \cup (IF ~p.info.rest /\ missing # {} THEN {"field not matched"} ELSE {})
             \cup (IF hidden THEN {"field access"} ELSE {})

\* check_pattern, check_pattern_leaf, check_aggregate_pattern: what the pattern
\* covers, from what its sub-patterns cover.
\* Faulty variant: a variant is covered whatever its fields are matched with.
PatternCoverage_AnyFields(p, covered) ==
    CASE p.kind = "Alternatives" -> FoldLeft(Union, CoversNothing, covered)
      [] p.kind = "Tuple" -> IF \A i \in DOMAIN covered : IsCatchall(covered[i]) THEN Catchall ELSE CoversOther
      [] p.kind = "Dereference" -> [covered[1] EXCEPT !.layers = @ + 1]
      [] p.kind = "Literal" -> IF p.name = "bool" THEN Covers("Bools", {p.info.value}) ELSE CoversOther
      [] p.kind = "Unit" -> Covers("Variants", {p.name})
      [] p.kind = "Fields" -> IF p.info.variant = "" THEN Catchall ELSE Covers("Variants", {p.info.variant})
      [] p.kind = "Bind" -> Catchall
PatternCoverage(p, covered) ==
    CASE p.kind = "Alternatives" -> FoldLeft(Union, CoversNothing, covered)
      [] p.kind = "Tuple" -> IF \A i \in DOMAIN covered : IsCatchall(covered[i]) THEN Catchall ELSE CoversOther
      [] p.kind = "Dereference" -> [covered[1] EXCEPT !.layers = @ + 1]
      [] p.kind = "Literal" -> IF p.name = "bool" THEN Covers("Bools", {p.info.value}) ELSE CoversOther
      [] p.kind = "Unit" -> Covers("Variants", {p.name})
      [] p.kind = "Fields" ->
            IF AllFieldsMatched(p, covered)
            THEN IF p.info.variant = "" THEN Catchall ELSE Covers("Variants", {p.info.variant})
            ELSE IF p.info.variant = "" THEN CoversOther ELSE CoversNothing
      [] p.kind = "Bind" -> Catchall

\* The rules a pattern breaks itself, given what its sub-patterns cover.
PatternErrors(S, p, type, covered) ==
    CASE p.kind = "Alternatives" ->
            IF \A i \in DOMAIN p.kids : BoundNames(p.kids[i]) = BoundNames(p.kids[1]) THEN {} ELSE {"alternatives"}
      [] p.kind = "Tuple" -> IF FitsTuple(S, p, type) \/ type = ErrorType THEN {} ELSE {"tuple pattern"}
      [] p.kind = "Dereference" ->
            IF Kind(Plain(S, type)) \in {"Reference", "Error"} THEN {} ELSE {"dereference pattern"}
      [] p.kind = "Literal" ->
            LET literal == LiteralConclude(p, <<type>>, S) IN
            literal.S.errors \cup (IF Compatible(literal.S, literal.type, type) THEN {} ELSE {"pattern type"})
      [] p.kind = "Unit" ->
            (IF OwnerArguments(S, type, p.info.enum) = <<>> THEN {"pattern type"} ELSE {})
                \cup (IF FieldsOf(p.info.enum, p.name) # <<>> THEN {"variant with fields"} ELSE {})
      [] p.kind = "Fields" ->
            (IF OwnerArguments(S, type, p.info.declaration) = <<>> THEN {"pattern type"} ELSE {})
                \cup FieldErrors(S, p, covered)
      [] p.kind = "Bind" -> {}

\* check_pattern: [coverage, S].  A dereference of what is no reference covers
\* what its pattern covers.
PatternResult(p, type, below) ==
    LET covered == PatternCoverage(p, below.covered)
        bound == IF p.kind = "Bind" /\ p.name # "_" THEN Bound(below.S, p.name, type, FALSE) ELSE below.S
    IN  [coverage |-> IF p.kind = "Dereference" /\ Kind(Plain(below.S, type)) # "Reference"
                      THEN below.covered[1] ELSE covered,
         S |-> [bound EXCEPT !.errors = @ \cup PatternErrors(below.S, p, type, below.covered)]]
RECURSIVE CheckPattern(_, _, _)
CheckPattern(p, type, S) ==
    PatternResult(p, type,
        FoldLeft(LAMBDA a, i :
                   LET one == CheckPattern(p.kids[i], SubPatternType(a.S, p, i, type), a.S)
                   IN  [covered |-> Append(a.covered, one.coverage), S |-> one.S],
                 [covered |-> <<>>, S |-> S], [i \in DOMAIN p.kids |-> i]))

-----------------------------------------------------------------------------
(* Match: the kids are the value matched and the arms.  The kids of an arm  *)
(* are its guard, if it has one, and its block; its info is its pattern,    *)
(* and, once checked, [pattern, coverage].                                  *)

Guarded(arm) == Len(arm.kids) = 2
ArmOpen(e, type, S) == CheckPattern(e.info, type, S)
ArmConclude(e, coverage, rs, S) ==
    Statement([e EXCEPT !.info = [pattern |-> e.info, coverage |-> coverage]], rs, Last(rs).returns,
              Require(S, Len(rs) = 2 => ~ConditionFails(rs[1].S, rs[1]), "condition"))

\* check_match_statement: what the arms before the i-th cover.
CoveredBefore(arms, i) ==
    FoldLeft(LAMBDA c, arm : IF Guarded(arm) THEN c ELSE Union(c, arm.info.coverage),
             CoversNothing, SubSeq(arms, 1, i - 1))
MatchErrors(S, type, arms) ==
    LET n == Len(arms)
        Useless(i) == \/ IsCatchall(CoveredBefore(arms, i))
                      \/ IsCoveredBy(arms[i].info.coverage, CoveredBefore(arms, i))
        all == CoveredBefore(arms, n + 1)
    IN  (IF \E i \in 1..n : Useless(i) THEN {"unreachable arm"} ELSE {})
        \cup (IF n > 0 /\ ~Exhaustive(S, type, all) /\ MissingReported(S, type, all) THEN {"exhaustive"} ELSE {})
MatchConclude(e, rs, S) ==
    LET type == rs[1].type
        arms == [i \in 1..(Len(rs) - 1) |-> rs[i + 1].node]
    IN  IF IsNever(S, type) THEN Statement(e, rs, TRUE, S)
        ELSE Statement(e, rs, /\ arms # <<>> /\ Exhaustive(S, type, CoveredBefore(arms, Len(arms) + 1))
                              /\ \A i \in 2..Len(rs) : rs[i].returns,
                       [S EXCEPT !.errors = @ \cup MatchErrors(S, type, arms)])

-----------------------------------------------------------------------------
(* The walk *)

NoTarget == <<>>
Begin(S, callee) == [rs |-> <<>>, S |-> S, callee |-> callee]

-----------------------------------------------------------------------------
(* Before the kids *)

\* check_statement: the depths a statement adds; a while loop adds its own after
\* the condition.
OpenNamed(f, c, expected, S0) == Begin(NamedOpen(f, c, expected, S0), c)
OpenReporting(S0, c) == Begin(Reporting(S0, c), c)
OpenTypeCall(e, expected, S0, selection) ==
    IF DerivedDefault(e) THEN Begin(DefaultOpen(e, expected, S0), NoTarget)
    ELSE IF selection = <<>> THEN Begin(Fail(S0, "associated"), NoCallee(""))
    ELSE OpenNamed(selection[1].function, NamedCallee(selection[1].function, selection[1], S0), expected, S0)
Open(e, expected, S0) ==
    CASE e.kind = "Return" -> Begin(ReturnBefore(S0), NoTarget)
      [] e.kind = "Unsafe" -> Begin(UnsafeBefore(S0), NoTarget)
      [] e.kind = "Defer" -> Begin(DeferBefore(S0), NoTarget)
      [] e.kind = "Try" -> Begin(TryBefore(S0), NoTarget)
      [] e.kind = "Closure" -> Begin(ClosureOpen(e, S0), NoTarget)
      [] e.kind = "Arm" -> LET p == ArmOpen(e, expected[1], S0) IN Begin(p.S, p.coverage)
      [] e.kind \in {"Record", "Positional"} -> Begin(ConstructOpen(e, expected, S0), NoTarget)
      [] e.kind = "Call" -> OpenNamed(e.name, NamedCallee(e.name, e.info, S0), expected, S0)
      [] e.kind = "TypeCall" -> OpenTypeCall(e, expected, S0, TypeSelection(e, S0))
      [] e.kind = "NewCall" -> OpenReporting(S0, NewCallee(e, expected, S0))
      [] e.kind = "Channel" -> OpenReporting(S0, ChannelCallee(e, S0))
      [] OTHER -> Begin(S0, NoTarget)

-----------------------------------------------------------------------------
(* Each kid: the state it is checked in and the type expected of it *)

Before(e, i, at) ==
    CASE e.kind = "Assignment" -> AssignmentBefore(e, i, at.rs, at.S)
      [] e.kind = "While" -> IF i = 2 THEN Deeper(at.S, "loop") ELSE at.S
      [] e.kind = "For" -> ForBefore(e, i, at.rs, at.S)
      [] e.kind = "Expect" -> ExpectBefore(e, i, at.rs, at.S)
      [] e.kind = "Binary" -> BinaryBefore(e, i, at.rs, at.S)
      [] e.kind = "Index" -> IndexBefore(i, at.rs, at.S)
      [] OTHER -> at.S

\* An arm is given the type matched as what is expected of it.
Expectation(e, i, at, expected, S0) ==
    CASE e.kind = "Let" -> LetExpectation(e)
      [] e.kind = "Assignment" -> AssignmentExpectation(e, i, at.rs)
      [] e.kind = "Return" -> ReturnExpectation(S0)
      [] e.kind \in {"If", "While"} -> IF i = 1 THEN <<Bool>> ELSE <<>>
      [] e.kind = "Arm" -> IF i < Len(e.kids) THEN <<Bool>> ELSE <<>>
      [] e.kind = "Match" -> IF i = 1 THEN <<>> ELSE <<at.rs[1].type>>
      [] e.kind = "Unary" -> UnaryExpectation(e, expected)
      [] e.kind = "Binary" -> BinaryExpectation(e, i, at.rs)
      [] e.kind = "Tuple" -> TupleExpectation(e, i, expected, at.S)
      [] e.kind = "Array" -> ArrayExpectation(expected, S0)
      [] e.kind = "Collection" -> KnownArgument(e, Argument(e, i), at.rs, expected, S0)
      [] e.kind = "Index" -> IndexExpectation(i, at.rs)
      [] e.kind \in {"Record", "Positional"} -> ConstructExpectation(e, i, at.S, S0)
      [] e.kind \in {"Call", "NewCall", "Channel"} -> ArgumentExpectation(at.callee, i, at.S)
      [] e.kind = "TypeCall" -> IF DerivedDefault(e) THEN <<>> ELSE ArgumentExpectation(at.callee, i, at.S)
      [] e.kind \in {"ValueCall", "MethodCall"} ->
            IF i = 1 THEN <<>> ELSE ArgumentExpectation(at.callee, i - 1, at.S)
      [] OTHER -> <<>>

\* After a kid: what it adds to the walk, given the callee it selects.
Added(at, r, callee) == [rs |-> Append(at.rs, r), S |-> r.S, callee |-> callee]
AddedMethod(e, at, r, expected, c) == Added(at, [r EXCEPT !.S = MethodOpen(c, r, expected)], c)
AddedValue(at, r, c) == Added(at, [r EXCEPT !.S = Reporting(@, c)], c)
After(e, i, at, r, expected, S0) ==
    CASE e.kind \in {"Call", "NewCall", "Channel"} -> Added(at, ArgumentAfter(at.callee, i, r), at.callee)
      [] e.kind = "TypeCall" /\ ~DerivedDefault(e) -> Added(at, ArgumentAfter(at.callee, i, r), at.callee)
      [] e.kind = "ValueCall" ->
            IF i = 1 THEN AddedValue(at, r, ValueCallee(r.S, r.type))
            ELSE Added(at, ArgumentAfter(at.callee, i - 1, r), at.callee)
      [] e.kind = "MethodCall" ->
            IF i = 1 THEN AddedMethod(e, at, r, expected, MemberCallee(r.S, r, e.name))
            ELSE Added(at, ArgumentAfter(at.callee, i - 1, r), at.callee)
      [] e.kind \in {"Record", "Positional"} -> Added(at, ConstructAfter(e, i, r, S0), at.callee)
      [] OTHER -> Added(at, r, at.callee)

-----------------------------------------------------------------------------
(* After the kids *)

\* A standard constructor, or a channel: there is no receiver.
StandardConclude(e, c, rs, S) ==
    IF c.mode = "none" THEN Typed(e, rs, ErrorType, "Value", S)
    ELSE Checked(e, rs, c.result, "Value", FALSE, Require(S, ArityHolds(c, Len(rs)), "arity"), CallNode(c, c.target))

StatementConclude(e, at, S0) ==
    CASE e.kind = "Let" -> LetConclude(e, at.rs, at.S)
      [] e.kind = "Assignment" -> AssignmentConclude(e, at.rs, at.S)
      [] e.kind = "Return" -> ReturnConclude(e, at.rs, S0, at.S)
      [] e.kind = "Jump" -> JumpConclude(e, at.S)
      [] e.kind = "Block" -> BlockConclude(e, at.rs, at.S)
      [] e.kind = "If" -> IfConclude(e, at.rs, at.S)
      [] e.kind = "While" -> WhileConclude(e, at.rs, S0, at.S)
      [] e.kind = "For" -> ForConclude(e, at.rs, S0, at.S)
      [] e.kind = "Unsafe" -> UnsafeConclude(e, at.rs, S0, at.S)
      [] e.kind = "Defer" -> DeferConclude(e, at.rs, S0, at.S)
      [] e.kind = "Expect" -> ExpectConclude(e, at.rs, S0, at.S)
      [] e.kind = "Match" -> MatchConclude(e, at.rs, at.S)
      [] e.kind = "Arm" -> ArmConclude(e, at.callee, at.rs, at.S)
      [] e.kind = "Expression" -> ExpressionConclude(e, at.rs, at.S)

\* check_expr: the rule of each expression.
ExpressionRule(e, at, expected, S0) ==
    CASE e.kind = "Literal" -> LiteralConclude(e, expected, at.S)
      [] e.kind = "Formatted" -> FormattedConclude(e, at.rs, at.S)
      [] e.kind = "Local" -> LocalConclude(e, at.S)
      [] e.kind = "Function" -> FunctionValue(e, expected, at.S)
      [] e.kind = "Unary" -> UnaryConclude(e, at.rs, at.S)
      [] e.kind = "Binary" -> BinaryConclude(e, at.rs, at.S)
      [] e.kind = "Cast" -> CastConclude(e, at.rs, at.S)
      [] e.kind = "Try" -> TryConclude(e, at.rs, at.S)
      [] e.kind = "Tuple" -> TupleConclude(e, at.rs, at.S)
      [] e.kind = "TupleField" -> TupleFieldConclude(e, at.rs, at.S)
      [] e.kind = "Closure" -> ClosureConclude(e, at.rs, S0, at.S)
      [] e.kind = "Array" -> ArrayConclude(e, at.rs, expected, S0, at.S)
      [] e.kind = "Collection" -> CollectionConclude(e, at.rs, expected, S0, at.S)
      [] e.kind = "Index" -> IndexConclude(e, at.rs, at.S)
      [] e.kind \in {"Record", "Positional"} -> ConstructConclude(e, at.rs, S0, at.S)
      [] e.kind = "Call" -> NamedConclude(e, at.callee, at.rs, expected, at.S)
      [] e.kind = "TypeCall" -> IF DerivedDefault(e) THEN DefaultConclude(e, at.rs, S0, at.S)
                                ELSE NamedConclude(e, at.callee, at.rs, expected, at.S)
      [] e.kind \in {"NewCall", "Channel"} -> StandardConclude(e, at.callee, at.rs, at.S)
      [] e.kind \in {"ValueCall", "MethodCall"} -> MethodConclude(e, at.callee, at.rs, at.S)
      [] e.kind = "Member" -> MemberConclude(e, at.rs, at.S)
      [] e.kind = "TypeMember" -> TypeMemberConclude(e, at.S)
      [] e.kind = "Print" -> PrintConclude(e, at.rs, at.S)
      [] e.kind = "Spawn" -> SpawnConclude(e, at.rs, at.S)
      [] e.kind = "Convert" -> ConvertConclude(e, at.rs, at.S)

Statements == {"Let", "Assignment", "Return", "Jump", "Block", "If", "While", "For", "Unsafe", "Defer",
               "Expect", "Match", "Arm", "Expression"}

\* check_match_statement does not go into the arms of a match on never.
Visited(e, i, at) == e.kind = "Match" /\ i > 1 => ~IsNever(at.S, at.rs[1].type)

Concluded(e, at, expected, S0) ==
    IF e.kind \in Statements THEN StatementConclude(e, at, S0)
    ELSE Finished(ExpressionRule(e, at, expected, S0), expected)
RECURSIVE Check(_, _, _)
Check(e, expected, S0) ==
    Concluded(e,
        FoldLeft(LAMBDA a, i :
                   IF Visited(e, i, a)
                   THEN After(e, i, a, Check(e.kids[i], Expectation(e, i, a, expected, S0), Before(e, i, a)),
                              expected, S0)
                   ELSE a,
                 Open(e, expected, S0), [i \in DOMAIN e.kids |-> i]),
        expected, S0)

-----------------------------------------------------------------------------
(* Functions: a body is [parameters, block, test], the parameters by name, *)
(* the receiver first.                                                     *)

\* check_function: the types of the parameters, in the body.
BodyTypes(f) ==
    f.receiver \o [i \in DOMAIN f.arguments |->
                      IF f.arguments[i].variadic THEN SliceOf("shared", f.arguments[i].type)
                      ELSE f.arguments[i].type]
Entered(f, body) ==
    FoldLeft(LAMBDA s, i : Bound(s, body.parameters[i], BodyTypes(f)[i], FALSE),
             [bindings |-> <<>>, locals |-> <<>>, errors |-> {},
              context |-> [loop |-> 0, defer |-> 0, expect |-> 0, unsafe |-> 0, result |-> f.result,
                           test |-> body.test, module |-> f.module]],
             [i \in DOMAIN BodyTypes(f) |-> i])

\* check_function: a body that can fall off its end must have no result.
\* Faulty variant: the end of a body is not looked at.
CheckedFunction_AnyEnd(f) == Check(f.body[1].block, <<>>, Entered(f, f.body[1]))
Completed(r, result) == [r EXCEPT !.S = Require(@, r.returns \/ Same(@, result, Unit), "missing return")]
CheckedFunction(f) == Completed(Check(f.body[1].block, <<>>, Entered(f, f.body[1])), f.result)

=============================================================================
