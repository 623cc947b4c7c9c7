--------------------------- MODULE StatementRules ---------------------------
(***************************************************************************)
(* Checking the statements of a body (src/check/mod.rs).                   *)
(*                                                                         *)
(* A body is a tree of nodes [kind, name, info, kids] after resolution:    *)
(* local names are unique, parentheses are gone.  Checking a node threads  *)
(* a state                                                                 *)
(*   bindings  of the inference variables                                  *)
(*   locals    the [type, var] of every local declared so far              *)
(*   errors    the rules broken                                            *)
(*   context   [loop, defer, expect, unsafe, result, test, module]:        *)
(*             depths, the type to return, and where the body is           *)
(* and gives [type, place, returns, S, node]: place is the PlaceKind of an *)
(* expression, returns whether a statement ends its block, and node the    *)
(* checked node, which carries its type and place, whether an expression   *)
(* below it never returns, and what a call resolved to.                    *)
(*                                                                         *)
(* Each rule is split where the recursion into the kids of a node is: the  *)
(* state a kid is checked in, the type expected of it, and the conclusion  *)
(* from the results rs of all of them.                                     *)
(***************************************************************************)
EXTENDS DeclarationRules

Node(kind, name, info, kids) == [kind |-> kind, name |-> name, info |-> info, kids |-> kids]

\* PlaceKind and its queries.
Places == {"Value", "Addressable", "Mutable", "CollectionInterior", "RawPointerTarget"}
IsMutable(place) == place \in {"Mutable", "CollectionInterior", "RawPointerTarget"}
PermitsSafeReference(place) == place \in {"Addressable", "Mutable"}

Fail(S, rule) == [S EXCEPT !.errors = @ \cup {rule}]
Require(S, ok, rule) == IF ok THEN S ELSE Fail(S, rule)
Restore(S, S0) == [S EXCEPT !.context = S0.context]
Deeper(S, depth) == [S EXCEPT !.context[depth] = @ + 1]
Bound(S, name, type, var) == [S EXCEPT !.locals = (name :> [type |-> type, var |-> var]) @@ @]
Fresh(S) == Variable(Len(S.bindings) + 1)
WithFresh(S, n) == [S EXCEPT !.bindings = @ \o [i \in 1..n |-> Nil]]

KindOf(S, type) == Kind(Resolve(S.bindings, type))
Same(S, left, right) == Equal(S.bindings, left, right)
IsNever(S, type) == KindOf(S, type) = "Never"

\* types_compatible
Compatible(S, actual, expected) ==
    \/ ErrorType \in {actual, expected} \/ IsNever(S, actual) \/ Same(S, actual, expected)

\* A checked node; contains_never is what node_contains_never_expression finds
\* below it.
Checked(e, rs, type, place, returns, S, call) ==
    [type |-> type, place |-> place, returns |-> returns, S |-> S,
     node |-> [kind |-> e.kind, name |-> e.name, info |-> e.info,
               kids |-> [i \in DOMAIN rs |-> rs[i].node],
               type |-> type, place |-> place, call |-> call,
               contains_never |-> \E i \in DOMAIN rs : \/ IsNever(S, rs[i].type)
                                                       \/ rs[i].node.contains_never]]
NoCall == <<>>
Typed(e, rs, type, place, S) == Checked(e, rs, type, place, FALSE, S, NoCall)
Statement(e, rs, returns, S) == Checked(e, rs, Unit, "Value", returns, S, NoCall)
ContainsNever(rs, S) == \E i \in DOMAIN rs : IsNever(S, rs[i].type) \/ rs[i].node.contains_never

-----------------------------------------------------------------------------
(* Bindings *)

\* check_local_binding_pattern: [kind, name, kids], Bind or TuplePattern.
RECURSIVE BindPattern(_, _, _, _)
BindPattern(S, pattern, type, var) ==
    IF pattern.kind = "Bind"
    THEN IF pattern.name = "_" THEN S ELSE Bound(S, pattern.name, type, var)
    ELSE \* the type is resolved through aliases only
         LET t == Expanded(S.bindings, type)
             n == Len(pattern.kids)
             fits == \/ Kind(t) = "Tuple" /\ Len(Children(t)) = n
                     \/ t = Unit /\ n = 0
         IN  FoldLeft(LAMBDA s, i : BindPattern(s, pattern.kids[i],
                                                IF fits THEN Children(t)[i] ELSE ErrorType, var),
                      Require(S, fits \/ t = ErrorType, "binding pattern"),
                      [i \in 1..n |-> i])

\* check_let_statement: info is [var, annotation, pattern].
LetExpectation(e) == e.info.annotation
LetConclude(e, rs, S) ==
    LET type == IF e.info.annotation = <<>> THEN rs[1].type ELSE e.info.annotation[1]
    IN  Statement(e, rs, ContainsNever(rs, S),
                  BindPattern(Require(S, Compatible(S, rs[1].type, type), "initializer"),
                              e.info.pattern, type, e.info.var))

\* check_assignment_statement: the name of the node is its operator.
ShiftAssignment(e) == e.name \in {"<<=", ">>="}
PointerAssignment(e, S, place) == e.name \in {"+=", "-="} /\ KindOf(S, place) = "RawPointer"
Isize == Primitive("isize")

\* type_has_nonzero_size: a type inside itself adds nothing.
RECURSIVE NonzeroSize(_, _, _)
NonzeroSize(S, type, visiting) ==
    LET t == Resolve(S.bindings, type)
        Any1(types) == \E i \in DOMAIN types : NonzeroSize(S, types[i], visiting \cup {t})
    IN  /\ t \notin visiting
        /\ CASE Kind(t) = "Primitive" -> t # Unit
             [] Kind(t) = "Tuple" -> Any1(Children(t))
             [] Kind(t) = "Array" -> Name(t) # 0 /\ Any1(Children(t))
             [] Kind(t) \in {"Slice", "Reference", "RawPointer", "Function", "Closure"} -> TRUE
             [] Kind(t) = "Nominal" ->
                    \/ Declaration(Name(t)).kind = "Enum"
                    \/ LET map == Assigned(Declaration(Name(t)).parameters, Children(t)) IN
                       Any1([i \in DOMAIN FieldTypes(Name(t)) |->
                                Substitute(S.bindings, FieldTypes(Name(t))[i], map)])
             [] Kind(t) = "Builtin" -> Name(t) # "CVoid"
             [] Kind(t) = "Foreign" -> Name(t).complete
             [] Kind(t) = "Alias" -> Any1(<<AliasTarget(t)>>)
             [] OTHER -> FALSE

\* validate_pointer_arithmetic_type
PointsToData(S, type) ==
    LET target == Resolve(S.bindings, TargetOf(Resolve(S.bindings, type))) IN
    /\ LayoutAvailable(Deep(S.bindings, target)) /\ Kind(target) # "Function"
    /\ ~(Kind(target) = "Foreign" /\ ~Name(target).complete)
    /\ NonzeroSize(S, target, {})
PointerArithmetic(S, type) ==
    Require(S, TargetOf(Resolve(S.bindings, type)) = ErrorType \/ PointsToData(S, type), "pointer arithmetic")
RequireUnsafe(S) == Require(S, S.context.unsafe > 0, "unsafe required")

AssignmentBefore(e, i, rs, S) ==
    IF i # 2 THEN S
    ELSE LET placed == Require(S, IsMutable(rs[1].place) \/ rs[1].type = ErrorType, "immutable place")
         IN  IF PointerAssignment(e, S, rs[1].type)
             THEN PointerArithmetic(RequireUnsafe(placed), rs[1].type) ELSE placed
AssignmentExpectation(e, i, rs) ==
    IF i = 1 \/ ShiftAssignment(e) THEN <<>>
    ELSE IF PointerAssignment(e, rs[1].S, rs[1].type) THEN <<Isize>> ELSE <<rs[1].type>>

\* compound_assignment_operand_ok
CompoundAccepts(e, S, type) ==
    LET t == Expanded(S.bindings, type) IN
    CASE e.name \in {"+=", "-="} -> KindOf(S, type) = "RawPointer" \/ IsNumeric(t)
      [] e.name \in {"*=", "/="} -> IsNumeric(t)
      [] e.name \in {"%=", "&=", "|=", "^=", "<<=", ">>="} -> IsInteger(t)
      [] OTHER -> TRUE

UnsignedInteger(S, type) ==
    LET t == Expanded(S.bindings, type) IN Kind(t) = "Primitive" /\ Name(t) \in Unsigned
AssignmentConclude(e, rs, S) ==
    LET value == rs[2].type
        typed == IF ShiftAssignment(e)
                 THEN Require(S, value = ErrorType \/ UnsignedInteger(S, value), "shift count")
                 ELSE IF PointerAssignment(e, S, rs[1].type)
                 THEN Require(S, Compatible(S, value, Isize), "pointer offset")
                 ELSE Require(S, Compatible(S, value, rs[1].type), "assigned value")
    IN  Statement(e, rs, ContainsNever(rs, S),
                  Require(typed, rs[1].type = ErrorType \/ CompoundAccepts(e, S, rs[1].type),
                          "compound assignment"))

-----------------------------------------------------------------------------
(* Leaving a body *)

\* check_return_statement
InferredResult(S) == KindOf(S, S.context.result) = "Variable"
ReturnBefore(S) ==
    Require(Require(Require(S, S.context.defer = 0, "return in defer"),
                    S.context.expect = 0, "return in expect"),
            ~IsNever(S, S.context.result), "return from never")
ReturnExpectation(S) == IF InferredResult(S) THEN <<>> ELSE <<S.context.result>>
ReturnConclude(e, rs, S0, S) ==
    LET result == S0.context.result
        unit == Same(S0, result, Unit)
        value == IF rs = <<>> THEN Unit ELSE rs[1].type
        U == Unify(S.bindings, result, value)
    IN  Statement(e, rs, TRUE,
            IF rs # <<>> /\ unit THEN Fail(S, "value from unit")
            ELSE IF InferredResult(S0)
            THEN Require([S EXCEPT !.bindings = U.bindings], rs = <<>> \/ U.ok, "closure return")
            ELSE IF rs = <<>> THEN Require(S, unit, "missing value")
            ELSE Require(S, Compatible(S, value, result), "returned value"))

\* break and continue
JumpConclude(e, S) ==
    Statement(e, <<>>, FALSE,
              IF S.context.defer > 0 \/ S.context.expect > 0 THEN Fail(S, "jump escapes")
              ELSE Require(S, S.context.loop > 0, "jump outside loop"))

-----------------------------------------------------------------------------
(* Control flow *)

\* check_block: one statement that returns is enough.
BlockConclude(e, rs, S) == Statement(e, rs, \E i \in DOMAIN rs : rs[i].returns, S)

\* check_condition
ConditionFails(S, r) == ~(IsNever(S, r.type) \/ r.type = ErrorType \/ Same(S, r.type, Bool))

\* check_if_statement: kids are the condition, the block, and the else block.
IfConclude(e, rs, S) ==
    Statement(e, rs, IsNever(S, rs[1].type) \/ (rs[2].returns /\ Len(rs) = 3 /\ rs[3].returns),
              Require(S, ~ConditionFails(rs[1].S, rs[1]), "condition"))

\* WhileStatement
WhileConclude(e, rs, S0, S) ==
    Statement(e, rs, IsNever(S, rs[1].type),
              Restore(Require(S, ~ConditionFails(rs[1].S, rs[1]), "condition"), S0))

\* ForStatement: what it binds, if the type can be iterated.
IterationElement(S, type) ==
    LET t == Resolve(S.bindings, type)
        Iterated(arguments) == IF arguments # <<>> /\ Len(arguments[1]) = 1 THEN arguments[1] ELSE <<>>
    IN  CASE Kind(t) = "Slice" -> <<Reference(Name(t), TargetOf(t))>>
          [] Kind(t) = "Array" -> <<TargetOf(t)>>
          [] Kind(t) = "Builtin" /\ Name(t) \in {"Vec", "Set", "Store"} -> <<TargetOf(t)>>
          [] Kind(t) = "Builtin" /\ Name(t) = "Map" -> <<Tuple(Children(t))>>
          [] Kind(t) = "Error" -> <<ErrorType>>
          [] OTHER -> Iterated(TraitArguments(Deep(S.bindings, t), "Iterator"))
WithElement(e, S, type, element) ==
    IF element # <<>> THEN Bound(S, e.name, element[1], FALSE) ELSE Require(S, type = ErrorType, "iterable")
ForBefore(e, i, rs, S) ==
    IF i # 2 THEN S
    ELSE Deeper(WithElement(e, S, rs[1].type, IterationElement(S, rs[1].type)), "loop")
ForConclude(e, rs, S0, S) == Statement(e, rs, IsNever(S, rs[1].type), Restore(S, S0))

\* UnsafeBlock
UnsafeBefore(S) == Deeper(Require(S, S.context.defer = 0, "unsafe in defer"), "unsafe")
UnsafeConclude(e, rs, S0, S) == Statement(e, rs, rs[1].returns, Restore(S, S0))

\* DeferStatement: a block or a call.
DeferBefore(S) ==
    Deeper(Require(Require(S, S.context.defer = 0, "defer in defer"),
                   S.context.unsafe = 0, "defer in unsafe"), "defer")
DeferConclude(e, rs, S0, S) ==
    LET call == e.kids[1].kind # "Block"
        typed == Require(S, call => rs[1].type = ErrorType \/ Same(S, rs[1].type, Unit), "deferred value")
    IN  Statement(e, rs, FALSE,
                  Restore(Require(typed, ~(call /\ rs[1].node.call # <<>> /\ rs[1].node.call.unsafe),
                                  "deferred unsafe call"), S0))

\* ExpectStatement: an optional selector, then the block.
ExpectBefore(e, i, rs, S) ==
    LET opened == IF i > 1 THEN S
                  ELSE Require(Require(S, S.context.test, "expect outside test"),
                               S.context.expect = 0, "expect in expect")
    IN  IF e.kids[i].kind # "Block" THEN opened
        ELSE Deeper(Require(opened, i = 1 \/ rs[1].type = ErrorType
                                    \/ ImplementsTrait(Deep(S.bindings, rs[1].type), "RuntimeTrap"),
                            "expect selector"), "expect")
ExpectConclude(e, rs, S0, S) == Statement(e, rs, FALSE, Restore(S, S0))

\* ExpressionStatement
ExpressionConclude(e, rs, S) == Statement(e, rs, IsNever(S, rs[1].type), S)

=============================================================================
