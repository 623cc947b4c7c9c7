--------------------------- MODULE ExpressionRules ---------------------------
(***************************************************************************)
(* Checking the expressions of a body (src/check/mod.rs).  A rule comes to *)
(* an outcome [type, errors]; every outcome but a place is a Value.        *)
(***************************************************************************)
EXTENDS StatementRules

Good(type) == [type |-> type, errors |-> {}]
Bad(rule) == [type |-> ErrorType, errors |-> {rule}]
Unless(bad, rule, outcome) == IF bad THEN Bad(rule) ELSE outcome
Broken == Good(ErrorType)                \* an error already reported below

With(S, outcome) == [S EXCEPT !.errors = @ \cup outcome.errors]
Yields(e, rs, S, outcome) == Typed(e, rs, outcome.type, "Value", With(S, outcome))

At(S, type) == Resolve(S.bindings, type)
Plain(S, type) == Expanded(S.bindings, type)
Offers(S, type, trait) == Provides(Deep(S.bindings, type), trait)

-----------------------------------------------------------------------------
(* Literals and names *)

\* literal_token_type; a negated integer is one literal.
LiteralConclude(e, expected, S) ==
    LET null == IF expected # <<>> /\ KindOf(S, expected[1]) = "RawPointer" THEN expected[1]
                ELSE RawPointer("shared", Fresh(S))
        type == CASE e.name = "int" ->
                        MaterializeInteger(S.bindings, e.info.magnitude, e.info.suffix, e.info.negative, expected)
                  [] e.name = "float" -> MaterializeFloat(S.bindings, e.info.suffix, expected)
                  [] e.name = "string" -> MaterializeString(S.bindings, expected)
                  [] e.name = "char" -> Primitive("char")
                  [] e.name = "bool" -> Bool
                  [] e.name = "null" -> null
    IN  Typed(e, <<>>, type, "Value",
              Require(WithFresh(S, IF e.name = "null" THEN 1 ELSE 0), type # ErrorType, "literal"))

\* check_formatted_string
FormattedConclude(e, rs, S) ==
    Typed(e, rs, Primitive("str"), "Value",
          Require(S, \A i \in DOMAIN rs : rs[i].type = ErrorType \/ Offers(S, rs[i].type, "Display"),
                  "display"))

\* check_name_target, a local: let bindings can be referenced, not assigned.
LocalConclude(e, S) ==
    Typed(e, <<>>, S.locals[e.name].type, IF S.locals[e.name].var THEN "Mutable" ELSE "Addressable", S)

-----------------------------------------------------------------------------
(* Unary operators: & and &var, *, !, ~, +, - *)

\* A static integer is a sequence of at most one integer: static_integer_expression
\* with the exact operations below it.  Division truncates.
Truncated(n, d) == IF (n < 0) = (d < 0) THEN (IF n < 0 THEN -n ELSE n) \div (IF d < 0 THEN -d ELSE d)
                   ELSE -((IF n < 0 THEN -n ELSE n) \div (IF d < 0 THEN -d ELSE d))
RECURSIVE StaticInteger(_)
StaticInteger(e) ==
    LET one == IF e.kids = <<>> THEN <<>> ELSE StaticInteger(e.kids[1])
        two == IF Len(e.kids) < 2 THEN <<>> ELSE StaticInteger(e.kids[2])
    IN  CASE e.kind = "Literal" /\ e.name = "int" ->
                <<IF e.info.negative THEN -e.info.magnitude ELSE e.info.magnitude>>
          [] e.kind = "Unary" /\ e.name \in {"+", "-"} /\ one # <<>> ->
                <<IF e.name = "-" THEN -one[1] ELSE one[1]>>
          [] e.kind = "Binary" /\ one # <<>> /\ two # <<>> ->
                CASE e.name = "+" -> <<one[1] + two[1]>>
                  [] e.name = "-" -> <<one[1] - two[1]>>
                  [] e.name = "*" -> <<one[1] * two[1]>>
                  [] e.name = "/" /\ two[1] # 0 -> <<Truncated(one[1], two[1])>>
                  [] e.name = "%" /\ two[1] # 0 -> <<one[1] - two[1] * Truncated(one[1], two[1])>>
                  [] OTHER -> <<>>
          [] OTHER -> <<>>

\* expression_locally_null
RECURSIVE LocallyNull(_)
LocallyNull(e) ==
    \/ e.kind = "Literal" /\ e.name = "null"
    \/ e.kind = "Cast" /\ LocallyNull(e.kids[1])
    \/ e.kind = "Binary" /\ e.name \in {"+", "-"} /\ StaticInteger(e.kids[2]) = <<0>> /\ LocallyNull(e.kids[1])

\* What a reference may be taken of: a place, and a record literal.
Referable(e, place) ==
    \/ e.kids[1].kind = "Record"
    \/ PermitsSafeReference(place) /\ (e.name = "&var" => IsMutable(place))

\* A reference or slice is reborrowed; an array or a Vec gives a slice.
ReferenceOutcome(e, S, r) ==
    LET t == At(S, r.type)
        mutability == IF e.name = "&var" THEN "mutable" ELSE "shared"
        reborrow == Kind(t) \in {"Reference", "Slice"}
        type == CASE Kind(t) = "Reference" -> Reference(mutability, TargetOf(t))
                  [] Kind(t) \in {"Slice", "Array"} -> SliceOf(mutability, TargetOf(t))
                  [] Kind(t) = "Builtin" /\ Name(t) = "Vec" -> SliceOf(mutability, TargetOf(t))
                  [] OTHER -> Reference(mutability, r.type)
    IN  [type |-> type,
         errors |-> (IF Referable(e, r.place) \/ r.type = ErrorType THEN {} ELSE {"reference"})
                    \cup (IF reborrow /\ e.name = "&var" /\ Name(t) # "mutable" THEN {"reborrow"} ELSE {})]

\* Dereference: [type, place, S].
Dereference(e, S, r) ==
    LET t == At(S, r.type)
        At1(type, place, T1) == Typed(e, <<r>>, type, place, T1)
    IN  CASE Kind(t) = "Reference" ->
                At1(TargetOf(t), IF Name(t) = "mutable" THEN "Mutable" ELSE "Addressable", S)
          [] Kind(t) = "RawPointer" ->
                At1(TargetOf(t), IF Name(t) = "mutable" THEN "RawPointerTarget" ELSE "Value",
                    Require(RequireUnsafe(S), ~LocallyNull(e.kids[1]), "null"))
          [] Kind(t) = "Builtin" /\ Name(t) = "Box" ->
                At1(TargetOf(t), IF IsMutable(r.place) THEN "Mutable" ELSE "Addressable", S)
          [] Kind(t) = "Error" -> At1(ErrorType, "Value", S)
          [] OTHER -> At1(ErrorType, "Value", Fail(S, "dereference"))

UnaryExpectation(e, expected) ==
    CASE e.name \in {"&", "&var", "*"} -> <<>> [] e.name = "!" -> <<Bool>> [] OTHER -> expected
UnaryConclude(e, rs, S) ==
    LET type == rs[1].type
        broken == type = ErrorType
    IN  CASE e.name \in {"&", "&var"} -> Yields(e, rs, S, ReferenceOutcome(e, S, rs[1]))
          [] e.name = "*" -> Dereference(e, S, rs[1])
          [] e.name = "!" -> Typed(e, rs, Bool, "Value", Require(S, broken \/ Same(S, type, Bool), "not"))
          [] e.name = "~" -> Yields(e, rs, S, Unless(~broken /\ ~IsInteger(Plain(S, type)), "complement", Good(type)))
          [] e.name \in {"+", "-"} ->
                Yields(e, rs, S, Unless(~broken /\ ~IsNumeric(Plain(S, type)), "sign", Good(type)))

-----------------------------------------------------------------------------
(* Binary operators *)

Orderings == {"<", "<=", ">", ">="}
PointerLeft(e, S, type) == KindOf(S, type) = "RawPointer" /\ e.name \in {"+", "-"} \cup Orderings

BinaryExpectation(e, i, rs) ==
    IF e.name \in {"&&", "||"} THEN <<Bool>>
    ELSE IF i = 1 THEN <<>>
    ELSE LET left == rs[1].type IN
         IF PointerLeft(e, rs[1].S, left)
         THEN IF e.name # "+" /\ LocallyNull(e.kids[2]) THEN <<left>>
              ELSE IF e.name \in Orderings THEN <<>> ELSE <<Isize>>
         ELSE IF e.name \in {"<<", ">>"} \/ left = ErrorType THEN <<>> ELSE <<left>>
BinaryBefore(e, i, rs, S) ==
    IF i = 2 /\ e.name \notin {"&&", "||"} /\ PointerLeft(e, S, rs[1].type)
    THEN IF e.name \in Orderings THEN RequireUnsafe(S) ELSE PointerArithmetic(RequireUnsafe(S), rs[1].type)
    ELSE S

\* check_pointer_binary
PointerOutcome(e, S, left, right) ==
    LET valid == TargetOf(At(S, left)) # ErrorType /\ PointsToData(S, left)
        r == At(S, right)
        both == valid /\ TargetOf(r) # ErrorType /\ PointsToData(S, right)
    IN  IF e.name = "-" /\ Kind(r) = "RawPointer"
        THEN [(IF ~Same(S, TargetOf(At(S, left)), TargetOf(r)) THEN Bad("pointer difference")
               ELSE Good(IF both THEN Isize ELSE ErrorType))
                EXCEPT !.errors = @ \cup (IF PointsToData(S, right) \/ TargetOf(r) = ErrorType THEN {}
                                          ELSE {"pointer arithmetic"})]
        ELSE Unless(right # ErrorType /\ ~Same(S, right, Isize), "pointer offset",
                    Good(IF valid THEN left ELSE ErrorType))

\* check_pointer_ordering, which unifies the pointees.
PointerOrdering(e, rs, S) ==
    LET right == At(S, rs[2].type)
        U == Unify(S.bindings, TargetOf(At(S, rs[1].type)), TargetOf(right))
        target == Expanded(U.bindings, TargetOf(At(S, rs[1].type)))
    IN  IF Kind(right) # "RawPointer"
        THEN Yields(e, rs, S, Unless(rs[2].type # ErrorType, "pointer ordering", Broken))
        ELSE Yields(e, rs, [S EXCEPT !.bindings = U.bindings],
                    Unless(~U.ok \/ Kind(target) \in {"Function", "Variable", "Error"}, "pointer ordering",
                           Good(Bool)))

\* reject_statically_invalid_arithmetic
StaticallyInvalid(e, name) ==
    LET left == StaticInteger(e.kids[1])
        right == StaticInteger(e.kids[2])
    IN  /\ name \in IntegerNames /\ left # <<>> /\ right # <<>>
        /\ CASE e.name = "+" -> ~Fits(name, left[1] + right[1])
             [] e.name = "-" -> ~Fits(name, left[1] - right[1])
             [] e.name = "*" -> ~Fits(name, left[1] * right[1])
             [] e.name = "/" -> right[1] = 0 \/ ~Fits(name, Truncated(left[1], right[1]))
             [] e.name = "%" -> right[1] = 0 \/ ~Fits(name, left[1] - right[1] * Truncated(left[1], right[1]))
             [] e.name = "<<" ->
                    right[1] < 0 \/ right[1] >= Width(name) \/ ~Fits(name, left[1] * 2 ^ right[1])
             [] e.name = ">>" ->
                    right[1] < 0 \/ right[1] >= Width(name) \/ ~Fits(name, left[1] \div 2 ^ right[1])
             [] OTHER -> FALSE
Static(e, S, type) ==
    LET t == Plain(S, type) IN
    Unless(Kind(t) = "Primitive" /\ StaticallyInvalid(e, Name(t)), "static arithmetic", Good(type))
\* The diagnostic does not take the type away.
Warned(outcome, type) == [outcome EXCEPT !.type = type]

\* is_concatenable_type
Concatenable(S, type) ==
    LET t == Plain(S, type) IN
    t \in {Primitive("str"), Primitive("String")} \/ (Kind(t) = "Builtin" /\ Name(t) = "Vec")

\* generic_operation_is_bound: only bounds on builtin traits count.
OperationBound(S, type, required) ==
    LET t == Plain(S, type) IN
    Kind(t) = "Parameter" =>
        \E i \in DOMAIN Bounds(Name(t)) :
            LET bound == Bounds(Name(t))[i] IN
            /\ Kind(bound) = "Builtin"
            /\ \/ Name(bound) = required
               \/ required = "PartialEq" /\ Name(bound) \in {"Eq", "Ord"}
               \/ required = "PartialOrd" /\ Name(bound) = "Ord"

\* function_value_signature: the function a reference or a raw pointer names.
FunctionSignature(S, type) ==
    LET t == Plain(S, type) IN
    IF Kind(t) \in {"Reference", "RawPointer"} /\ KindOf(S, TargetOf(t)) = "Function"
    THEN <<At(S, TargetOf(t))>> ELSE <<>>

CompareOutcome(S, type, trait) ==
    Unless(\/ type # ErrorType /\ ~Offers(S, type, trait)
           \/ ~OperationBound(S, type, trait), "comparison", Good(Bool))

\* check_binary, after both operands: shifts, then operands of one type.
ShiftOutcome(e, S, left, right) ==
    LET value == left = ErrorType \/ IsInteger(Plain(S, left))
        count == right = ErrorType \/ UnsignedInteger(S, right)
    IN  IF value /\ count THEN Warned(Static(e, S, left), left) ELSE Bad("shift")
OperatorOutcome(e, S, left, right) ==
    LET t == Plain(S, left)
        broken == left = ErrorType
        arithmetic == Warned(Static(e, S, left), left)
    IN  IF ~(broken \/ right = ErrorType \/ Same(S, left, right)) THEN Bad("operands")
        ELSE CASE e.name = "++" -> Unless(~broken /\ ~Concatenable(S, left), "concatenation", Good(left))
               [] e.name \in {"==", "!="} -> CompareOutcome(S, left, "PartialEq")
               [] e.name \in Orderings ->
                    Unless(FunctionSignature(S, left) # <<>>, "function ordering", CompareOutcome(S, left, "PartialOrd"))
               [] e.name \in {"+", "-", "*", "/"} -> Unless(~broken /\ ~IsNumeric(t), "arithmetic", arithmetic)
               [] e.name = "%" -> Unless(~broken /\ ~IsInteger(t), "arithmetic", arithmetic)
               [] e.name \in {"&", "|", "^"} -> Unless(~broken /\ ~IsInteger(t), "bitwise", Good(left))

\* The operands of && and || are not compared with bool.
BinaryConclude(e, rs, S) ==
    CASE e.name \in {"&&", "||"} -> Typed(e, rs, Bool, "Value", S)
      [] e.name \notin {"&&", "||"} /\ PointerLeft(e, S, rs[1].type) ->
            IF e.name \in Orderings THEN PointerOrdering(e, rs, S)
            ELSE Yields(e, rs, S, PointerOutcome(e, S, rs[1].type, rs[2].type))
      [] e.name \in {"<<", ">>"} -> Yields(e, rs, S, ShiftOutcome(e, S, rs[1].type, rs[2].type))
      [] OTHER -> Yields(e, rs, S, OperatorOutcome(e, S, rs[1].type, rs[2].type))

-----------------------------------------------------------------------------
(* Instances of functions, and the capabilities their arguments need *)

Instance(function, arguments, self) == [function |-> function, arguments |-> arguments, self |-> self]

\* instantiate_signature
In(S, instance, type) ==
    LET map == Assigned(program.functions[instance.function].parameters, instance.arguments)
        substituted == Substitute(S.bindings, type, map)
    IN  IF instance.self = Nil THEN substituted
        ELSE Substitute(S.bindings, SubstituteSelf(S.bindings, substituted, instance.self), map)
InstanceSignature(S, instance) ==
    LET f == program.functions[instance.function] IN
    [receiver |-> [i \in DOMAIN f.receiver |-> In(S, instance, f.receiver[i])],
     arguments |-> [i \in DOMAIN f.arguments |->
                        [f.arguments[i] EXCEPT !.type = In(S, instance, f.arguments[i].type)]],
     result |-> In(S, instance, f.result)]
Ordinary(types) == [i \in DOMAIN types |-> [type |-> types[i], variadic |-> FALSE]]

\* function_reference_type: the receiver is the first parameter; a foreign
\* function is a raw pointer.
FunctionReference(S, instance) ==
    LET f == program.functions[instance.function]
        signature == InstanceSignature(S, instance)
        type == FunctionType(f.safety, IF f.foreign THEN "C" ELSE "Elamite", <<>>,
                             Ordinary(signature.receiver) \o signature.arguments, signature.result)
    IN  IF f.foreign THEN RawPointer("shared", type) ELSE Reference("shared", type)

\* callable_impl_signature: what a nominal that implements Callable takes.
Unpacked(S, tuple) ==
    LET t == At(S, tuple) IN
    IF Kind(t) = "Tuple" THEN <<Children(t)>> ELSE IF t = Unit THEN <<<<>>>> ELSE <<>>
CallableImplementation(S, type) ==
    LET Taken(signature) ==
            IF Len(signature.arguments) # 1 THEN <<>>
            ELSE Then(Unpacked(S, signature.arguments[1].type),
                      LAMBDA types : <<[parameters |-> types, result |-> signature.result]>>)
    IN  Then(VtableEntry("Callable", Deep(S.bindings, type), "call"),
             LAMBDA entry : Taken(InstanceSignature(S, Instance(entry.function, entry.arguments, entry.self))))

\* satisfies_callable_signature
PlainFunction(f) ==
    /\ Kind(f) = "Function" /\ Name(f).safety = "safe" /\ FunctionReceiver(f) = <<>>
    /\ \A i \in DOMAIN FunctionParameters(f) : ~FunctionParameters(f)[i].variadic
OfFunction(f) == IF PlainFunction(f) THEN {[parameters |-> TypesOf(FunctionParameters(f)), result |-> Result(f)]} ELSE {}
CallableForms(S, t) ==
    CASE Kind(t) = "Nominal" -> ToSet(CallableImplementation(S, t))
      [] Kind(t) = "Closure" -> {[parameters |-> ClosureParameters(t), result |-> Result(t)]}
      [] Kind(t) = "Reference" -> OfFunction(At(S, TargetOf(t)))
      [] OTHER -> {}
SatisfiesCallable(S, actual, required) ==
    \E r \in {At(S, required)} :
        /\ Kind(r) = "Nominal" /\ Name(r) = "Callable"
        /\ \E parameters \in ToSet(Unpacked(S, Children(r)[1])) : \E f \in CallableForms(S, At(S, actual)) :
              /\ Len(f.parameters) = Len(parameters)
              /\ \A i \in DOMAIN parameters : Same(S, f.parameters[i], parameters[i])
              /\ Same(S, f.result, Children(r)[2])

\* validate_instance_obligations.  Whether a type is Send or Sync is left to
\* OwnershipFacts; here every ground type is both.
\* Faulty variant: bounds are not checked.
ObligationsHold_Unchecked(S, instance) == TRUE
BoundHolds(S, type, bound, map) ==
    CASE TraitName(bound) = "Callable" -> SatisfiesCallable(S, type, Substitute(S.bindings, bound, map))
      [] TraitName(bound) \in {"Send", "Sync"} -> ~ContainsGeneric(S.bindings, type)
      [] OTHER -> Offers(S, type, TraitName(bound))
BoundsHold(S, map) == \A p \in DOMAIN map : \A j \in DOMAIN Bounds(p) : BoundHolds(S, map[p], Bounds(p)[j], map)
ObligationsHold(S, instance) ==
    BoundsHold(S, Assigned(program.functions[instance.function].parameters, instance.arguments))

\* generic_inference_variables, infer_against, finish_inference: the variables
\* are the last ones of the state.
Variables(parameters, base) ==
    [p \in {parameters[i] : i \in DOMAIN parameters} |->
        Variable(base + CHOOSE i \in DOMAIN parameters : parameters[i] = p)]
Infer(S, template, actual, variables) ==
    Unify(S.bindings, Substitute(S.bindings, template, variables), actual)
Inferred(S, parameters, variables) ==
    \A i \in DOMAIN parameters : KindOf(S, variables[parameters[i]]) # "Variable"
InferredArguments(S, parameters, variables) ==
    [i \in DOMAIN parameters |-> At(S, variables[parameters[i]])]

\* function_instance_from_expected, and the names that use it: a function named
\* as a value, with all its arguments or with an expected type.
ParametersOf(f) == program.functions[f].parameters
ReferenceTo(e, instance, S) ==
    Checked(e, <<>>, FunctionReference(S, instance), "Value", FALSE, S,
            [form |-> "reference", target |-> instance, unsafe |-> FALSE, adjustment |-> ""])
\* All the arguments at once: [arguments, S, rule], the last "" when they are known.
Given(arguments, S, rule) == [arguments |-> arguments, S |-> S, rule |-> rule]
Solved(f, variables, V, U) ==
    IF ~U.ok THEN Given(<<>>, [V EXCEPT !.bindings = U.bindings], "function reference")
    ELSE IF ~Inferred([V EXCEPT !.bindings = U.bindings], ParametersOf(f), variables)
    THEN Given(<<>>, [V EXCEPT !.bindings = U.bindings], "unknown")
    ELSE Given(InferredArguments([V EXCEPT !.bindings = U.bindings], ParametersOf(f), variables),
               [V EXCEPT !.bindings = U.bindings], "")
GivenArguments(f, explicit, expected, S) ==
    LET parameters == ParametersOf(f)
        variables == Variables(parameters, Len(S.bindings))
        own == Instance(f, [i \in DOMAIN parameters |-> Parameter(parameters[i])], Nil)
    IN  CASE explicit # <<>> -> Given(explicit[1], S, IF Len(explicit[1]) = Len(parameters) THEN "" ELSE "generic arity")
          [] explicit = <<>> /\ parameters = <<>> -> Given(<<>>, S, "")
          [] OTHER -> IF expected = <<>> THEN Given(<<>>, S, "inference")
                      ELSE Solved(f, variables, WithFresh(S, Len(parameters)),
                                  Infer(WithFresh(S, Len(parameters)), FunctionReference(S, own), expected[1],
                                        variables))
FunctionValueOf(e, given) ==
    CASE given.rule = "unknown" -> Typed(e, <<>>, ErrorType, "Value", given.S)
      [] given.rule \notin {"", "unknown"} -> Typed(e, <<>>, ErrorType, "Value", Fail(given.S, given.rule))
      [] OTHER -> IF ObligationsHold(given.S, Instance(e.name, given.arguments, Nil))
                  THEN ReferenceTo(e, Instance(e.name, given.arguments, Nil), given.S)
                  ELSE Typed(e, <<>>, ErrorType, "Value", Fail(given.S, "obligation"))
FunctionValue(e, expected, S) == FunctionValueOf(e, GivenArguments(e.name, e.info.arguments, expected, S))

-----------------------------------------------------------------------------
(* Trait objects *)

IsObjectReference(S, type) ==
    LET t == At(S, type) IN
    Kind(t) \in {"Reference", "RawPointer"} /\ KindOf(S, TargetOf(t)) = "TraitObject"

\* check_trait_object_formation; the arguments of the trait play no part but for
\* Callable.
ObjectForms(S, target, concrete) ==
    LET trait == ObjectTrait(At(S, target)) IN
    trait # <<>> =>
        /\ ObjectSafe(trait[1])
        /\ IF trait[1] = "Callable"
           THEN SatisfiesCallable(S, concrete, TargetOf(At(S, TargetOf(At(S, target)))))
           ELSE ImplementsTrait(Deep(S.bindings, concrete), trait[1])

\* record_trait_object_coercion, made by check_expr wherever one is expected.
CoercionFails(S, source, target) ==
    LET s == At(S, source) IN
    \/ Kind(s) # "Reference"
    \/ Name(s) # Name(At(S, target))
    \/ ~ObjectForms(S, target, TargetOf(s))
    \/ ObjectTrait(At(S, target)) = <<>>
NeedsCoercion(S, type, expected) ==
    /\ expected # <<>> /\ ErrorType \notin {type, expected[1]}
    /\ ~Same(S, type, expected[1]) /\ ~IsNever(S, type)
    /\ IsObjectReference(S, expected[1])

\* check_expr, after the rule of the expression: the coercion, then unsafe calls.
AsObject(r, type) ==
    [r EXCEPT !.type = type, !.place = "Value",
              !.node = [kind |-> "Object", name |-> ObjectTrait(At(r.S, type))[1], info |-> r.type, kids |-> <<@>>,
                        type |-> type, place |-> "Value", call |-> <<>>, contains_never |-> @.contains_never]]
AsError(r) ==
    [r EXCEPT !.type = ErrorType, !.place = "Value", !.node.type = ErrorType, !.S = Fail(@, "coercion")]
Coerced(r, expected) ==
    IF ~NeedsCoercion(r.S, r.type, expected) THEN r
    ELSE IF CoercionFails(r.S, r.type, expected[1]) THEN AsError(r) ELSE AsObject(r, expected[1])
UnsafeCall(r) == r.node.call # <<>> /\ r.node.call.unsafe
Finished(r, expected) ==
    Coerced([r EXCEPT !.S = IF UnsafeCall(r) THEN RequireUnsafe(@) ELSE @], expected)

-----------------------------------------------------------------------------
(* Casts: info is the target type *)

ObjectCast(S, source, target) ==
    LET s == At(S, source) IN
    IF Kind(s) # "Reference" THEN Bad("object cast")
    ELSE Unless(\/ Kind(At(S, target)) = "Reference" /\ Name(s) # Name(At(S, target))
                \/ ~ObjectForms(S, target, TargetOf(s)), "object cast", Good(target))

\* A closure becomes a function reference or a raw function pointer.
CastFunction(S, target) ==
    LET t == At(S, target)
        f == IF Kind(t) \in {"Reference", "RawPointer"} THEN At(S, TargetOf(t)) ELSE Nil
    IN  /\ Kind(f) = "Function" /\ Name(f).safety = "safe" /\ FunctionReceiver(f) = <<>>
        /\ Kind(t) = "Reference" => Name(t) = "shared" /\ Name(f).abi = "Elamite"
ClosureCast(S, source, target) ==
    LET c == At(S, source)
        f == At(S, TargetOf(At(S, target)))
        exact == /\ Len(ClosureParameters(c)) = Len(FunctionParameters(f))
                 /\ \A i \in DOMAIN ClosureParameters(c) :
                       /\ ~FunctionParameters(f)[i].variadic
                       /\ Same(S, ClosureParameters(c)[i], FunctionParameters(f)[i].type)
                 /\ Same(S, Result(c), Result(f))
    IN  Unless(ClosureCaptures(c) # <<>> \/ ~exact, "closure cast", Good(target))

\* Pointers: [type, errors, unsafe].
PointerCast(e, S, source, target) ==
    LET s == At(S, source)
        t == At(S, target)
        same == Same(S, TargetOf(s), TargetOf(t))
        gains == Name(t) = "mutable" /\ Name(s) = "shared"
        Function(u) == KindOf(S, TargetOf(u)) = "Function"
        Needs(outcome, unsafe) == [type |-> outcome.type, errors |-> outcome.errors, unsafe |-> unsafe]
    IN  CASE Kind(s) = "Reference" /\ Kind(t) = "RawPointer" ->
                Needs(Unless(~same \/ gains, "pointer cast", Good(target)), FALSE)
          [] Kind(s) = "RawPointer" /\ Kind(t) = "RawPointer" ->
                IF Same(S, s, t) THEN Needs(Good(target), FALSE)
                ELSE Needs(Unless(Function(s) # Function(t) \/ gains, "pointer cast", Good(target)),
                           Function(s) = Function(t) /\ ~gains /\ ~same)
          [] Kind(s) = "RawPointer" /\ Kind(t) = "Reference" ->
                IF LocallyNull(e.kids[1]) THEN Needs(Bad("null"), FALSE)
                ELSE Needs(Unless(Name(s) # Name(t) \/ ~same, "pointer cast", Good(target)),
                           Name(s) = Name(t) /\ same)
          [] OTHER -> Needs(Bad("pointer cast"), FALSE)

\* check_cast
CastConclude(e, rs, S) ==
    LET source == rs[1].type
        target == e.info.target
        pointer == PointerCast(e, S, source, target)
    IN  CASE ErrorType \in {source, target} -> Typed(e, rs, target, "Value", S)
          [] ErrorType \notin {source, target} /\ IsObjectReference(S, target) ->
                Yields(e, rs, S, ObjectCast(S, source, target))
          [] ErrorType \notin {source, target} /\ ~IsObjectReference(S, target)
             /\ KindOf(S, source) = "Closure" /\ CastFunction(S, target) ->
                Yields(e, rs, S, ClosureCast(S, source, target))
          [] OTHER ->
                IF "RawPointer" \in {KindOf(S, source), KindOf(S, target)}
                THEN Yields(e, rs, IF pointer.unsafe THEN RequireUnsafe(S) ELSE S, pointer)
                ELSE Yields(e, rs, S, Unless(~IsNumeric(Plain(S, source)) \/ ~IsNumeric(Plain(S, target)),
                                             "numeric cast", Good(target)))

-----------------------------------------------------------------------------
(* Postfix ?, tuples and their members *)

\* standard_result_payloads
ResultPayloads(S, type) ==
    LET t == Plain(S, type) IN
    IF Kind(t) = "Nominal" /\ Name(t) = "Result" THEN Children(t) ELSE <<>>

\* check_try
TryBefore(S) ==
    Require(Require(S, S.context.defer = 0, "try in defer"), S.context.expect = 0, "try in expect")
TryConclude(e, rs, S) ==
    LET operand == ResultPayloads(S, rs[1].type)
        result == ResultPayloads(S, S.context.result)
    IN  Yields(e, rs, S,
               IF rs[1].type = ErrorType THEN Broken
               ELSE Unless(operand = <<>> \/ result = <<>>, "try",
                           Unless(~Same(S, operand[2], result[2]), "try", Good(operand[1]))))

\* check_tuple
TupleExpectation(e, i, expected, S) ==
    LET t == IF expected = <<>> THEN Nil ELSE At(S, expected[1]) IN
    IF Kind(t) = "Tuple" /\ Len(Children(t)) = Len(e.kids) THEN <<Children(t)[i]>> ELSE <<>>
TupleConclude(e, rs, S) ==
    Typed(e, rs, IF rs = <<>> THEN Unit ELSE Tuple([i \in DOMAIN rs |-> rs[i].type]), "Value", S)

\* The place of what a reference or a raw pointer leads to, for a member.
Through(t) ==
    IF Kind(t) = "Reference" THEN IF Name(t) = "mutable" THEN "Mutable" ELSE "Addressable"
    ELSE IF Name(t) = "mutable" THEN "RawPointerTarget" ELSE "Value"
MemberState(e, S, t) ==
    IF Kind(t) # "RawPointer" THEN S ELSE Require(RequireUnsafe(S), ~LocallyNull(e.kids[1]), "null")

\* check_tuple_field_expression: info is the index.
TupleFieldConclude(e, rs, S) ==
    LET t == Plain(S, rs[1].type)
        indirect == Kind(t) \in {"Reference", "RawPointer"}
        owner == IF indirect THEN Plain(S, TargetOf(t)) ELSE t
        place == IF indirect THEN Through(t) ELSE rs[1].place
        T1 == MemberState(e, S, t)
    IN  IF Kind(t) = "Error" THEN Typed(e, rs, ErrorType, "Value", S)
        ELSE IF Kind(owner) = "Tuple" /\ e.info.index < Len(Children(owner))
        THEN Typed(e, rs, Children(owner)[e.info.index + 1], place, T1)
        ELSE Typed(e, rs, ErrorType, "Value", Fail(T1, "tuple member"))

-----------------------------------------------------------------------------
(* Closures: info is [captures, parameters, result]; a capture is          *)
(* [source, name, kind], a parameter [name, type]                          *)

\* The type of a capture, and whether its source allows it.
CaptureType(S, capture) ==
    LET source == S.locals[capture.source].type
        t == Plain(S, source)
        reborrow == Kind(t) = "Reference" /\ Name(t) = "mutable"
    IN  CASE capture.kind = "value" -> source
          [] capture.kind = "&" -> Reference("shared", source)
          [] capture.kind = "&var" -> IF reborrow THEN source ELSE Reference("mutable", source)
          [] capture.kind = "*" -> IF Kind(t) = "RawPointer" THEN RawPointer("shared", TargetOf(t)) ELSE ErrorType
          [] capture.kind = "*var" ->
                IF Kind(t) = "RawPointer" /\ Name(t) = "mutable" THEN RawPointer("mutable", TargetOf(t)) ELSE ErrorType
CaptureAllowed(S, capture) ==
    LET t == Plain(S, S.locals[capture.source].type) IN
    CASE capture.kind = "value" -> Kind(t) # "RawPointer"
      [] capture.kind = "&" -> TRUE
      [] capture.kind = "&var" ->
            S.locals[capture.source].var \/ (Kind(t) = "Reference" /\ Name(t) = "mutable")
      [] OTHER -> CaptureType(S, capture) # ErrorType

\* check_closure_expression: the body is checked in a context of its own, its
\* result, when not written, is what it returns, or nothing, or never.
ClosureOpen(e, S) ==
    LET captured == FoldLeft(LAMBDA s, c : Bound(Require(s, CaptureAllowed(S, c), "capture"), c.name,
                                                 CaptureType(S, c), FALSE), S, e.info.captures)
        bound == FoldLeft(LAMBDA s, p : Bound(s, p.name, p.type, FALSE), captured, e.info.parameters)
        opened == IF e.info.result = <<>> THEN WithFresh(bound, 1) ELSE bound
    IN  [opened EXCEPT !.context.loop = 0, !.context.defer = 0, !.context.expect = 0, !.context.unsafe = 0,
                       !.context.test = FALSE,
                       !.context.result = IF e.info.result = <<>> THEN Fresh(bound) ELSE e.info.result[1]]
ClosureConclude(e, rs, S0, S) ==
    LET written == At(S, S.context.result)
        inferred == IF rs[1].returns THEN Never ELSE Unit
        unresolved == Kind(written) = "Variable"
        U == Unify(S.bindings, written, inferred)
        T1 == IF unresolved THEN [S EXCEPT !.bindings = U.bindings]
              ELSE Require(S, rs[1].returns \/ Same(S, written, Unit), "closure result")
    IN  Typed(e, rs,
              ClosureType(e.name, [i \in DOMAIN e.info.captures |-> CaptureType(S, e.info.captures[i])],
                          [i \in DOMAIN e.info.parameters |-> e.info.parameters[i].type],
                          At(T1, S.context.result)),
              "Value", Restore(T1, S0))

-----------------------------------------------------------------------------
(* Arrays and collection literals *)

\* The first type of a list of checked values that is not an error.
FirstType(rs) ==
    LET known == SelectSeq(rs, LAMBDA r : r.type # ErrorType) IN
    IF known = <<>> THEN <<>> ELSE <<known[1].type>>
Uniform(S, types) == \A i \in DOMAIN types : \A j \in DOMAIN types :
                        ErrorType \in {types[i], types[j]} \/ Same(S, types[i], types[j])
ResultTypes(rs) == [i \in DOMAIN rs |-> rs[i].type]

\* check_array
ArrayExpectation(expected, S) ==
    LET t == IF expected = <<>> THEN Nil ELSE At(S, expected[1]) IN
    IF Kind(t) \in {"Array", "Slice"} THEN <<TargetOf(t)>> ELSE <<>>
ArrayConclude(e, rs, expected, S0, S) ==
    LET element == FirstType(rs) \o ArrayExpectation(expected, S0) IN
    IF rs = <<>> /\ element = <<>> THEN Typed(e, rs, ErrorType, "Value", Fail(S, "empty array"))
    ELSE Typed(e, rs, ArrayOf(Head(element \o <<ErrorType>>), Len(rs)), "Value",
               Require(S, Uniform(S, ResultTypes(rs)), "elements"))

\* check_macro: vec, set and map; the kids of a map are its keys and values.
CollectionOf == "vec" :> "Vec" @@ "set" :> "Set" @@ "map" :> "Map"
Argument(e, i) == IF e.name = "map" /\ i % 2 = 0 THEN 2 ELSE 1
ExpectedArgument(e, n, expected, S) ==
    LET t == IF expected = <<>> THEN Nil ELSE At(S, expected[1]) IN
    IF Kind(t) = "Builtin" /\ Name(t) = CollectionOf[e.name] THEN <<Children(t)[n]>> ELSE <<>>
ValuesOf(e, n, rs) ==
    LET at == SelectSeq([i \in DOMAIN rs |-> i], LAMBDA i : Argument(e, i) = n) IN [i \in DOMAIN at |-> rs[at[i]]]
KnownArgument(e, n, rs, expected, S) ==
    LET known == ExpectedArgument(e, n, expected, S) \o FirstType(ValuesOf(e, n, rs)) IN
    IF known = <<>> THEN <<>> ELSE <<known[1]>>
CollectionConclude(e, rs, expected, S0, S) ==
    LET arguments == [n \in 1..(IF e.name = "map" THEN 2 ELSE 1) |-> KnownArgument(e, n, rs, expected, S0)]
        types == [n \in DOMAIN arguments |-> IF arguments[n] = <<>> THEN ErrorType ELSE arguments[n][1]]
        uniform == \A n \in DOMAIN types : Uniform(S, <<types[n]>> \o ResultTypes(ValuesOf(e, n, rs)))
    IN  Typed(e, rs, Builtin(CollectionOf[e.name], types), "Value",
              Require(Require(Require(S, uniform, "elements"),
                              rs = <<>> => \A n \in DOMAIN arguments : arguments[n] # <<>>, "empty collection"),
                      e.name = "vec" \/ types[1] = ErrorType \/ Offers(S, types[1], "StableHash"), "stable hash"))

-----------------------------------------------------------------------------
(* Indexing: what is expected of the index is not required of it *)

IndexExpectation(i, rs) ==
    IF i = 1 THEN <<>>
    ELSE LET t == At(rs[1].S, rs[1].type) IN
         CASE Kind(t) = "RawPointer" -> <<Isize>>
           [] Kind(t) \in {"Array", "Slice"} -> <<Primitive("usize")>>
           [] Kind(t) = "Builtin" /\ Name(t) = "Vec" -> <<Primitive("usize")>>
           [] Kind(t) = "Builtin" /\ Name(t) = "Map" -> <<Children(t)[1]>>
           [] OTHER -> <<>>
IndexBefore(i, rs, S) == IF i = 2 /\ KindOf(S, rs[1].type) = "RawPointer" THEN RequireUnsafe(S) ELSE S

\* check_index
IndexPlace(t, base) ==
    CASE Kind(t) = "Slice" -> IF Name(t) = "mutable" THEN "CollectionInterior" ELSE "Value"
      [] Kind(t) = "RawPointer" -> IF Name(t) = "mutable" THEN "RawPointerTarget" ELSE "Value"
      [] OTHER -> IF IsMutable(base) THEN "CollectionInterior" ELSE "Value"
ConstantIndex(e) == e.kids[2].kind = "Literal" /\ e.kids[2].name = "int"
IndexConclude(e, rs, S) ==
    LET t == At(S, rs[1].type)
        place == IndexPlace(t, rs[1].place)
        index == rs[2].type
    IN  CASE Kind(t) = "RawPointer" ->
                IF index # ErrorType /\ ~Same(S, index, Isize) THEN Typed(e, rs, ErrorType, "Value", Fail(S, "pointer index"))
                ELSE IF LocallyNull(e.kids[1]) THEN Typed(e, rs, ErrorType, "Value", Fail(S, "null"))
                ELSE IF TargetOf(t) # ErrorType /\ PointsToData(S, t) THEN Typed(e, rs, TargetOf(t), place, S)
                ELSE Typed(e, rs, ErrorType, "Value", PointerArithmetic(S, t))
          [] Kind(t) = "Array" ->
                Typed(e, rs, TargetOf(t), place,
                      Require(S, ~(ConstantIndex(e) /\ e.kids[2].info.magnitude >= Name(t)), "constant index"))
          [] Kind(t) = "Slice" -> Typed(e, rs, TargetOf(t), place, S)
          [] Kind(t) = "Builtin" /\ Name(t) \in {"Vec", "Map"} -> Typed(e, rs, Last(Children(t)), place, S)
          [] Kind(t) = "Error" -> Typed(e, rs, ErrorType, "Value", S)
          [] OTHER -> Typed(e, rs, ErrorType, "Value", Fail(S, "index"))

-----------------------------------------------------------------------------
(* Construction of structs and variants: the name of the node is the       *)
(* declaration, info [variant, record, labels, arguments]; arguments is    *)
(* <<>> or a sequence of one list of types                                 *)

FieldsOf(name, variant) == SelectSeq(Declaration(name).fields, LAMBDA f : f.variant = variant)
Accessible(S, declaration, public) ==
    public \/ PackageOf(S.context.module) = PackageOf(Declaration(declaration).module)

\* initial_nominal_inference
ConstructVariables(e, S0) ==
    LET parameters == Declaration(e.name).parameters IN
    IF e.info.arguments = <<>> THEN Variables(parameters, Len(S0.bindings))
    ELSE Assigned(parameters, e.info.arguments[1])
ConstructOpen(e, expected, S0) ==
    LET n == Len(Declaration(e.name).parameters)
        V == WithFresh(S0, n)
    IN  IF e.info.arguments # <<>> THEN Require(S0, Len(e.info.arguments[1]) = n, "generic arity")
        ELSE IF expected = <<>> THEN V
        ELSE [V EXCEPT !.bindings = Infer(V, OwnType(e.name), expected[1], ConstructVariables(e, S0)).bindings]

\* The field a value goes to, if there is one: by its label in a record, by its
\* position otherwise.
FieldFor(e, i) ==
    LET fields == FieldsOf(e.name, e.info.variant) IN
    IF e.info.record THEN SelectSeq(fields, LAMBDA f : f.name = e.info.labels[i])
    ELSE IF i <= Len(fields) THEN <<fields[i]>> ELSE <<>>
ConstructExpectation(e, i, S, S0) ==
    IF FieldFor(e, i) = <<>> THEN <<>>
    ELSE <<Substitute(S.bindings, FieldFor(e, i)[1].type, ConstructVariables(e, S0))>>
ConstructAfter(e, i, r, S0) ==
    LET field == FieldFor(e, i)
        U == Infer(r.S, field[1].type, r.type, ConstructVariables(e, S0))
    IN  IF field = <<>> THEN [r EXCEPT !.S = Fail(@, "no such field")]
        ELSE [r EXCEPT !.S = Require(Require([@ EXCEPT !.bindings = U.bindings], U.ok, "field type"),
                                     e.info.record => Accessible(@, e.name, field[1].public), "field access")]

\* check_record_expression, infer_nominal_from_record_fields and
\* infer_nominal_from_positional_fields, with finish_nominal_inference.
ConstructConclude(e, rs, S0, S) ==
    LET parameters == Declaration(e.name).parameters
        variables == ConstructVariables(e, S0)
        fields == FieldsOf(e.name, e.info.variant)
        missing == \E f \in DOMAIN fields : \A i \in DOMAIN rs : FieldFor(e, i) # <<fields[f]>>
        twice == \E i \in DOMAIN rs : \E j \in 1..(i - 1) : FieldFor(e, i) # <<>> /\ FieldFor(e, i) = FieldFor(e, j)
        complete == /\ DOMAIN variables = {parameters[i] : i \in DOMAIN parameters}
                    /\ Inferred(S, parameters, variables)
        T1 == Require(Require(Require(S, ~missing, "missing field"), ~twice, "repeated field"),
                      complete, "inference")
    IN  Typed(e, rs, IF complete THEN Nominal(e.name, InferredArguments(S, parameters, variables)) ELSE ErrorType,
              "Value", T1)

=============================================================================
