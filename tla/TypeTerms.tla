----------------------------- MODULE TypeTerms -----------------------------
(***************************************************************************)
(* Types and their equality (src/types/context.rs).                        *)
(*                                                                         *)
(* A type is <<kind, head, children>>: the head is what two types of one   *)
(* kind must share (a primitive's name, a nominal's declaration, the       *)
(* mutability of a reference, the length of an array), the children are    *)
(* the types below it in the order of type_children.  Interning makes a    *)
(* type and its identity the same thing, so a term stands for both.        *)
(*                                                                         *)
(* The bindings of the inference variables are a sequence of types, Nil    *)
(* where a variable is free; a pass threads it through its steps.  Integer *)
(* types keep their signedness and their order of widths; Bits gives the   *)
(* widths, smaller than the real ones.                                     *)
(***************************************************************************)
EXTENDS Integers, Sequences, FiniteSets, SequencesExt, TLC

CONSTANTS Bits, PointerBits      \* width of i8..u128 but isize and usize; of those two

-----------------------------------------------------------------------------
(* Terms *)

Nil == <<"Nil", "", <<>>>>
ErrorType == <<"Error", "", <<>>>>
Never == <<"Never", "", <<>>>>
Primitive(name) == <<"Primitive", name, <<>>>>
Nominal(declaration, arguments) == <<"Nominal", declaration, arguments>>
Builtin(name, arguments) == <<"Builtin", name, arguments>>
Tuple(elements) == <<"Tuple", "", elements>>
ArrayOf(element, length) == <<"Array", length, <<element>>>>
SliceOf(mutability, element) == <<"Slice", mutability, <<element>>>>
Reference(mutability, target) == <<"Reference", mutability, <<target>>>>
RawPointer(mutability, target) == <<"RawPointer", mutability, <<target>>>>
TraitObject(trait) == <<"TraitObject", "", <<trait>>>>
Parameter(name) == <<"Parameter", name, <<>>>>
SelfOf(trait) == <<"Self", trait, <<>>>>
Variable(n) == <<"Variable", n, <<>>>>
Foreign(declaration, complete) == <<"Foreign", [name |-> declaration, complete |-> complete], <<>>>>
AliasOf(declaration, arguments, target) == <<"Alias", declaration, Append(arguments, target)>>

\* Parameters are sequences of [type, variadic]; a receiver is a sequence of at
\* most one type.
FunctionType(safety, abi, receiver, parameters, result) ==
    <<"Function",
      [safety |-> safety, abi |-> abi, receiver |-> receiver # <<>>,
       variadic |-> [i \in DOMAIN parameters |-> parameters[i].variadic]],
      receiver \o [i \in DOMAIN parameters |-> parameters[i].type] \o <<result>>>>
ClosureType(declaration, captures, parameters, result) ==
    <<"Closure", [name |-> declaration, captures |-> Len(captures)],
      captures \o parameters \o <<result>>>>

Kind(t) == t[1]
Name(t) == t[2]
Children(t) == t[3]
TargetOf(t) == t[3][1]
AliasTarget(t) == Last(t[3])
Result(t) == Last(t[3])
FunctionReceiver(t) == IF t[2].receiver THEN <<t[3][1]>> ELSE <<>>
FunctionParameters(t) ==
    LET shift == IF t[2].receiver THEN 1 ELSE 0 IN
    [i \in DOMAIN t[2].variadic |-> [type |-> t[3][i + shift], variadic |-> t[2].variadic[i]]]
ClosureCaptures(t) == SubSeq(t[3], 1, t[2].captures)
ClosureParameters(t) == SubSeq(t[3], t[2].captures + 1, Len(t[3]) - 1)

Signed == {"i8", "i16", "i32", "i64", "i128", "isize"}
Unsigned == {"u8", "u16", "u32", "u64", "u128", "usize"}
IntegerNames == Signed \cup Unsigned
FloatNames == {"f32", "f64"}
Unit == Primitive("Unit")
Bool == Primitive("bool")

IsInteger(t) == Kind(t) = "Primitive" /\ Name(t) \in IntegerNames
IsFloat(t) == Kind(t) = "Primitive" /\ Name(t) \in FloatNames
IsNumeric(t) == IsInteger(t) \/ IsFloat(t)

-----------------------------------------------------------------------------
(* Bindings *)

\* resolve_inference: the end of the chain of bound variables.
RECURSIVE Resolve(_, _)
Resolve(bindings, t) ==
    IF Kind(t) = "Variable" /\ bindings[Name(t)] # Nil THEN Resolve(bindings, bindings[Name(t)]) ELSE t

\* map_children
MapChildren(t, F(_)) == <<Kind(t), Name(t), [i \in DOMAIN Children(t) |-> F(Children(t)[i])]>>

\* A bound variable is replaced wherever it occurs.
RECURSIVE Deep(_, _)
Deep(bindings, t) == MapChildren(Resolve(bindings, t), LAMBDA u : Deep(bindings, u))

\* expanded: an alias stands for its target, here and below.
RECURSIVE Expanded(_, _)
Unaliased(bindings, r) == IF Kind(r) = "Alias" THEN Expanded(bindings, AliasTarget(r)) ELSE r
Expanded(bindings, t) == Unaliased(bindings, Resolve(bindings, t))

\* any_type: the subterms it visits, the type itself and aliases included.
RECURSIVE Subterms(_, _)
Subterms(bindings, t) ==
    UNION {{r} \cup UNION {Subterms(bindings, Children(r)[i]) : i \in DOMAIN Children(r)} :
               r \in {Resolve(bindings, t)}}

MentionsSelf(b, t) == \E r \in Subterms(b, t) : Kind(r) = "Self"
MentionsParameter(b, t, parameter) == \E r \in Subterms(b, t) : r = Parameter(parameter)
ContainsGeneric(b, t) == \E r \in Subterms(b, t) : Kind(r) \in {"Parameter", "Self", "Variable"}
ContainsManagedReference(b, t) ==
    \E r \in Subterms(b, t) : Kind(r) = "Reference" /\ Kind(TargetOf(r)) # "Function"
ContainsMutableIndirection(b, t) ==
    \E r \in Subterms(b, t) : Kind(r) \in {"Reference", "RawPointer"} /\ Name(r) = "mutable"
ContainsType(b, t, needle) == \E r \in Subterms(b, t) : r = Resolve(b, needle)
ContainsVariable(b, t, n) == \E r \in Subterms(b, t) : r = Variable(n)

\* exactly_equal: structural equality with aliases transparent.
SameShape(left, right) ==
    /\ Kind(left) = Kind(right) /\ Name(left) = Name(right)
    /\ Len(Children(left)) = Len(Children(right))

RECURSIVE Equal(_, _, _)
EqualParts(bindings, l, r) ==
    l = r \/ (SameShape(l, r) /\ \A i \in DOMAIN Children(l) : Equal(bindings, Children(l)[i], Children(r)[i]))
Equal(bindings, left, right) == EqualParts(bindings, Expanded(bindings, left), Expanded(bindings, right))

-----------------------------------------------------------------------------
(* Unification: [ok, type, bindings]; a failed one keeps the variables that *)
(* it bound before the mismatch.                                            *)

Bind(bindings, n, t) ==
    IF ContainsVariable(bindings, t, n) THEN [ok |-> FALSE, type |-> t, bindings |-> bindings]
    ELSE [ok |-> TRUE, type |-> t, bindings |-> [bindings EXCEPT ![n] = t]]

RECURSIVE Unify(_, _, _)
UnifyTerms(bindings, l, r) ==
    CASE l = r \/ ErrorType \in {l, r} ->
            [ok |-> TRUE, type |-> IF l = ErrorType THEN r ELSE l, bindings |-> bindings]
      [] Kind(l) = "Alias" -> Unify(bindings, AliasTarget(l), r)
      [] Kind(r) = "Alias" /\ Kind(l) # "Alias" -> Unify(bindings, l, AliasTarget(r))
      [] Kind(l) = "Variable" /\ Kind(r) # "Alias" -> Bind(bindings, Name(l), r)
      [] Kind(r) = "Variable" /\ Kind(l) \notin {"Alias", "Variable"} -> Bind(bindings, Name(r), l)
      [] OTHER ->
            IF ~SameShape(l, r) THEN [ok |-> FALSE, type |-> l, bindings |-> bindings]
            ELSE FoldLeft(LAMBDA u, i :
                            IF ~u.ok THEN u
                            ELSE [Unify(u.bindings, Children(l)[i], Children(r)[i]) EXCEPT !.type = l],
                          [ok |-> TRUE, type |-> l, bindings |-> bindings],
                          [i \in DOMAIN Children(l) |-> i])
Unify(bindings, left, right) == UnifyTerms(bindings, Resolve(bindings, left), Resolve(bindings, right))

-----------------------------------------------------------------------------
(* Substitution: a function from parameter names to types *)

RECURSIVE Substitute(_, _, _)
SubstituteIn(bindings, r, substitution) ==
    IF Kind(r) = "Parameter"
    THEN IF Name(r) \in DOMAIN substitution THEN substitution[Name(r)] ELSE r
    ELSE MapChildren(r, LAMBDA u : Substitute(bindings, u, substitution))
Substitute(bindings, t, substitution) == SubstituteIn(bindings, Resolve(bindings, t), substitution)

RECURSIVE SubstituteSelf(_, _, _)
SubstituteSelfIn(bindings, r, target) ==
    IF Kind(r) = "Self" THEN target ELSE MapChildren(r, LAMBDA u : SubstituteSelf(bindings, u, target))
SubstituteSelf(bindings, t, target) == SubstituteSelfIn(bindings, Resolve(bindings, t), target)

\* What comes of a sequence of at most one.
Then(option, F(_)) == IF option = <<>> THEN <<>> ELSE F(option[1])
Sole(sequence) == IF sequence = <<>> THEN <<>> ELSE <<sequence[1]>>

\* The arguments of a declaration, by the names of its parameters.
Assigned(parameters, arguments) ==
    LET n == IF Len(parameters) < Len(arguments) THEN Len(parameters) ELSE Len(arguments)
    IN  [p \in {parameters[i] : i \in 1..n} |->
            arguments[CHOOSE i \in 1..n : parameters[i] = p]]

-----------------------------------------------------------------------------
(* Literals.  An expected type is a sequence of at most one type.           *)

Width(name) == IF name \in {"isize", "usize"} THEN PointerBits ELSE Bits[name]

\* integer_fits: for floats and everything else there is no range.
IntegerFits(name, magnitude, negative) ==
    /\ name \in IntegerNames /\ (negative => name \in Signed)
    /\ IF name \in Unsigned THEN magnitude < 2 ^ Width(name)
       ELSE IF negative THEN magnitude <= 2 ^ (Width(name) - 1)
       ELSE magnitude < 2 ^ (Width(name) - 1)

Fits(name, value) == IntegerFits(name, IF value < 0 THEN -value ELSE value, value < 0)

\* expected_numeric: the primitive an expected type gives a literal, if any.
ExpectedNumeric(bindings, expected, integer) ==
    LET e == IF expected = <<>> THEN Nil ELSE Expanded(bindings, expected[1])
    IN  IF IsFloat(e) \/ (integer /\ IsInteger(e)) THEN <<Name(e)>> ELSE <<>>

\* materialize_integer: the type of the literal, ErrorType when it has none.
MaterializeInteger(bindings, magnitude, suffix, negative, expected) ==
    LET name == Head(suffix \o ExpectedNumeric(bindings, expected, TRUE) \o <<"i32">>)
    IN  IF name \in FloatNames \/ IntegerFits(name, magnitude, negative)
        THEN Primitive(name) ELSE ErrorType

\* materialize_float
MaterializeFloat(bindings, suffix, expected) ==
    LET name == Head(suffix \o ExpectedNumeric(bindings, expected, FALSE) \o <<"f64">>)
    IN  IF name \in FloatNames THEN Primitive(name) ELSE ErrorType

\* materialize_string
MaterializeString(bindings, expected) ==
    IF expected = <<>> THEN Primitive("str")
    ELSE LET e == Expanded(bindings, expected[1]) IN
         IF e \in {Primitive("str"), Primitive("String")} THEN e ELSE ErrorType
=============================================================================
