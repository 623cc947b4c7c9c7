------------------------------ MODULE CallRules ------------------------------
(***************************************************************************)
(* Checking calls and members (src/check/calls.rs).                        *)
(*                                                                         *)
(* A call is checked in three steps: its callee is selected, each argument *)
(* is checked against the parameter it goes to, and the call is concluded. *)
(* A callee is                                                             *)
(*   [form, mode, target, parameters, result, variables, adjustment,       *)
(*    unsafe, rule]                                                        *)
(* mode says how an argument meets its parameter: it must be compatible    *)
(* ("check"), it binds the inference variables of the callee ("infer"), it *)
(* is only expected to have its type ("standard"), or there is no callee   *)
(* ("none", and rule says why, "" when nothing is reported).               *)
(*                                                                         *)
(* Nodes of kind "Call" name a function (info [arguments, receiver, self]: *)
(* explicit generic arguments, whether the receiver is the first argument, *)
(* and the type Self stands for), "TypeCall" a member of a type (info      *)
(* [owner, arguments]), "NewCall" a constructor of a standard type (info),  *)
(* "Convert" a numeric conversion (info the primitive), "Print", "Spawn"   *)
(* and "Channel" (info the type) the builtin functions.  The first kid of  *)
(* a "ValueCall" is the value called, of a "MethodCall" and a "Member" the *)
(* value the name is looked up in.                                         *)
(***************************************************************************)
EXTENDS ExpressionRules

Selected(form, mode, target, parameters, result) ==
    [form |-> form, mode |-> mode, target |-> target, parameters |-> parameters, result |-> result,
     variables |-> <<>>, adjustment |-> "", unsafe |-> FALSE, rule |-> "", mutable |-> FALSE]
NoCallee(rule) == [Selected("none", "none", <<>>, <<>>, ErrorType) EXCEPT !.rule = rule]

\* What a selection reports at once.
Reporting(S, c) ==
    CASE c.rule = "" -> S [] c.rule = "unsafe required" -> RequireUnsafe(S) [] OTHER -> Fail(S, c.rule)

Function(f) == program.functions[f]
\* declaration_signature_is_unsafe
UnsafeFunction(f) == Function(f).foreign \/ Function(f).safety = "unsafe"

-----------------------------------------------------------------------------
(* Arguments *)

VariadicCallee(c) == c.parameters # <<>> /\ Last(c.parameters).variadic
Fixed(c) == Len(c.parameters) - (IF VariadicCallee(c) THEN 1 ELSE 0)

\* The parameter the j-th argument goes to, if there is one.
ParameterFor(c, j) ==
    IF j <= Fixed(c) THEN <<c.parameters[j].type>>
    ELSE IF VariadicCallee(c) THEN <<Last(c.parameters).type>> ELSE <<>>

\* check_call_arguments and check_standard_arguments: the arity.
ArityHolds(c, n) == c.mode = "none" \/ (IF VariadicCallee(c) THEN n >= Fixed(c) ELSE n = Fixed(c))

ArgumentExpectation(c, j, S) ==
    LET parameter == ParameterFor(c, j) IN
    IF c.mode = "infer" /\ parameter # <<>> THEN <<Substitute(S.bindings, parameter[1], c.variables)>>
    ELSE parameter

\* check_call_arguments: what each argument must satisfy.
\* Faulty variant: an argument is not compared with its parameter.
ArgumentAfter_Unchecked(c, j, r) == r
ArgumentAfter(c, j, r) ==
    LET parameter == ParameterFor(c, j)
        U == Infer(r.S, parameter[1], r.type, c.variables)
    IN  IF parameter = <<>> \/ c.mode \in {"none", "standard"} THEN r
        ELSE IF c.mode = "infer"
        THEN [r EXCEPT !.S = Require([@ EXCEPT !.bindings = U.bindings], U.ok, "argument")]
        ELSE [r EXCEPT !.S = Require(@, Compatible(@, r.type, parameter[1]), "argument")]

-----------------------------------------------------------------------------
(* Named functions *)

\* is_drop_method
DropMethod(f) ==
    \E k \in DOMAIN program.impls :
        /\ program.impls[k].trait # Nil /\ TraitName(program.impls[k].trait) = "Drop"
        /\ "drop" \in DOMAIN program.impls[k].methods /\ program.impls[k].methods["drop"] = f

\* The parameters of a call that names the function: the receiver first, when
\* the function was selected from its type.
CallParameters(signature, receiver) ==
    (IF receiver THEN Ordinary(signature.receiver) ELSE <<>>) \o signature.arguments

\* check_function_call: the callee.  Explicit arguments must be complete and
\* satisfy the obligations; otherwise the arguments are inferred.
NamedCallee(f, info, S0) ==
    LET parameters == Function(f).parameters
        explicit == info.arguments
        given == Instance(f, IF explicit = <<>> THEN <<>> ELSE explicit[1], info.self)
        own == Function(f)
        Self(type) == IF info.self = Nil THEN type ELSE SubstituteSelf(S0.bindings, type, info.self)
        template == [receiver |-> [i \in DOMAIN own.receiver |-> Self(own.receiver[i])],
                     arguments |-> [i \in DOMAIN own.arguments |->
                                       [own.arguments[i] EXCEPT !.type = Self(own.arguments[i].type)]]]
        Direct(signature) ==
            [Selected("Direct", "check", given, CallParameters(signature, info.receiver), signature.result)
                EXCEPT !.unsafe = UnsafeFunction(f)]
    IN  IF explicit # <<>>
        THEN IF Len(explicit[1]) # Len(parameters) THEN NoCallee("generic arity")
             ELSE IF ~ObligationsHold(S0, [given EXCEPT !.self = Nil]) THEN NoCallee("obligation")
             ELSE Direct(InstanceSignature(S0, given))
        ELSE IF parameters = <<>> THEN Direct(InstanceSignature(S0, given))
        ELSE [Selected("Direct", "infer", given, CallParameters(template, info.receiver), Self(own.result))
                EXCEPT !.variables = Variables(parameters, Len(S0.bindings)), !.unsafe = UnsafeFunction(f)]

\* The result the context expects is inferred first; a mismatch is found later.
NamedOpen(f, c, expected, S0) ==
    LET V == Reporting(WithFresh(S0, IF c.mode = "infer" THEN Len(Function(f).parameters) ELSE 0), c)
        T1 == Require(V, ~DropMethod(f), "explicit drop")
    IN  IF c.mode = "infer" /\ expected # <<>>
        THEN [T1 EXCEPT !.bindings = Infer(V, c.result, expected[1], c.variables).bindings] ELSE T1

\* Concluding a call whose callee infers: the instance, its obligations, its
\* result.
Concrete(c, S) ==
    Instance(c.target.function, InferredArguments(S, Function(c.target.function).parameters, c.variables),
             c.target.self)
ExpectedResult(S, c, result, expected) ==
    c.mode = "infer" \/ c.target.arguments # <<>> =>
        \/ expected = <<>> \/ IsObjectReference(S, expected[1])
        \/ Compatible(S, result, expected[1])
CallNode(c, instance) ==
    [form |-> c.form, target |-> instance, unsafe |-> c.unsafe, adjustment |-> c.adjustment]

\* check_function_call: the conclusion.
Unsolved(c, S) == c.mode = "infer" /\ ~Inferred(S, Function(c.target.function).parameters, c.variables)
CalleeInstance(c, S) == IF c.mode = "infer" THEN Concrete(c, S) ELSE c.target
NamedResult(e, c, rs, expected, S, instance, result) ==
    Checked(e, rs, result, "Value", FALSE,
            Require(S, ExpectedResult(S, c, result, expected), "call result"), CallNode(c, instance))
NamedConclude(e, c, rs, expected, S) ==
    LET arity == Require(S, ArityHolds(c, Len(rs)), "arity")
        Of(instance) ==
            IF c.mode = "infer" /\ ~ObligationsHold(S, instance)
            THEN Typed(e, rs, ErrorType, "Value", Fail(arity, "obligation"))
            ELSE NamedResult(e, c, rs, expected, arity, instance, InstanceSignature(S, instance).result)
    IN  IF c.mode = "none" THEN Typed(e, rs, ErrorType, "Value", S)
        ELSE IF Unsolved(c, S) THEN Typed(e, rs, ErrorType, "Value", Fail(arity, "inference"))
        ELSE Of(CalleeInstance(c, S))

TraitsInScope(S) == program.visible[S.context.module]

\* check_member_call on a type: a derived default, an associated function of an
\* inherent block, or one of a trait in scope.
NamesField(owner, name) == \E i \in DOMAIN Declaration(owner).fields : Declaration(owner).fields[i].name = name
SelectedOnType(e, inherent, traits) ==
    LET As(found, arguments, self) == <<[function |-> found.function, arguments |-> arguments,
                                         receiver |-> TRUE, self |-> self]>>
    IN  IF inherent # <<>>
        THEN As(inherent[1], IF e.info.arguments = <<>> THEN <<>> ELSE <<inherent[1].arguments>>, Nil)
        ELSE IF NamesField(e.info.owner, e.name) \/ Len(traits) # 1 THEN <<>>
        ELSE As(traits[1], e.info.arguments, traits[1].self)
TypeSelection(e, S0) ==
    LET target == IF e.info.arguments = <<>> THEN OwnType(e.info.owner) ELSE Nominal(e.info.owner, e.info.arguments[1])
    IN  SelectedOnType(e, SelectInherent(target, e.name), SelectTrait(target, e.name, TraitsInScope(S0)))
DerivedDefault(e) == /\ e.kind = "TypeCall" /\ e.name = "default"
                     /\ DerivesOrIntrinsic(e.info.owner, "Default")
DefaultVariables(e, S0) ==
    ConstructVariables([name |-> e.info.owner, info |-> e.info], S0)
DefaultOpen(e, expected, S0) ==
    ConstructOpen([name |-> e.info.owner, info |-> e.info], expected, S0)
DefaultConclude(e, rs, S0, S) ==
    LET parameters == Declaration(e.info.owner).parameters
        variables == DefaultVariables(e, S0)
        complete == /\ DOMAIN variables = {parameters[i] : i \in DOMAIN parameters}
                    /\ Inferred(S, parameters, variables)
        type == Nominal(e.info.owner, InferredArguments(S, parameters, variables))
    IN  IF rs # <<>> THEN Typed(e, rs, ErrorType, "Value", Fail(S, "arity"))
        ELSE IF ~complete THEN Typed(e, rs, ErrorType, "Value", Fail(S, "inference"))
        ELSE IF ~Offers(S, type, "Default") THEN Typed(e, rs, ErrorType, "Value", Fail(S, "default"))
        ELSE Typed(e, rs, type, "Value", S)

-----------------------------------------------------------------------------
(* Operations of the standard types: parameters, result, whether the        *)
(* receiver must be a mutable place, whether the call needs unsafe          *)

OptionOf(type) == Nominal("Option", <<type>>)
ResultOf(type, error) == Nominal("Result", <<type, Nominal(error, <<>>)>>)
Usize == Primitive("usize")
AtomicValue == "AtomicBool" :> Bool @@ "AtomicI32" :> Primitive("i32") @@ "AtomicUsize" :> Usize

Operation(parameters, result) ==
    [Selected("Standard", "standard", <<>>, Ordinary(parameters), result) EXCEPT !.mutable = FALSE]
Mutating(parameters, result) == [Operation(parameters, result) EXCEPT !.mutable = TRUE]

\* The operations of each standard type with the value x it holds (and the key k
\* of a map); <<>> when there is none of that name.
VecCall(method, x) ==
    CASE method = "len" -> <<Operation(<<>>, Usize)>>
      [] method = "is_empty" -> <<Operation(<<>>, Bool)>>
      [] method = "get" -> <<Operation(<<Usize>>, OptionOf(Reference("shared", x)))>>
      [] method = "get_var" -> <<Mutating(<<Usize>>, OptionOf(Reference("mutable", x)))>>
      [] method = "append" -> <<Mutating(<<x>>, Unit)>>
      [] method = "insert" -> <<Mutating(<<Usize, x>>, Unit)>>
      [] method = "remove" -> <<Mutating(<<Usize>>, x)>>
      [] method = "pop" -> <<Mutating(<<>>, OptionOf(x))>>
      [] method = "clear" -> <<Mutating(<<>>, Unit)>>
      [] OTHER -> <<>>
MapCall(method, k, x) ==
    LET key == Reference("shared", k) IN
    CASE method = "len" -> <<Operation(<<>>, Usize)>>
      [] method = "is_empty" -> <<Operation(<<>>, Bool)>>
      [] method = "contains_key" -> <<Operation(<<key>>, Bool)>>
      [] method = "get" -> <<Operation(<<key>>, OptionOf(Reference("shared", x)))>>
      [] method = "get_var" -> <<Mutating(<<key>>, OptionOf(Reference("mutable", x)))>>
      [] method = "insert" -> <<Mutating(<<k, x>>, OptionOf(x))>>
      [] method = "remove" -> <<Mutating(<<key>>, OptionOf(x))>>
      [] method = "clear" -> <<Mutating(<<>>, Unit)>>
      [] OTHER -> <<>>
SetCall(method, x) ==
    CASE method = "len" -> <<Operation(<<>>, Usize)>>
      [] method = "is_empty" -> <<Operation(<<>>, Bool)>>
      [] method = "contains" -> <<Operation(<<Reference("shared", x)>>, Bool)>>
      [] method = "insert" -> <<Mutating(<<x>>, Bool)>>
      [] method = "remove" -> <<Mutating(<<Reference("shared", x)>>, Bool)>>
      [] method = "clear" -> <<Mutating(<<>>, Unit)>>
      [] OTHER -> <<>>
StoreCall(method, x) ==
    LET handle == Builtin("Handle", <<x>>) IN
    CASE method = "len" -> <<Operation(<<>>, Usize)>>
      [] method = "is_empty" -> <<Operation(<<>>, Bool)>>
      [] method = "insert" -> <<Mutating(<<x>>, handle)>>
      [] method = "get" -> <<Operation(<<handle>>, Reference("shared", x))>>
      [] method = "get_var" -> <<Mutating(<<handle>>, Reference("mutable", x))>>
      [] method = "remove" -> <<Mutating(<<handle>>, x)>>
      [] method \in {"compact", "clear"} -> <<Mutating(<<>>, Unit)>>
      [] OTHER -> <<>>
SharedCall(name, method, x) ==
    CASE name = "Shared" /\ method = "get" -> <<Operation(<<>>, Reference("shared", x))>>
      [] name = "Shared" /\ method = "downgrade" -> <<Operation(<<>>, Builtin("Weak", <<x>>))>>
      [] name = "Weak" /\ method = "upgrade" -> <<Operation(<<>>, OptionOf(Builtin("Shared", <<x>>)))>>
      [] OTHER -> <<>>
BoxCall(name, method, x) ==
    CASE name = "Box" /\ method = "pointer" -> <<Operation(<<>>, RawPointer("shared", x))>>
      [] name = "Box" /\ method = "pointer_var" -> <<Mutating(<<>>, RawPointer("mutable", x))>>
      [] name = "Box" /\ method = "into_raw" -> <<Operation(<<>>, RawPointer("mutable", x))>>
      [] name = "MaybeUninit" /\ method = "pointer" ->
            <<[Mutating(<<>>, RawPointer("mutable", x)) EXCEPT !.rule = IF AbiSafe(x, {}) THEN "" ELSE "abi"]>>
      [] name = "MaybeUninit" /\ method = "assume_init" -> <<[Operation(<<>>, x) EXCEPT !.rule = "unsafe required"]>>
      [] OTHER -> <<>>
ThreadCall(name, method, x) ==
    CASE name \in {"Thread", "ScopedThread"} /\ method = "join" -> <<Operation(<<>>, x)>>
      [] name = "Thread" /\ method = "is_finished" -> <<Operation(<<>>, Bool)>>
      [] OTHER -> <<>>
EndpointCall(name, method, x) ==
    CASE name = "Sender" /\ method = "send" -> <<Operation(<<x>>, ResultOf(Unit, "SendError"))>>
      [] name = "Sender" /\ method = "try_send" -> <<Operation(<<x>>, ResultOf(Unit, "TrySendError"))>>
      [] name = "Receiver" /\ method = "receive" -> <<Operation(<<>>, OptionOf(x))>>
      [] name = "Receiver" /\ method = "try_receive" -> <<Operation(<<>>, ResultOf(x, "TryReceiveError"))>>
      [] name \in {"Sender", "Receiver"} /\ method = "close" -> <<Operation(<<>>, Unit)>>
      [] OTHER -> <<>>
MutexCall(name, method, x) ==
    CASE name = "Mutex" /\ method = "lock" -> <<Operation(<<>>, Builtin("MutexGuard", <<x>>))>>
      [] name = "MutexGuard" /\ method = "get" -> <<Operation(<<>>, Reference("shared", x))>>
      [] name = "MutexGuard" /\ method = "get_var" -> <<Operation(<<>>, Reference("mutable", x))>>
      [] OTHER -> <<>>
AtomicCall(name, method) ==
    LET v == AtomicValue[name] IN
    CASE method = "load" -> <<Operation(<<>>, v)>>
      [] method = "store" -> <<Operation(<<v>>, Unit)>>
      [] method = "exchange" -> <<Operation(<<v>>, v)>>
      [] method = "compare_exchange" -> <<Operation(<<v, v>>, Bool)>>
      [] method \in {"fetch_add", "fetch_sub"} /\ name # "AtomicBool" -> <<Operation(<<v>>, v)>>
      [] OTHER -> <<>>
FileCall(name, method) ==
    LET bytes == Builtin("Vec", <<Primitive("u8")>>) IN
    CASE name = "File" /\ method = "read_to_end" -> <<Mutating(<<>>, ResultOf(bytes, "IoError"))>>
      [] name = "File" /\ method = "write_all" ->
            <<Mutating(<<SliceOf("shared", Primitive("u8"))>>, ResultOf(Unit, "IoError"))>>
      [] name = "File" /\ method = "metadata" ->
            <<Operation(<<>>, ResultOf(Nominal("Metadata", <<>>), "IoError"))>>
      [] name \in {"File", "Directory"} /\ method = "close" -> <<Operation(<<>>, Unit)>>
      [] name = "Directory" /\ method = "next" ->
            <<Mutating(<<>>, ResultOf(OptionOf(Nominal("DirectoryEntry", <<>>)), "IoError"))>>
      [] OTHER -> <<>>

\* standard_receiver_call; clone is left to OwnershipFacts.
BuiltinCall(name, method, arguments) ==
    LET x == IF arguments = <<>> THEN ErrorType ELSE Last(arguments) IN
    CASE name = "Vec" -> VecCall(method, x)
      [] name = "Map" -> MapCall(method, arguments[1], x)
      [] name = "Set" -> SetCall(method, x)
      [] name = "Store" -> StoreCall(method, x)
      [] name \in {"Shared", "Weak"} -> SharedCall(name, method, x)
      [] name \in {"Box", "MaybeUninit"} -> BoxCall(name, method, x)
      [] name \in {"Thread", "ScopedThread"} -> ThreadCall(name, method, x)
      [] name \in {"Sender", "Receiver"} -> EndpointCall(name, method, x)
      [] name \in {"Mutex", "MutexGuard"} -> MutexCall(name, method, x)
      [] name \in DOMAIN AtomicValue -> AtomicCall(name, method)
      [] name \in {"File", "Directory"} -> FileCall(name, method)
      [] OTHER -> <<>>
StandardReceiver(S, type, method) ==
    LET t == Plain(S, type)
        f == IF Kind(t) = "Reference" /\ Name(t) = "mutable" THEN At(S, TargetOf(t)) ELSE Nil
    IN  CASE f = Builtin("Formatter", <<>>) /\ method = "write" -> <<Operation(<<Primitive("str")>>, Unit)>>
          [] Kind(t) \in {"Slice", "Array"} /\ method = "len" -> <<Operation(<<>>, Usize)>>
          [] Kind(t) = "Array" /\ method = "get" -> <<Operation(<<Usize>>, OptionOf(Children(t)[1]))>>
          [] Kind(t) = "Builtin" -> BuiltinCall(Name(t), method, Children(t))
          [] OTHER -> <<>>

\* standard_collection_selection: a type whose arguments are not all given is
\* the expected one, when that has the same name.
NewSelection(e, expected, S) ==
    LET t == e.info
        other == IF expected = <<>> THEN Nil ELSE At(S, expected[1])
    IN  IF /\ \E i \in DOMAIN Children(t) : Children(t)[i] = ErrorType
           /\ Kind(other) = "Builtin" /\ Name(other) = Name(t)
        THEN other ELSE t

\* check_member_call on a builtin type: its constructors.
Constructs(type, parameters, rule) == [Operation(parameters, type) EXCEPT !.rule = rule]
HandleNew(t) ==
    Constructs(t, IF Name(t) = "Mutex" THEN <<Children(t)[1]>> ELSE <<AtomicValue[Name(t)]>>, "")
CollectionNew(t, name, S) ==
    LET x == IF Children(t) = <<>> THEN ErrorType ELSE Children(t)[1]
        hashed == IF Offers(S, x, "StableHash") THEN "" ELSE "stable hash"
    IN  CASE Name(t) = "Vec" -> Constructs(t, <<>>, "")
          [] Name(t) \in {"Map", "Set"} -> Constructs(t, <<>>, hashed)
          [] Name(t) = "Store" /\ name = "new" -> Constructs(t, <<>>, "")
          [] Name(t) = "MaybeUninit" /\ name = "new" ->
                Constructs(t, <<>>, IF AbiSafe(x, {}) THEN "" ELSE "abi")
          [] Name(t) \in {"Box", "Shared"} /\ name = "new" -> Constructs(t, <<x>>, "")
          [] OTHER -> NoCallee("collection new")
TextCallee(name) ==
    IF name = "from" THEN Constructs(Primitive("String"), <<Primitive("str")>>, "")
    ELSE NoCallee("no associated function")
RawBox(t) == Constructs(t, <<RawPointer("mutable", Children(t)[1])>>, "unsafe required")
IdentityOf(t) ==
    Constructs(t, Children(t), IF Kind(Children(t)[1]) = "Reference" THEN "" ELSE "identity")
NewCallee(e, expected, S) ==
    LET t == e.info IN
    CASE Kind(t) = "Primitive" /\ e.name = "default" -> Constructs(t, <<>>, "")
      [] t = Primitive("String") /\ e.name # "default" -> TextCallee(e.name)
      [] t # Primitive("String") /\ e.name = "from" -> IdentityOf(t)
      [] e.name = "from_raw" -> RawBox(t)
      [] e.name = "new" /\ Name(t) \in {"Mutex"} \cup DOMAIN AtomicValue -> HandleNew(t)
      [] OTHER -> CollectionNew(NewSelection(e, expected, S), e.name, S)

-----------------------------------------------------------------------------
(* Methods: what a name selects on a value *)

\* check_receiver_adjustment: how the value becomes the receiver, "" when it
\* cannot.
\* Faulty variant: any place can be borrowed mutably.
Adjustment_AnyPlace(S, actual, place, expected) ==
    LET a == At(S, actual)
        e == Plain(S, expected)
        target == IF Kind(a) = "Reference" THEN TargetOf(a) ELSE ErrorType
    IN  IF Kind(e) = "Reference" /\ Same(S, a, TargetOf(e))
        THEN IF Name(e) = "mutable" THEN "borrow mutable" ELSE "borrow shared"
        ELSE IF Kind(e) = "Reference" /\ Same(S, target, TargetOf(e)) THEN "pass"
        ELSE IF Same(S, a, e) THEN "copy" ELSE ""
Adjustment(S, actual, place, expected) ==
    LET a == At(S, actual)
        e == Plain(S, expected)
        target == IF Kind(a) = "Reference" THEN TargetOf(a) ELSE Nil
    IN  CASE Kind(e) \in {"Nominal", "Parameter"} ->
                IF Same(S, a, e) THEN "copy"
                ELSE IF target # Nil /\ Same(S, target, e) THEN "dereference" ELSE ""
          [] Kind(e) = "Reference" ->
                IF Same(S, a, TargetOf(e))
                THEN IF Name(e) = "mutable" THEN IF IsMutable(place) THEN "borrow mutable" ELSE ""
                     ELSE IF PermitsSafeReference(place) THEN "borrow shared" ELSE ""
                ELSE IF target # Nil /\ Same(S, target, TargetOf(e)) /\ Name(e) \in {Name(a), "shared"}
                THEN "pass" ELSE ""
          [] Kind(e) = "RawPointer" -> IF Same(S, a, e) THEN "pass" ELSE ""
          [] OTHER -> ""

\* receiver_owner: the nominal a receiver is, or refers to.
RECURSIVE ReceiverOwner(_, _)
ReceiverOwner(S, type) ==
    LET t == At(S, type) IN
    CASE Kind(t) = "Nominal" -> <<t>>
      [] Kind(t) \in {"Reference", "RawPointer"} ->
            IF KindOf(S, TargetOf(t)) = "Nominal" THEN <<At(S, TargetOf(t))>> ELSE <<>>
      [] Kind(t) = "Alias" -> ReceiverOwner(S, AliasTarget(t))
      [] OTHER -> <<>>

\* generic_receiver_target, self_receiver_trait
RECURSIVE GenericReceiver(_, _)
GenericReceiver(S, type) ==
    LET t == At(S, type) IN
    CASE Kind(t) = "Parameter" -> <<t>>
      [] Kind(t) \in {"Reference", "RawPointer"} -> GenericReceiver(S, TargetOf(t))
      [] Kind(t) = "Alias" -> GenericReceiver(S, AliasTarget(t))
      [] OTHER -> <<>>
SelfTrait(S, type) ==
    LET t == At(S, type)
        target == IF Kind(t) = "Reference" THEN At(S, TargetOf(t)) ELSE t
    IN  IF Kind(target) = "Self" THEN <<Name(target)>> ELSE <<>>

\* check_dynamic_call, check_trait_self_call: a method of the trait as declared.
TraitCallee(form, trait, method) ==
    LET f == TraitMethod(trait, method)[1].function IN
    IF TraitMethod(trait, method) = <<>> THEN NoCallee("no method")
    ELSE [Selected(form, "check", Instance(f, <<>>, Nil), Function(f).arguments, Function(f).result)
            EXCEPT !.unsafe = UnsafeFunction(f)]

\* check_numeric_alternative
NumericAlternatives ==
    {"checked_add", "checked_sub", "checked_mul", "checked_div", "checked_rem", "checked_neg", "checked_shl",
     "checked_shr", "wrapping_add", "wrapping_sub", "wrapping_mul", "wrapping_div", "wrapping_rem",
     "wrapping_neg", "wrapping_shl", "wrapping_shr", "saturating_add", "saturating_sub", "saturating_mul"}
CheckedAlternatives == {"checked_add", "checked_sub", "checked_mul", "checked_div", "checked_rem", "checked_neg",
                        "checked_shl", "checked_shr"}
AlternativeCallee(method, type) ==
    Selected("Numeric", "check", <<>>,
             IF method \in {"checked_neg", "wrapping_neg"} THEN <<>> ELSE Ordinary(<<type>>),
             IF method \in CheckedAlternatives THEN OptionOf(type) ELSE type)

\* check_member_call on a generic parameter: the bounds in scope that have the
\* method; Self is the parameter.  A method called through a bound is not among
\* the calls that can be unsafe.
BoundCallee(S, r, parameter, method) ==
    LET has == SelectSeq(Bounds(Name(parameter)),
                         LAMBDA b : IsDeclaredTrait(b) /\ Name(b) \in TraitsInScope(S)
                                    /\ TraitMethod(Name(b), method) # <<>>)
        f == TraitMethod(Name(has[1]), method)[1].function
        instance == Instance(f, Children(has[1]), parameter)
        signature == InstanceSignature(S, instance)
        adjustment == Adjustment(S, r.type, r.place, signature.receiver[1])
    IN  IF Len(has) > 1 THEN NoCallee("ambiguous")
        ELSE IF has = <<>> THEN NoCallee("no method")
        ELSE IF signature.receiver = <<>> THEN NoCallee("associated")
        ELSE IF adjustment = "" THEN NoCallee("receiver")
        ELSE [Selected("GenericBound", "check", instance, signature.arguments, signature.result)
                EXCEPT !.adjustment = adjustment]

\* function_value_is_unsafe
FunctionUnsafe(S, type) ==
    LET t == Plain(S, type) IN
    Kind(t) = "RawPointer" \/ Name(FunctionSignature(S, t)[1]).safety = "unsafe"
IndirectCallee(S, type) ==
    LET f == FunctionSignature(S, type)[1] IN
    [Selected("Indirect", "check", <<>>, FunctionParameters(f), Result(f)) EXCEPT !.unsafe = FunctionUnsafe(S, type)]

\* check_member_call on any other value: a field that holds a function (its
\* declared type), a method of an inherent block, or one of a trait in scope.
MethodCallee(S, r, method) ==
    LET owner == ReceiverOwner(S, r.type)
        self == IF owner = <<>> THEN r.type ELSE owner[1]
        fields == IF owner = <<>> THEN <<>>
                  ELSE SelectSeq(Declaration(Name(self)).fields, LAMBDA f : f.name = method /\ f.variant = "")
        Of(found) ==
            LET f == Function(found.function) IN
            IF f.receiver = <<>> THEN NoCallee("associated")
            ELSE [Selected("Bound", "infer", Instance(found.function, <<>>, found.self), f.arguments, f.result)
                    EXCEPT !.variables = Variables(f.parameters, Len(S.bindings)),
                           !.unsafe = UnsafeFunction(found.function),
                           !.rule = IF found.trait # Nil \/ f.public
                                       \/ PackageOf(f.module) = PackageOf(S.context.module)
                                    THEN "" ELSE "method access"]
        Among(inherent, traits) ==
            IF inherent # <<>> THEN Of(inherent[1])
            ELSE IF method = "drop" /\ Offers(S, self, "Drop") THEN NoCallee("explicit drop")
            ELSE IF traits = <<>> THEN NoCallee("no method")
            ELSE IF Len(traits) > 1 THEN NoCallee("ambiguous") ELSE Of(traits[1])
        Field(field) ==
            IF FunctionSignature(S, field.type) = <<>> THEN NoCallee("not callable")
            ELSE [IndirectCallee(S, field.type)
                    EXCEPT !.rule = IF Accessible(S, Name(self), field.public) THEN "" ELSE "field access"]
    IN  IF fields # <<>> THEN Field(fields[1])
        ELSE Among(SelectInherent(Deep(S.bindings, self), method),
                   SelectTrait(Deep(S.bindings, self), method, TraitsInScope(S)))

\* check_member_call: the order in which a member of a value is looked up.
MemberCallee(S, r, method) ==
    LET t == At(S, r.type)
        Standard1(c) == IF c.mutable /\ ~IsMutable(r.place) THEN [c EXCEPT !.rule = "mutable receiver"] ELSE c
        Other ==
            IF ObjectTrait(t) # <<>> THEN TraitCallee("Dynamic", ObjectTrait(t)[1], method)
            ELSE IF SelfTrait(S, t) # <<>> THEN TraitCallee("TraitSelf", SelfTrait(S, t)[1], method)
            ELSE IF IsInteger(Plain(S, t)) /\ method \in NumericAlternatives THEN AlternativeCallee(method, r.type)
            ELSE IF GenericReceiver(S, t) # <<>> THEN BoundCallee(S, r, GenericReceiver(S, t)[1], method)
            ELSE MethodCallee(S, r, method)
        First(standard) == IF standard # <<>> THEN Standard1(standard[1]) ELSE Other
    IN  First(StandardReceiver(S, t, method))

\* A method's own parameters are inferred from the receiver and the expected
\* result before the arguments; a mismatch is found by the receiver.
MethodOpen(c, r, expected) ==
    LET f == Function(c.target.function)
        owner == ReceiverOwner(r.S, r.type)
        V == WithFresh(r.S, Len(f.parameters))
        receiver == f.receiver[1]
        template == IF Kind(receiver) \in {"Reference", "RawPointer"} THEN TargetOf(receiver) ELSE receiver
        U == Infer(V, template, IF owner = <<>> THEN r.type ELSE owner[1], c.variables)
        W == [V EXCEPT !.bindings = U.bindings]
        X == IF expected = <<>> THEN W
             ELSE [W EXCEPT !.bindings = Infer(W, f.result, expected[1], c.variables).bindings]
    IN  Reporting(IF c.form = "Bound" THEN X ELSE r.S, c)

\* check_member_call: the conclusion; the first result is the receiver's.
MethodConclude(e, c, rs, S) ==
    LET arity == Require(S, ArityHolds(c, Len(rs) - 1), "arity")
        Wrong(rule) == Typed(e, rs, ErrorType, "Value", Fail(arity, rule))
        With1(instance, signature, adjustment) ==
            IF adjustment = "" THEN Wrong("receiver")
            ELSE Checked(e, rs, signature.result, "Value", FALSE, arity,
                         CallNode([c EXCEPT !.adjustment = adjustment], instance))
        Signed1(instance, signature) ==
            With1(instance, signature, Adjustment(S, rs[1].type, rs[1].place, signature.receiver[1]))
        Of(instance) == IF ~ObligationsHold(S, instance) THEN Wrong("obligation")
                        ELSE Signed1(instance, InstanceSignature(S, instance))
    IN  CASE c.mode = "none" -> Typed(e, rs, ErrorType, "Value", S)
          [] c.mode \in {"check", "standard"} ->
                Checked(e, rs, c.result, "Value", FALSE, arity, CallNode(c, c.target))
          [] OTHER -> IF Unsolved(c, S) THEN Wrong("inference") ELSE Of(Concrete(c, S))

-----------------------------------------------------------------------------
(* Calls of values, builtin functions and conversions *)

\* callable_trait_signature: what a bound or an object on Callable takes.
CallableSignature(S, trait) ==
    LET t == At(S, trait) IN
    IF Kind(t) = "Nominal" /\ Name(t) = "Callable" /\ Len(Children(t)) = 2 /\ Unpacked(S, Children(t)[1]) # <<>>
    THEN <<[parameters |-> Unpacked(S, Children(t)[1])[1], result |-> Children(t)[2]]>> ELSE <<>>

\* check_call: a function value, a closure, then what Callable gives the type.
ValueCallee(S, type) ==
    LET t == At(S, type)
        bounds == IF Kind(t) # "Parameter" THEN <<>>
                  ELSE FlattenSeq([i \in DOMAIN Bounds(Name(t)) |-> CallableSignature(S, Bounds(Name(t))[i])])
        object == IF Kind(t) = "Reference" /\ KindOf(S, TargetOf(t)) = "TraitObject"
                  THEN CallableSignature(S, TargetOf(At(S, TargetOf(t)))) ELSE <<>>
        callable == bounds \o object \o CallableImplementation(S, t)
        Taking(c) == Selected("Callable", "check", <<>>, Ordinary(c.parameters), c.result)
        First(forms) == IF forms = <<>> THEN NoCallee(IF type = ErrorType THEN "" ELSE "not callable")
                        ELSE Taking(forms[1])
    IN  CASE FunctionSignature(S, t) # <<>> -> IndirectCallee(S, t)
          [] FunctionSignature(S, t) = <<>> /\ Kind(t) = "Closure" ->
                Selected("Closure", "check", <<>>, Ordinary(ClosureParameters(t)), Result(t))
          [] OTHER -> First(callable)

\* print and println
PrintConclude(e, rs, S) ==
    Typed(e, rs, Unit, "Value",
          Require(Require(S, Len(rs) = 1, "arity"),
                  \A i \in DOMAIN rs : rs[i].type = ErrorType \/ Offers(S, rs[i].type, "Display"), "display"))

\* The facts that decide what crosses a thread: a raw pointer is not Send, a
\* reference to anything but a function is a borrow (OwnershipFacts has them all).
Crosses(S, type) ==
    /\ \A t \in Subterms(S.bindings, type) : Kind(t) # "RawPointer"
    /\ ~ContainsManagedReference(S.bindings, Deep(S.bindings, type))

\* check_thread_spawn: a closure or a named function without parameters.
SpawnConclude(e, rs, S) ==
    LET t == At(S, rs[1].type)
        f == IF Kind(t) = "Reference" THEN At(S, TargetOf(t)) ELSE Nil
        named == Kind(f) = "Function" /\ rs[1].node.call # <<>> /\ rs[1].node.call.form = "reference"
        result == Result(IF Kind(t) = "Closure" THEN t ELSE f)
        callable == \/ Kind(t) = "Closure" /\ ClosureParameters(t) = <<>>
                    \/ /\ named /\ Name(f).safety = "safe" /\ FunctionReceiver(f) = <<>>
                       /\ FunctionParameters(f) = <<>> /\ rs[1].node.call.target.arguments = <<>>
    IN  CASE Len(rs) # 1 -> Typed(e, rs, ErrorType, "Value", Fail(S, "arity"))
          [] Len(rs) = 1 /\ ~callable -> Typed(e, rs, ErrorType, "Value", Fail(S, "spawn"))
          [] OTHER -> Typed(e, rs, ResultOf(Builtin("Thread", <<result>>), "SpawnError"), "Value",
                            Require(S, Crosses(S, rs[1].type) /\ Crosses(S, result), "spawn send"))

\* check_channel_create: info is [element, bounded].
ChannelCallee(e, S) ==
    [Operation(IF e.info.bounded THEN <<Usize>> ELSE <<>>,
               Tuple(<<Builtin("Sender", <<e.info.element>>), Builtin("Receiver", <<e.info.element>>)>>))
        EXCEPT !.rule = IF Crosses(S, e.info.element) THEN "" ELSE "channel send"]

\* check_numeric_conversion: the name is try_from, wrapping_from or
\* saturating_from.
ConvertConclude(e, rs, S) ==
    LET target == Primitive(e.info)
        result == IF e.name = "try_from" THEN ResultOf(target, "NumericError") ELSE target
        source == IF rs = <<>> THEN ErrorType ELSE Plain(S, rs[1].type)
        converts == \/ source = ErrorType
                    \/ IsNumeric(source) /\ (e.name # "try_from" => IsInteger(target) /\ IsInteger(source))
    IN  Typed(e, rs, result, "Value", Require(Require(S, Len(rs) = 1, "arity"), converts, "conversion"))

-----------------------------------------------------------------------------
(* Members that are not called *)

\* check_member_expression: a field of a value; a method is not a value, and
\* nothing is said of a name that is neither.
FieldPlace(place) == IF place = "CollectionInterior" THEN "Mutable" ELSE place
MemberConclude(e, rs, S) ==
    LET t == At(S, rs[1].type)
        indirect == Kind(t) \in {"Reference", "RawPointer"}
        owner == IF indirect THEN At(S, TargetOf(t)) ELSE t
        place == IF indirect THEN Through(t) ELSE rs[1].place
        declaration == IF Kind(owner) = "Foreign" THEN Name(owner).name ELSE Name(owner)
        arguments == IF Kind(owner) = "Foreign" THEN <<>> ELSE Children(owner)
        fields == SelectSeq(Declaration(declaration).fields, LAMBDA f : f.name = e.name /\ f.variant = "")
        method == SelectInherent(Deep(S.bindings, owner), e.name)
        T1 == IF Kind(t) = "RawPointer" THEN MemberState(e, S, t) ELSE S
        map == Assigned(Declaration(declaration).parameters, arguments)
    IN  CASE ~(Kind(owner) = "Nominal" \/ (Kind(owner) = "Foreign" /\ Name(owner).complete)) ->
                Typed(e, rs, ErrorType, "Value", T1)
          [] OTHER ->
                IF fields # <<>>
                THEN Typed(e, rs, Substitute(S.bindings, fields[1].type, map), FieldPlace(place),
                           Require(T1, Accessible(S, declaration, fields[1].public), "field access"))
                ELSE Typed(e, rs, ErrorType, "Value",
                           Require(T1, method = <<>> \/ Function(method[1].function).receiver = <<>>, "bound method"))

\* A member of a type that is not called: an associated function, or a method
\* with its receiver first.
TypeMemberConclude(e, S) ==
    LET target == IF e.info.self # Nil THEN e.info.self ELSE OwnType(e.info.owner)
        method == SelectInherent(target, e.name)
        instance == Instance(method[1].function, method[1].arguments, Nil)
    IN  IF method = <<>> \/ Function(method[1].function).owned # <<>> THEN Typed(e, <<>>, ErrorType, "Value", S)
        ELSE ReferenceTo(e, instance, S)

=============================================================================
