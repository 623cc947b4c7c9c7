-------------------------- MODULE DeclarationRules --------------------------
(***************************************************************************)
(* What the declarations of a program must satisfy before a body is        *)
(* checked: written types (src/types/lower.rs), implementations            *)
(* (check_traits in src/traits.rs), foreign declarations and layouts       *)
(* (src/types/model.rs), and containment (src/check/containment.rs and     *)
(* check_containment_cycles in src/check/mod.rs).                          *)
(*                                                                         *)
(* A rule that a declaration breaks is reported as <<rule, subject>>.      *)
(* Written types are trees [form, name, flags, kids]; the forms are those  *)
(* of lower_type_in.                                                       *)
(***************************************************************************)
EXTENDS TraitRules

-----------------------------------------------------------------------------
(* Written types: [type, errors] for a position and the aliases being      *)
(* expanded                                                                *)

Written(form, name, flags, kids) == [form |-> form, name |-> name, flags |-> flags, kids |-> kids]
Lowered(type, errors) == [type |-> type, errors |-> errors]

BuiltinArity(name) ==
    CASE name \in {"Vec", "Set", "Box", "Shared", "Weak", "Store", "Handle", "Identity", "ForeignRoot",
                   "ForeignRootMut", "MaybeUninit", "Thread", "ScopedThread", "Sender", "Receiver",
                   "Mutex", "MutexGuard"} -> 1
      [] name = "Map" -> 2
      [] OTHER -> 0
Callables == {"print", "println", "spawn", "scope", "channel", "unbounded_channel"}

\* check_arity: missing arguments become errors, extra ones are dropped.
Fitted(arguments, arity) ==
    [i \in 1..arity |-> IF i <= Len(arguments) THEN arguments[i] ELSE ErrorType]

ErrorsOf(lowered) == UNION {lowered[i].errors : i \in DOMAIN lowered}
TypesOf(lowered) == [i \in DOMAIN lowered |-> lowered[i].type]

\* builtin_application
BuiltinType(name, types) ==
    IF name \in Callables THEN Lowered(ErrorType, {"callable"})
    ELSE Lowered(Builtin(name, Fitted(types, BuiltinArity(name))),
                 IF Len(types) # BuiltinArity(name) THEN {"arity"} ELSE {})

RECURSIVE LowerType(_, _, _, _)

\* lower_alias: an alias met while it is being expanded is a cycle.
AliasType(name, arguments, aliases) ==
    LET d == Declaration(name)
        template == LowerType(d.target, Nil, "Value", aliases \cup {name})
    IN  IF name \in aliases THEN Lowered(ErrorType, {"cycle"})
        ELSE Lowered(AliasOf(name, arguments,
                             Substitute(NoBindings, template.type, Assigned(d.parameters, arguments))),
                     template.errors)

\* declaration_application
DeclaredType(name, types, aliases) ==
    LET d == Declaration(name)
        arguments == Fitted(types, Len(d.parameters))
        made == CASE d.kind \in {"Struct", "Enum", "Trait"} -> Lowered(Nominal(name, arguments), {})
                  [] d.kind = "ForeignType" -> Lowered(Foreign(name, FALSE), {})
                  [] d.kind = "ForeignStruct" -> Lowered(Foreign(name, TRUE), {})
                  [] d.kind = "Alias" -> AliasType(name, arguments, aliases)
                  [] OTHER -> Lowered(ErrorType, {"kind"})
    IN  IF Len(types) = Len(d.parameters) THEN made
        ELSE Lowered(made.type, made.errors \cup {"arity"})

\* lower_path_type
PathType(w, self, types, aliases) ==
    CASE w.form = "self" -> IF self = Nil THEN Lowered(ErrorType, {"self"}) ELSE Lowered(self, {})
      [] w.form = "parameter" -> Lowered(Parameter(w.name), IF w.kids # <<>> THEN {"arity"} ELSE {})
      [] w.form = "builtin" -> BuiltinType(w.name, types)
      [] w.form = "named" -> DeclaredType(w.name, types, aliases)
      [] OTHER -> Lowered(ErrorType, {})

\* lower_function_type
FunctionTyped(w, types, errors) ==
    LET last == Len(types) - 1 IN
    Lowered(FunctionType(IF "unsafe" \in w.flags THEN "unsafe" ELSE "safe", "Elamite", <<>>,
                         [i \in 1..last |-> [type |-> types[i],
                                             variadic |-> "variadic" \in w.flags /\ i = last]],
                         Last(types)), errors)

\* A trait behind a reference is an object; a function behind one is never
\* mutable, and takes the reference's own unsafe.
Referenced(w, mutability, type, errors) ==
    LET f == IF Kind(type) = "Function" /\ "unsafe" \in w.flags
             THEN <<"Function", [Name(type) EXCEPT !.safety = "unsafe"], Children(type)>> ELSE type
        target == IF IsTraitType(f) THEN TraitObject(f) ELSE f
    IN  Lowered(Reference(mutability, target),
                errors \cup IF Kind(target) = "Function" /\ mutability = "mutable"
                            THEN {"mutable function"} ELSE {})
Pointed(mutability, type, errors) ==
    IF IsTraitType(type) THEN Lowered(RawPointer(mutability, ErrorType), errors \cup {"raw trait"})
    ELSE Lowered(RawPointer(mutability, type),
                 errors \cup IF Kind(type) = "Function" /\ mutability = "mutable"
                             THEN {"mutable function"} ELSE {})

\* Where the i-th part of a written type stands.
PositionBelow(w, i) ==
    CASE w.form \in {"&", "*"} -> "TraitAllowed"
      [] w.form = "fn" /\ i = Len(w.kids) -> "Return"
      [] OTHER -> "Value"

\* lower_type_in: positions are Value, TraitAllowed and Return.
LowerType(w, self, position, aliases) ==
    LET kids == [i \in DOMAIN w.kids |->
                    LowerType(w.kids[i], IF w.form = "fn" THEN Nil ELSE self, PositionBelow(w, i), aliases)]
        types == TypesOf(kids)
        below == ErrorsOf(kids)
        mutability == IF "var" \in w.flags THEN "mutable" ELSE "shared"
    IN  CASE w.form = "!" -> IF position = "Return" THEN Lowered(Never, {}) ELSE Lowered(ErrorType, {"never"})
          [] w.form = "&" -> Referenced(w, mutability, types[1], below)
          [] w.form = "*" -> Pointed(mutability, types[1], below)
          [] w.form = "fn" -> IF position = "Value" THEN Lowered(ErrorType, {"bare function"})
                              ELSE FunctionTyped(w, types, below)
          [] w.form = "array" -> Lowered(ArrayOf(types[1], w.name), below)
          [] w.form = "slice" -> Lowered(SliceOf(mutability, types[1]), below)
          [] w.form = "tuple" ->
                CASE types = <<>> -> Lowered(Unit, {})
                  [] Len(types) = 1 /\ "comma" \notin w.flags -> Lowered(types[1], below)
                  [] OTHER -> Lowered(Tuple(types), below)
          [] OTHER ->
                LET path == PathType(w, self, types, aliases) IN
                IF position # "TraitAllowed" /\ IsTraitType(path.type)
                THEN Lowered(ErrorType, below \cup path.errors \cup {"trait value"})
                ELSE Lowered(path.type, below \cup path.errors)

\* self_type_for_declaration: what Self names in a method of a block, of a trait,
\* and in a declaration itself.
OwnType(name) ==
    IF Declaration(name).kind = "Trait" THEN SelfOf(name)
    ELSE Nominal(name, [i \in DOMAIN Declaration(name).parameters |->
                            Parameter(Declaration(name).parameters[i])])

\* valid_receiver_type
ValidReceiver(receiver, self) ==
    \/ Equal(NoBindings, receiver, self)
    \/ /\ Kind(receiver) \in {"Reference", "RawPointer"}
       /\ Equal(NoBindings, TargetOf(receiver), self)

-----------------------------------------------------------------------------
(* Implementations *)

Reports(rule, subjects) == {<<rule, s>> : s \in subjects}
Blocks == DOMAIN program.impls
Block(k) == program.impls[k]
PackageOf(module) == program.packages[module]

\* substitute_signature: the signature a trait method has in an implementation.
Instantiated(f, block) ==
    LET map == Assigned(Declaration(Name(block.trait)).parameters, Children(block.trait))
        In(t) == SubstituteSelf(NoBindings, Substitute(NoBindings, t, map), block.target)
    IN  [receiver |-> [i \in DOMAIN f.receiver |-> In(f.receiver[i])],
         arguments |-> [i \in DOMAIN f.arguments |->
                            [f.arguments[i] EXCEPT !.type = In(f.arguments[i].type)]],
         result |-> In(f.result)]

\* compare_signatures: receivers, parameters, variadic markers and results; the
\* safety and the generic parameters of the two methods are not compared.
SameTypes(left, right) ==
    Len(left) = Len(right) /\ \A i \in DOMAIN left : Equal(NoBindings, left[i], right[i])
ConformingMethod(expected, actual) ==
    /\ SameTypes(expected.receiver, actual.receiver)
    /\ SameTypes(TypesOf(expected.arguments), TypesOf(actual.arguments))
    /\ \A i \in DOMAIN expected.arguments : expected.arguments[i].variadic = actual.arguments[i].variadic
    /\ Equal(NoBindings, expected.result, actual.result)

\* check_conformance
Conforms(block) ==
    LET required == TraitMethods(Name(block.trait))
        names == {required[i].name : i \in DOMAIN required}
    IN  /\ \A i \in DOMAIN required :
              IF required[i].name \in DOMAIN block.methods
              THEN ConformingMethod(Instantiated(program.functions[required[i].function], block),
                                    program.functions[block.methods[required[i].name]])
              ELSE required[i].default
        /\ DOMAIN block.methods \subseteq names

\* collect: the implementations of declared traits
Implementations == {k \in Blocks : IsDeclaredTrait(Block(k).trait)}

\* check_coherence: the orphan rule, and no two overlapping targets; a block
\* that overlaps an accepted one is reported and does not count for later ones.
LocalTo(block, module) == PackageOf(module) = PackageOf(block.module)
Orphan(block) ==
    /\ ~LocalTo(block, Declaration(Name(block.trait)).module)
    /\ LET owner == TargetDeclaration(block.target) IN
       owner = <<>> \/ ~LocalTo(block, Declaration(owner[1]).module)

\* Faulty variant: only equal targets conflict.
AcceptedBlocks_EqualOnly ==
    FoldLeft(LAMBDA seen, k :
               IF \E j \in seen : /\ Name(Block(j).trait) = Name(Block(k).trait)
                                  /\ Equal(NoBindings, Block(j).target, Block(k).target)
               THEN seen ELSE seen \cup {k},
             {}, SelectSeq([k \in Blocks |-> k], LAMBDA k : k \in Implementations))
AcceptedBlocks ==
    FoldLeft(LAMBDA seen, k :
               IF \E j \in seen : /\ Name(Block(j).trait) = Name(Block(k).trait)
                                  /\ PatternsOverlap(Block(j).target, Block(k).target)
               THEN seen ELSE seen \cup {k},
             {}, SelectSeq([k \in Blocks |-> k], LAMBDA k : k \in Implementations))

\* check_inherent_implementations
Inherent == {k \in Blocks : Block(k).trait = Nil}
InherentReports ==
    LET Owner(k) == TargetDeclaration(Block(k).target)
        Foreigner(k) == \/ Owner(k) = <<>>
                        \/ Declaration(Owner(k)[1]).kind \notin {"Struct", "Enum"}
                        \/ Declaration(Owner(k)[1]).module # Block(k).module
        Members(d) == {Declaration(d).fields[i].name : i \in DOMAIN Declaration(d).fields}
    IN  Reports("inherent target", {k \in Inherent : Foreigner(k)})
        \cup Reports("unsafe impl", {k \in Inherent : Block(k).unsafe})
        \cup Reports("inherent parameter", {k \in Inherent :
                \E i \in DOMAIN Block(k).parameters :
                    ~MentionsParameter(NoBindings, Block(k).target, Block(k).parameters[i])})
        \cup Reports("inherent member", {k \in Inherent :
                Owner(k) # <<>> /\ DOMAIN Block(k).methods \cap Members(Owner(k)[1]) # {}})
        \cup Reports("inherent overlap", {k \in Inherent :
                \E j \in Inherent : /\ j < k
                                    /\ DOMAIN Block(j).methods \cap DOMAIN Block(k).methods # {}
                                    /\ PatternsOverlap(Block(j).target, Block(k).target)})

\* check_derivations, with the prerequisites of Eq and Ord.
Derivable == {"Default", "PartialEq", "Eq", "PartialOrd", "Ord", "Hash"}
NoPrerequisite(d, trait) ==
    \/ trait = "Eq" /\ ~Derives(d, "PartialEq")
    \/ trait = "Ord" /\ ~(Derives(d, "Eq") /\ Derives(d, "PartialOrd"))
BadDerivation(d, i) ==
    LET derives == Declaration(d).derives
        trait == derives[i]
    IN  \/ \E j \in 1..(i - 1) : derives[j] = trait
        \/ trait \notin Derivable
        \/ trait = "Default" /\ Declaration(d).kind = "Enum"
        \/ NoPrerequisite(d, trait)
        \/ Query(OwnType(d), trait, <<>>, TRUE, {}, 0) # "yes"
Declared(kinds) == {d \in DOMAIN program.declarations : Declaration(d).kind \in kinds}

\* check_thread_capability_implementations, check_unsafe_implementation
CapabilityReports ==
    LET capabilities == {k \in Blocks : Block(k).trait # Nil /\ TraitName(Block(k).trait) \in {"Send", "Sync"}}
    IN  Reports("capability without unsafe", {k \in capabilities : ~Block(k).unsafe})
        \cup Reports("capability with methods", {k \in capabilities : DOMAIN Block(k).methods # {}})
        \cup Reports("unsafe impl", {k \in Implementations : Block(k).unsafe})

\* lower_function_signature: the type of self is Self, or a pointer to it.
SelfTypes(f) ==
    {Block(k).target : k \in {j \in Blocks : \E m \in DOMAIN Block(j).methods : Block(j).methods[m] = f}}
    \cup {SelfOf(d) : d \in {e \in DOMAIN program.declarations :
                                \E i \in DOMAIN TraitMethods(e) : TraitMethods(e)[i].function = f}}
ReceiverReports ==
    Reports("receiver", {f \in DOMAIN program.functions :
        /\ program.functions[f].receiver # <<>> /\ SelfTypes(f) # {}
        /\ \A self \in SelfTypes(f) : ~ValidReceiver(program.functions[f].receiver[1], self)})

\* check_traits
TraitReports ==
    Reports("derivation", {d \in Declared({"Struct", "Enum"}) :
                             \E i \in DOMAIN Declaration(d).derives : BadDerivation(d, i)})
    \cup InherentReports \cup CapabilityReports
    \cup Reports("conformance", {k \in Implementations : ~Conforms(Block(k))})
    \cup Reports("orphan", {k \in Implementations : Orphan(Block(k))})
    \cup Reports("overlap", Implementations \ AcceptedBlocks)

-----------------------------------------------------------------------------
(* Layout, foreign declarations and containment *)

Laidout == {"Vec", "Map", "Set", "Box", "Shared", "Weak", "Store", "Handle", "Formatter", "Identity",
            "ForeignRoot", "ForeignRootMut", "MaybeUninit", "Thread", "ScopedThread", "Scope", "Sender",
            "Receiver", "Mutex", "MutexGuard", "AtomicBool", "AtomicI32", "AtomicUsize", "File",
            "Directory"}

\* layout_inner, answered like a capability query.
RECURSIVE Layout(_, _, _, _)
Layout(t, substitution, visiting, depth) ==
    LET Next(u) == Layout(u, substitution, visiting \cup {t}, depth + 1)
        every == [i \in DOMAIN Children(t) |-> Next(Children(t)[i])]
        nested == IF Kind(t) = "Nominal"
                  THEN Assigned(Declaration(Name(t)).parameters, Children(t)) @@ substitution ELSE <<>>
    IN  CASE depth > QueryDepth -> "loops"
          [] depth <= QueryDepth /\ Kind(t) = "Parameter" /\ Name(t) \in DOMAIN substitution ->
                Layout(substitution[Name(t)], substitution, visiting, depth + 1)
          [] depth <= QueryDepth /\ ~(Kind(t) = "Parameter" /\ Name(t) \in DOMAIN substitution) ->
                CASE t \in visiting -> "no"
                  [] t \notin visiting /\ Kind(t) \in {"Primitive", "RawPointer", "Reference"} -> "yes"
                  [] t \notin visiting /\ Kind(t) \in {"Tuple", "Array", "Slice"} -> AllOf(every)
                  [] t \notin visiting /\ Kind(t) = "Alias" -> Next(AliasTarget(t))
                  [] t \notin visiting /\ Kind(t) = "Closure" ->
                        AllOf([i \in DOMAIN ClosureCaptures(t) |-> Next(ClosureCaptures(t)[i])])
                  [] t \notin visiting /\ Kind(t) = "Builtin" ->
                        IF Name(t) \in Laidout THEN AllOf(every) ELSE "no"
                  [] t \notin visiting /\ Kind(t) = "Nominal" ->
                        IF Declaration(Name(t)).kind \notin {"Struct", "Enum"} THEN "no"
                        ELSE AllOf([i \in DOMAIN FieldTypes(Name(t)) |->
                                     Layout(FieldTypes(Name(t))[i], nested, visiting \cup {t}, depth + 1)])
                  [] t \notin visiting /\ Kind(t) = "Foreign" ->
                        IF ~Name(t).complete THEN "no"
                        ELSE AllOf([i \in DOMAIN FieldTypes(Name(t).name) |->
                                     Next(FieldTypes(Name(t).name)[i])])
                  [] OTHER -> "no"

LayoutAvailable(t) == Layout(t, <<>>, {}, 0) = "yes"

\* abi_safe_inner: a type that contains itself is not safe.
RECURSIVE AbiSafe(_, _)
AbiSafe(t, visiting) ==
    LET Next(u) == AbiSafe(u, visiting \cup {t}) IN
    /\ t \notin visiting
    /\ \/ Kind(t) = "Primitive" /\ Name(t) \in (IntegerNames \ {"i128", "u128"}) \cup FloatNames
       \/ /\ Kind(t) = "RawPointer"
          /\ Kind(TargetOf(t)) = "Function" =>
                /\ \A i \in DOMAIN FunctionParameters(TargetOf(t)) :
                      LET parameter == FunctionParameters(TargetOf(t))[i] IN
                      ~parameter.variadic /\ Next(parameter.type)
                /\ Result(TargetOf(t)) = Unit \/ Next(Result(TargetOf(t)))
       \/ /\ Kind(t) = "Foreign" /\ Name(t).complete
          /\ \A i \in DOMAIN FieldTypes(Name(t).name) : Next(FieldTypes(Name(t).name)[i])
       \/ Kind(t) = "Alias" /\ Next(AliasTarget(t))

\* validate_foreign_declarations
ForeignFunctions == {f \in DOMAIN program.functions : program.functions[f].foreign}
BadForeignSignature(f) ==
    \/ f.receiver # <<>> \/ f.owned # <<>>
    \/ \E i \in DOMAIN f.arguments : f.arguments[i].variadic \/ ~AbiSafe(f.arguments[i].type, {})
    \/ f.result # Unit /\ ~AbiSafe(f.result, {})
ForeignReports ==
    Reports("foreign struct", {d \in Declared({"ForeignStruct"}) :
        \/ Declaration(d).parameters # <<>> \/ Declaration(d).derives # <<>>
        \/ \E i \in DOMAIN FieldTypes(d) : ~AbiSafe(FieldTypes(d)[i], {})})
    \cup Reports("foreign function", {f \in ForeignFunctions : BadForeignSignature(program.functions[f])})

\* collect_transparent_nominals: references, raw pointers and functions end it.
RECURSIVE Contained(_)
Contained(t) ==
    LET below == UNION {Contained(Children(t)[i]) : i \in DOMAIN Children(t)} IN
    CASE Kind(t) = "Nominal" -> {Name(t)} \cup below
      [] Kind(t) \in {"Builtin", "Tuple", "Array", "Slice"} -> below
      [] Kind(t) = "Alias" -> Contained(AliasTarget(t))
      [] OTHER -> {}
ContainedIn(d) == UNION {Contained(FieldTypes(d)[i]) : i \in DOMAIN FieldTypes(d)}

\* detect_cycle: a depth-first visit from every declaration in turn that flags
\* the two ends of each edge into a declaration still open; state maps the
\* declarations seen to whether they are still open.
RECURSIVE DetectCycle(_, _)
DetectCycle(d, S) ==
    [FoldSet(LAMBDA target, s :
                IF target \notin DOMAIN s.open THEN DetectCycle(target, s)
                ELSE IF s.open[target] THEN [s EXCEPT !.flagged = @ \cup {d, target}]
                ELSE s,
             [S EXCEPT !.open = (d :> TRUE) @@ @], ContainedIn(d))
       EXCEPT !.open[d] = FALSE]

\* check_containment_cycles
ContainmentReports ==
    LET nominals == Declared({"Struct", "Enum"})
        visited == FoldSet(LAMBDA d, s : IF d \in DOMAIN s.open THEN s ELSE DetectCycle(d, s),
                           [open |-> <<>>, flagged |-> {}], nominals)
    IN  Reports("containment", visited.flagged)

=============================================================================
