----------------------------- MODULE TraitRules -----------------------------
(***************************************************************************)
(* Implementations, their coherence, and what a type provides              *)
(* (src/traits.rs, and the annotations that src/types/lower.rs gives       *)
(* types).                                                                 *)
(*                                                                         *)
(* The variable program is the resolved and typed program that every pass  *)
(* reads:                                                                  *)
(*   declarations  [kind, module, parameters, fields, variants, derives,   *)
(*                  methods, target] by name: fields are [name, variant,   *)
(*                  type, public], variants the names of an enum's,        *)
(*                  methods (of a trait) [name, default, function], target *)
(*                  what an alias is written as                            *)
(*   impls         a sequence of [trait, target, module, parameters,       *)
(*                  methods, unsafe]; trait is Nil for an inherent block,  *)
(*                  methods map names to callables                         *)
(*   bounds        the trait types required of each generic parameter      *)
(*   functions     [parameters, owned, receiver, arguments, result,        *)
(*                  safety, public, module, foreign, body] by name         *)
(*   packages      the package of each module                              *)
(*   visible       the traits in scope in each module                      *)
(*   annotations   written types, with their position and what Self names  *)
(*   order         the functions that have a body                          *)
(* Generic parameters have names of their own throughout a program.  The   *)
(* compiler asks a declaration for each of these; the model looks it up.   *)
(***************************************************************************)
EXTENDS TypeTerms

CONSTANT QueryDepth      \* nesting at which a query counts as not returning

VARIABLE program

Declaration(name) == program.declarations[name]
Bounds(parameter) == program.bounds[parameter]
NoBindings == <<>>       \* no inference variables in declared types

Standard == {"Option", "Result"}     \* standard declarations the rules know by name
BuiltinTraits == {"Default", "PartialEq", "Eq", "PartialOrd", "Ord", "Hash", "StableHash",
                  "Copy", "Send", "Sync", "Display"}

-----------------------------------------------------------------------------
(* Patterns.  Matching a pattern assigns its parameters: [ok, map].        *)

Unmatched == [ok |-> FALSE, map |-> <<>>]

\* match_type_pattern: a repeated parameter must match equal types; closures,
\* generic parameters and inference variables match nothing but themselves.
RECURSIVE MatchPattern(_, _, _)
MatchTerms(p, a, map) ==
    CASE Kind(p) = "Parameter" /\ Name(p) \in DOMAIN map ->
            IF Equal(NoBindings, map[Name(p)], a) THEN [ok |-> TRUE, map |-> map] ELSE Unmatched
      [] Kind(p) = "Parameter" /\ Name(p) \notin DOMAIN map -> [ok |-> TRUE, map |-> map @@ (Name(p) :> a)]
      [] Kind(p) # "Parameter" /\ (Kind(p) \in {"Closure", "Never"} \/ ~SameShape(p, a)) -> Unmatched
      [] OTHER -> FoldLeft(LAMBDA m, i : IF ~m.ok THEN m
                             ELSE MatchPattern(Children(p)[i], Children(a)[i], m.map),
                           [ok |-> TRUE, map |-> map], [i \in DOMAIN Children(p) |-> i])
MatchPattern(pattern, actual, map) ==
    MatchTerms(Expanded(NoBindings, pattern), Expanded(NoBindings, actual), map)

\* type_patterns_overlap: the kinds it descends into; the others overlap only
\* when they are equal.
OverlapDescends == {"Nominal", "Builtin", "Tuple", "Array", "Slice", "Reference", "RawPointer"}

RECURSIVE PatternsOverlap(_, _)
TermsOverlap(l, r) ==
    \/ "Parameter" \in {Kind(l), Kind(r)}
    \/ /\ Kind(l) \in OverlapDescends /\ SameShape(l, r)
       /\ \A i \in DOMAIN Children(l) : PatternsOverlap(Children(l)[i], Children(r)[i])
    \/ Kind(l) \notin OverlapDescends /\ Equal(NoBindings, l, r)
PatternsOverlap(left, right) == TermsOverlap(Expanded(NoBindings, left), Expanded(NoBindings, right))

\* target_declaration: the nominal a target names.
TargetDeclaration(target) ==
    LET t == Expanded(NoBindings, target) IN
    CASE Kind(t) = "Nominal" -> <<Name(t)>> [] Kind(t) = "Foreign" -> <<Name(t).name>> [] OTHER -> <<>>

\* trait_type_name, trait_declaration_of
TraitName(trait) == IF Kind(trait) \in {"Builtin", "Nominal"} THEN Name(trait) ELSE "trait"
IsDeclaredTrait(trait) == Kind(trait) = "Nominal" /\ Declaration(Name(trait)).kind = "Trait"
IsTraitType(type) ==
    LET t == Expanded(NoBindings, type) IN
    IsDeclaredTrait(t) \/ (Kind(t) = "Builtin" /\ Name(t) \in BuiltinTraits)

-----------------------------------------------------------------------------
(* What a type provides.  A query answers "yes" or "no", or "loops" where  *)
(* the code's recursion does not come back.                                *)

\* all and any, which stop at the first answer that decides.
AllOf(answers) ==
    LET open == {i \in DOMAIN answers : answers[i] # "yes"} IN
    IF open = {} THEN "yes" ELSE answers[CHOOSE i \in open : \A j \in open : i <= j]
OrElse(answer, otherwise) == IF answer = "no" THEN otherwise ELSE answer
AnyOf(answers) == FoldRight(LAMBDA a, rest : OrElse(a, rest), answers, "no")
Answer(b) == IF b THEN "yes" ELSE "no"

\* primitive_provides
PrimitiveProvides(name, trait) ==
    \/ trait \in {"Default", "PartialEq", "PartialOrd", "Display"}
    \/ trait \in {"Eq", "Ord", "Hash"} /\ name \notin FloatNames
    \/ trait = "StableHash" /\ name \notin FloatNames \cup {"String"}

\* capability_implies: what a bound on a parameter stands for.
CapabilityImplies(provided, required) ==
    \/ provided = required
    \/ provided \in {"Eq", "Ord"} /\ required = "PartialEq"
    \/ provided = "Ord" /\ required = "PartialOrd"
    \/ provided = "StableHash" /\ required \in {"Eq", "Hash"}

\* derives, intrinsic_derivation, derives_or_intrinsic
Derives(declaration, trait) == \E i \in DOMAIN Declaration(declaration).derives :
                                    Declaration(declaration).derives[i] = trait
IntrinsicDerivation(declaration, trait) == trait = "Default" /\ declaration = "Option"
DerivesOrIntrinsic(declaration, trait) ==
    Derives(declaration, trait) \/ IntrinsicDerivation(declaration, trait)
NominalDerives(declaration, trait) ==
    IF trait = "StableHash" THEN Derives(declaration, "Eq") /\ Derives(declaration, "Hash")
    ELSE Derives(declaration, trait) /\ (trait = "Default" => Declaration(declaration).kind = "Struct")

Comparisons == {"PartialEq", "Eq", "PartialOrd", "Ord", "Hash"}

\* provides_inner, builtin owners: which query goes on to the arguments; "no"
\* and "yes" are final.
BuiltinRule(name, trait) ==
    LET owner == name \in {"Vec", "Map", "Set"}
        shares == name \in {"Shared", "Weak", "Handle"}
    IN  IF \/ owner /\ trait = "Default"
           \/ (shares \/ name = "Identity") /\ trait \in {"PartialEq", "Eq", "Hash", "StableHash"}
        THEN "yes"
        ELSE IF \/ name = "Store"
                \/ shares /\ trait \in {"PartialOrd", "Ord"}
                \/ owner /\ trait = "StableHash"
        THEN "no"
        ELSE IF (owner /\ trait = "Display") \/ trait \in Comparisons \cup {"StableHash"}
        THEN "arguments" ELSE "no"

\* The types of the fields of a declaration, those of every variant included.
FieldTypes(declaration) ==
    LET fields == Declaration(declaration).fields IN [i \in DOMAIN fields |-> fields[i].type]

RECURSIVE Query(_, _, _, _, _, _)

\* nominal_provides: a derived trait, whose fields must all have it.
NominalProvides(t, trait, substitution, assume, visiting, depth) ==
    LET inner == Assigned(Declaration(Name(t)).parameters, Children(t)) @@ substitution
        fields == FieldTypes(Name(t))
    IN  IF IntrinsicDerivation(Name(t), trait) THEN "yes"
        ELSE IF ~NominalDerives(Name(t), trait) THEN "no"
        ELSE AllOf([i \in DOMAIN fields |-> Query(fields[i], trait, inner, assume, visiting, depth)])

\* What a type has by its form.
StructureProvides(t, trait, substitution, assume, visiting, depth) ==
    LET Next(u) == Query(u, trait, substitution, assume, visiting, depth)
        every == [i \in DOMAIN Children(t) |-> Next(Children(t)[i])]
    IN  CASE Kind(t) = "Primitive" -> Answer(PrimitiveProvides(Name(t), trait))
          [] Kind(t) \in {"Tuple", "Array"} -> AllOf(every)
          [] Kind(t) = "Reference" ->
                IF \/ trait \in {"PartialEq", "Eq", "Hash"}
                   \/ /\ trait = "Callable" /\ Kind(TargetOf(t)) = "Function"
                      /\ Name(TargetOf(t)).safety = "safe"
                THEN "yes" ELSE IF trait = "Display" THEN Next(TargetOf(t)) ELSE "no"
          [] Kind(t) = "TraitObject" ->
                Answer(\/ trait \in {"PartialEq", "Eq", "Hash"}
                       \/ trait = "Display" /\ Name(TargetOf(t)) = "Display")
          [] Kind(t) = "RawPointer" -> Answer(trait \in {"Default", "PartialEq", "Eq", "Hash"})
          [] Kind(t) = "Function" -> Answer(trait \in {"PartialEq", "Eq"})
          [] Kind(t) = "Closure" -> Answer(trait = "Callable")
          [] Kind(t) = "Builtin" ->
                IF BuiltinRule(Name(t), trait) = "arguments" THEN AllOf(every)
                ELSE BuiltinRule(Name(t), trait)
          [] Kind(t) = "Nominal" -> NominalProvides(t, trait, substitution, assume, visiting, depth)
          [] OTHER -> "no"

\* manual_provides and implementation_bounds_hold: a block of the trait whose
\* target matches and whose parameters have their bounds.
BoundProvides(map, parameter, bound, assume, visiting, depth) ==
    IF parameter \notin DOMAIN map THEN "no"
    ELSE Query(map[parameter], TraitName(bound), <<>>, assume, visiting, depth)
ManualProvides(block, t, trait, assume, visiting, depth) ==
    LET match == MatchPattern(block.target, t, <<>>)
        BoundsOf(p) == AllOf([j \in DOMAIN Bounds(p) |->
                                BoundProvides(match.map, p, Bounds(p)[j], assume, visiting, depth)])
    IN  IF block.trait = Nil \/ TraitName(block.trait) # trait \/ ~match.ok THEN "no"
        ELSE AllOf([i \in DOMAIN block.parameters |-> BoundsOf(block.parameters[i])])

\* provides_inner: a query that meets itself answers no; a manual
\* implementation counts for every capability but StableHash.  The substitution
\* in force is looked up again for what it gives, so it need not come to an end.
Query(t, trait, substitution, assume, visiting, depth) ==
    LET seen == visiting \cup {<<t, trait>>}
        structural == StructureProvides(t, trait, substitution, assume, seen, depth + 1)
        manual == [k \in DOMAIN program.impls |->
                      ManualProvides(program.impls[k], t, trait, assume, seen, depth + 1)]
    IN  CASE depth > QueryDepth -> "loops"
          [] depth <= QueryDepth /\ Kind(t) = "Alias" ->
                Query(AliasTarget(t), trait, substitution, assume, visiting, depth + 1)
          [] depth <= QueryDepth /\ Kind(t) = "Parameter" ->
                IF Name(t) \in DOMAIN substitution /\ ~Equal(NoBindings, substitution[Name(t)], t)
                THEN Query(substitution[Name(t)], trait, substitution, assume, visiting, depth + 1)
                ELSE Answer(\/ assume
                            \/ \E i \in DOMAIN Bounds(Name(t)) :
                                  CapabilityImplies(TraitName(Bounds(Name(t))[i]), trait))
          [] OTHER -> IF <<t, trait>> \in visiting THEN "no"
                      ELSE IF trait = "StableHash" THEN structural
                      ELSE OrElse(structural, AnyOf(manual))

\* provides
Provides(type, trait) == Query(type, trait, <<>>, FALSE, {}, 0) = "yes"

-----------------------------------------------------------------------------
(* Selection: which implementations apply to a type *)

\* implementation_bounds_hold, and the target's pattern before it.
Applies(block, type) ==
    \E match \in {MatchPattern(block.target, type, <<>>)} :
        /\ match.ok
        /\ \A i \in DOMAIN block.parameters : \A j \in DOMAIN Bounds(block.parameters[i]) :
              /\ block.parameters[i] \in DOMAIN match.map
              /\ Provides(match.map[block.parameters[i]], TraitName(Bounds(block.parameters[i])[j]))

\* The arguments an implementation is instantiated with, in the order of its
\* parameters.
MappedFrom(map, parameters) == [i \in DOMAIN parameters |-> map[parameters[i]]]
MappedParameters(map, parameters) == MappedFrom(map, SelectSeq(parameters, LAMBDA p : p \in DOMAIN map))
ImplArguments(block, type) ==
    MappedParameters(MatchPattern(block.target, type, <<>>).map, block.parameters)

TraitMethods(trait) == Declaration(trait).methods
TraitMethod(trait, name) ==
    LET methods == TraitMethods(trait) IN SelectSeq(methods, LAMBDA m : m.name = name)
DefaultMethod(trait, name) == SelectSeq(TraitMethod(trait, name), LAMBDA m : m.default)

\* The method a block supplies: its own, or the default body of its trait.
Supplies(block, type, name) ==
    IF name \in DOMAIN block.methods
    THEN <<[function |-> block.methods[name], self |-> Nil, arguments |-> ImplArguments(block, type),
            trait |-> block.trait]>>
    ELSE IF IsDeclaredTrait(block.trait) /\ DefaultMethod(Name(block.trait), name) # <<>>
    THEN <<[function |-> DefaultMethod(Name(block.trait), name)[1].function, self |-> type,
            arguments |-> <<>>, trait |-> block.trait]>>
    ELSE <<>>

BlocksFor(type) == SelectSeq(program.impls, LAMBDA block : Applies(block, type))

\* select_inherent_method: the first inherent block that applies and has it.
SelectInherent(type, name) ==
    Then(SelectSeq(BlocksFor(type), LAMBDA b : b.trait = Nil /\ name \in DOMAIN b.methods),
         LAMBDA b : Supplies(b, type, name))

\* select_trait_method: every applicable block whose trait is in scope; more
\* than one supplier is an ambiguity.
InScope(block, scope) == block.trait # Nil /\ (IsDeclaredTrait(block.trait) => Name(block.trait) \in scope)
SuppliedBy(blocks, type, name) == FlattenSeq([k \in DOMAIN blocks |-> Supplies(blocks[k], type, name)])
SelectTrait(type, name, scope) ==
    SuppliedBy(SelectSeq(BlocksFor(type), LAMBDA b : InScope(b, scope)), type, name)

\* qualified_trait_method
QualifiedMethod(type, trait, name) ==
    Then(SelectSeq(BlocksFor(type), LAMBDA b : /\ b.trait # Nil /\ TraitName(b.trait) = trait
                                               /\ name \in DOMAIN b.methods),
         LAMBDA b : <<b.methods[name]>>)

\* implements_trait
ImplementsTrait(type, trait) ==
    \E k \in DOMAIN program.impls :
        /\ IsDeclaredTrait(program.impls[k].trait) /\ Name(program.impls[k].trait) = trait
        /\ Applies(program.impls[k], type)

\* trait_arguments_for_target: from the bounds of a parameter, or from the first
\* implementation that applies.
TraitArguments(type, trait) ==
    LET Named(u) == Kind(u) = "Nominal" /\ Name(u) = trait
        Of(t) == IF Kind(t) = "Parameter"
                 THEN Then(SelectSeq(Bounds(Name(t)), Named), LAMBDA bound : <<Children(bound)>>)
                 ELSE Then(SelectSeq(program.impls, LAMBDA b : Named(b.trait) /\ Applies(b, t)),
                           LAMBDA b : <<Children(Substitute(NoBindings, b.trait,
                                                            MatchPattern(b.target, t, <<>>).map))>>)
    IN  Of(Expanded(NoBindings, type))

\* vtable_slots, vtable_entry: the first block of the trait that applies and
\* supplies the slot.
VtableSlots(trait) == {TraitMethods(trait)[i].name : i \in DOMAIN TraitMethods(trait)}
VtableEntry(trait, type, slot) ==
    Sole(SuppliedBy(SelectSeq(BlocksFor(type), LAMBDA b : IsDeclaredTrait(b.trait) /\ Name(b.trait) = trait),
                    type, slot))

\* object_trait
ObjectTrait(type) ==
    LET t == IF Kind(type) = "Reference" THEN TargetOf(type) ELSE type IN
    IF Kind(t) = "TraitObject" /\ IsDeclaredTrait(TargetOf(t)) THEN <<Name(TargetOf(t))>> ELSE <<>>

\* object_safety_violation
ObjectSafe(trait) ==
    \A i \in DOMAIN TraitMethods(trait) :
        LET f == program.functions[TraitMethods(trait)[i].function] IN
        /\ f.owned = <<>>
        /\ f.receiver # <<>> /\ Kind(f.receiver[1]) = "Reference" /\ Kind(TargetOf(f.receiver[1])) = "Self"
        /\ \A j \in DOMAIN f.arguments : ~MentionsSelf(NoBindings, f.arguments[j].type)
        /\ ~MentionsSelf(NoBindings, f.result)

=============================================================================
