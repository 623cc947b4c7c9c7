------------------------------- MODULE Typing -------------------------------
(***************************************************************************)
(* The checks of check_frontend (src/driver.rs) as passes over one         *)
(* program: its written types and foreign declarations, its traits, its    *)
(* bodies one function at a time, its containment.  A pass that reports    *)
(* something ends the compilation.  A program that is accepted is run from *)
(* the functions named in Entries, as Evaluation runs a checked body.      *)
(***************************************************************************)
EXTENDS Evaluation

CONSTANTS Programs,      \* the programs to check: a sequence of sets
          Samples,       \* ground types to ask about
          Entries        \* functions without parameters to run

VARIABLES phase, reports, outcomes

vars == <<program, checked, phase, reports, outcomes>>

Init == /\ \E k \in DOMAIN Programs : program \in Programs[k]
        /\ checked = <<>> /\ phase = "resolved" /\ reports = {} /\ outcomes = <<>>

\* A pass ends the compilation when it reports.
Ends(found, next) == /\ reports' = found
                     /\ phase' = IF found = {} THEN next ELSE "rejected"

\* resolve_types
AnnotationReports ==
    {<<"annotation", i>> : i \in {j \in DOMAIN program.annotations :
        LET a == program.annotations[j] IN LowerType(a.written, a.self, a.position, {}).errors # {}}}
CheckTypes ==
    /\ phase = "resolved" /\ Ends(AnnotationReports \cup ReceiverReports \cup ForeignReports, "typed")
    /\ UNCHANGED <<program, checked, outcomes>>

\* check_traits
CheckTraits ==
    /\ phase = "typed" /\ Ends(TraitReports, "bodies")
    /\ UNCHANGED <<program, checked, outcomes>>

\* check_function on the functions that have a body, in their order; every body
\* is checked whatever the others report.
Note(r) == [node |-> r.node, bindings |-> r.S.bindings, errors |-> r.S.errors]
Waiting == SubSeq(program.order, Cardinality(DOMAIN checked) + 1, Len(program.order))
CheckBody ==
    /\ phase = "bodies" /\ Waiting # <<>>
    /\ checked' = (Head(Waiting) :> Note(CheckedFunction(program.functions[Head(Waiting)]))) @@ checked
    /\ UNCHANGED <<program, phase, reports, outcomes>>

\* check_containment_cycles, after the bodies.
BodyReports == {<<"body", f>> : f \in {g \in DOMAIN checked : checked[g].errors # {}}}
CheckContainment ==
    /\ phase = "bodies" /\ Waiting = <<>>
    /\ Ends(BodyReports \cup ContainmentReports, "accepted")
    /\ UNCHANGED <<program, checked, outcomes>>

\* The program runs.
Summary(o) == [out |-> o.out, why |-> o.why]
Ended(r) == Summary(Returned(r, r.M))
Execute ==
    /\ phase = "accepted"
    /\ \E f \in (Entries \cap DOMAIN checked) \ DOMAIN outcomes :
          outcomes' = (f :> Ended(Started(f))) @@ outcomes
    /\ UNCHANGED <<program, checked, phase, reports>>

Next == CheckTypes \/ CheckTraits \/ CheckBody \/ CheckContainment \/ Execute

Spec == Init /\ [][Next]_vars

-----------------------------------------------------------------------------
(* Properties *)

\* A type that a value, a parameter or a result can have: no error in it, a trait
\* object behind a reference only, a function behind a pointer (or, where lower_type
\* allows it, as a result), arguments in the declared number.
RECURSIVE Sensible(_, _)
Sensible(t, position) ==
    LET Below(at) == \A i \in DOMAIN Children(t) : Sensible(Children(t)[i], at) IN
    CASE Kind(t) = "Error" -> FALSE
      [] Kind(t) = "Never" -> position = "result"
      [] Kind(t) = "TraitObject" -> position = "reference"
      [] Kind(t) = "Function" -> /\ position \in {"reference", "pointer", "result"}
                                 /\ \A i \in DOMAIN Children(t) :
                                       Sensible(Children(t)[i], IF i = Len(Children(t)) THEN "result" ELSE "value")
      [] Kind(t) = "Reference" -> /\ Kind(TargetOf(t)) = "Function" => Name(t) # "mutable"
                                  /\ Below("reference")
      [] Kind(t) = "RawPointer" -> Below("pointer")
      [] Kind(t) = "Alias" -> Sensible(AliasTarget(t), position)
      [] Kind(t) = "Nominal" -> /\ Declaration(Name(t)).kind # "Trait"
                                /\ Len(Children(t)) = Len(Declaration(Name(t)).parameters) /\ Below("value")
      [] Kind(t) = "Builtin" -> Name(t) \notin BuiltinTraits /\ Below("value")
      [] OTHER -> Below("value")
AnnotationsSound ==
    \A i \in DOMAIN program.annotations :
        LET a == program.annotations[i] IN
        Sensible(LowerType(a.written, a.self, a.position, {}).type, IF a.position = "Return" THEN "result" ELSE "value")

\* check_containment_cycles (mod.rs:4181): what is left has a layout that can be
\* computed, and the queries that follow fields come to an end.
LayoutsReturn ==
    \A t \in Samples :
        /\ Layout(t, <<>>, {}, 0) # "loops"
        /\ \A trait \in {"PartialEq", "StableHash"} : Query(t, trait, <<>>, FALSE, {}, 0) # "loops"

\* The checker compares function and trait-object types of targets for equality
\* only, where selection matches them part by part.
RECURSIVE Opaque(_)
Opaque(t) == Kind(t) \in {"Function", "TraitObject"} \/ \E i \in DOMAIN Children(t) : Opaque(Children(t)[i])

\* check_coherence (traits.rs:660): no ground type has two implementations of a
\* trait, as select_trait matches their targets.
CoherentSelection ==
    \A t \in Samples : \A j, k \in Implementations :
        /\ j # k /\ Block(j).trait = Block(k).trait
        /\ Applies(Block(j), t) /\ Applies(Block(k), t)
        => Opaque(Block(j).target) /\ Opaque(Block(k).target)

\* check_conformance (traits.rs:465): a type selected for an object-safe trait has
\* a function for every slot of its virtual table, so vtable_entry (1344) never
\* comes back empty-handed.
DispatchComplete ==
    \A t \in Samples : \A j \in Implementations :
        Block(j).trait # Nil /\ Applies(Block(j), t) /\ ObjectSafe(Name(Block(j).trait)) =>
            \A slot \in VtableSlots(Name(Block(j).trait)) : VtableEntry(Name(Block(j).trait), t, slot) # <<>>

\* check_inherent_implementations (traits.rs:106): no ground type has two inherent
\* methods of one name.
InherentUnique ==
    \A t \in Samples : \A j, k \in Inherent :
        j # k /\ Applies(Block(j), t) /\ Applies(Block(k), t) => DOMAIN Block(j).methods \cap DOMAIN Block(k).methods = {}

\* check_derivations (traits.rs:264): a derivation that was let through gives the
\* capability to exactly the instances all of whose fields have it.  (An instance
\* around another of the same declaration may be denied it: the query takes the
\* declared type of a field for one it is already asking about.)
PartsOf(t) == [i \in DOMAIN FieldTypes(Name(t)) |->
                   Substitute(NoBindings, FieldTypes(Name(t))[i], Assigned(Declaration(Name(t)).parameters, Children(t)))]
DerivationsDeep ==
    \A t \in {s \in Samples : Kind(s) = "Nominal"} : \A i \in DOMAIN Declaration(Name(t)).derives :
        LET trait == Declaration(Name(t)).derives[i] IN
        /\ Provides(t, trait) => \A j \in DOMAIN PartsOf(t) : Provides(PartsOf(t)[j], trait)
        /\ (/\ \A j \in DOMAIN PartsOf(t) : Provides(PartsOf(t)[j], trait)
            /\ \A j \in DOMAIN Children(t) : Name(t) \notin Contained(Children(t)[j])) => Provides(t, trait)

(***************************************************************************)
(* What check_traits (traits.rs:41) promises the passes after it, of every *)
(* ground type: at most one implementation of a trait applies to it, at    *)
(* most one inherent method has a name, one that serves a trait object has *)
(* a function for each slot, and a derived capability is that of the       *)
(* fields.  What lower_type (types/lower.rs:387) lets through is a type    *)
(* that can be, and what containment (mod.rs:4181) lets through has a      *)
(* layout that can be computed.                                            *)
(***************************************************************************)
DeclarationsSound ==
    /\ phase \in {"bodies", "accepted"} => CoherentSelection /\ InherentUnique /\ DispatchComplete /\ DerivationsDeep
    /\ phase \in {"typed", "bodies", "accepted"} => AnnotationsSound
    /\ phase = "accepted" => LayoutsReturn

(***************************************************************************)
(* run (check/mod.rs:236) and everything it calls: a program that is       *)
(* accepted does not go wrong when it runs.  Each value is of the type     *)
(* recorded for its expression, only what is writable is written or        *)
(* borrowed mutably, some arm of a match applies, a function with a result *)
(* returns it, a call reaches a function, and an operation on constants    *)
(* that was let through does not trap.                                     *)
(***************************************************************************)
CheckedSound == \A f \in DOMAIN outcomes : outcomes[f].out # "stuck"

(***************************************************************************)
(* check_match_statement (patterns.rs:6), as docs/spec.md:1397 has it:     *)
(* "Every match is exhaustive."  Some arm applies whatever the value.      *)
(***************************************************************************)
MatchesExhaustive == \A f \in DOMAIN outcomes : outcomes[f].why # "no arm"

=============================================================================
