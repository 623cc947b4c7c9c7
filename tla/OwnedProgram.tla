---------------------------- MODULE OwnedProgram ----------------------------
(***************************************************************************)
(* The owned surface of one function, as the typed IR presents it to the   *)
(* move checker (src/check/moves.rs) and to the control-flow lowering      *)
(* (src/ir/control_flow/lower.rs): places, the drop actions of a binding's *)
(* type, expressions and statements.                                       *)
(*                                                                         *)
(* A place is a binding followed by at most one projection: <<b>>,         *)
(* <<b, "0">>, <<b, "1">>, or <<b, "dyn">> for an index known only at      *)
(* run time.                                                               *)
(* Types are reduced to the shapes ownership tells apart:                  *)
(*   "leaf"   an owning scalar (String, a handle);                         *)
(*   "pair"   a tuple or struct of two leaves;                             *)
(*   "array"  an array of two leaves;                                      *)
(*   "custom" a struct with its own Drop and one leaf field;               *)
(*   "option" an enum whose payload, when there is one, is a leaf;         *)
(*   "plain"  a struct of two scalars that own nothing;                    *)
(*   "ref"    a reference, and "refs" a tuple of two references.           *)
(* <<r, "*">> is the place a reference r refers to.                        *)
(* Expressions, records with a field e:                                    *)
(*   new         a call that produces an owned value (or unit)             *)
(*   read p      a copy or a borrow of p                                   *)
(*   move p      a consuming use of p                                      *)
(*   and l, r    short-circuit evaluation                                  *)
(*   try x       postfix ?                                                 *)
(*   panic       a call that never returns                                 *)
(*   borrow, get, lock, tuple, call   see BorrowCheck                      *)
(* Statements, records with a field s: let, assign, expr, return, if,      *)
(* while, for, match, block, defer, expect, break, continue, pass.         *)
(***************************************************************************)
EXTENDS Integers, Sequences, SequencesExt, FiniteSets

CONSTANTS
    Binding,    \* the local bindings of the function, parameters included
    Shape,      \* the shape of each binding's type
    Parameters  \* the bindings initialized on entry, in order

ASSUME ShapeAssumption ==
    Shape \in [Binding -> {"leaf", "pair", "array", "custom", "option", "plain", "ref", "refs"}]

ASSUME ParametersAssumption == Parameters \in Seq(Binding)

(***************************************************************************)
(* collect_drop_actions: the paths a value of each shape is destroyed by,  *)
(* in order.  A custom Drop comes before the fields, and components go in  *)
(* reverse declaration order.                                              *)
(***************************************************************************)
DropActions(shape) ==
    CASE shape = "leaf"   -> << <<>> >>
      [] shape = "pair"   -> << <<"1">>, <<"0">> >>
      [] shape = "array"  -> << <<"1">>, <<"0">> >>
      [] shape = "custom" -> << <<>>, <<"0">> >>
      [] shape = "option" -> << <<"some">> >>
      [] OTHER -> <<>>

\* One drop flag per drop action of each binding, in emission order.
BindingFlags(b) ==
    LET actions == DropActions(Shape[b])
    IN  [i \in DOMAIN actions |-> <<b>> \o actions[i]]

Slots == UNION {Range(BindingFlags(b)) : b \in Binding}

\* drop_paths_overlap: a place reaches every leaf below it, and a dynamic
\* index every element; a place below a custom action does not reach it.
Overlaps(place, flag) ==
    /\ Len(place) <= Len(flag)
    /\ \A i \in 1..Len(place) : place[i] = flag[i] \/ place[i] = "dyn"

\* matching_drop_flags: the flags of a place, in emission order.
MatchingFlags(place) ==
    SelectSeq(BindingFlags(Head(place)), LAMBDA f : Overlaps(place, f))

\* The shape of the value a place holds.  A reference is only written
\* through where what it refers to owns nothing.
PlaceShape(place) ==
    LET root == Shape[place[1]]
    IN  IF Len(place) = 1 THEN root
        ELSE IF place[Len(place)] = "*" \/ root = "plain" THEN "plain"
        ELSE IF root = "refs" THEN "ref" ELSE "leaf"

\* The value at a place may contain a borrow.
Bearing(place) == PlaceShape(place) \in {"ref", "refs"}

PatternBindings(pat) ==
    CASE pat.p = "bind" -> <<pat.b>>
      [] pat.p = "pair" -> <<pat.left, pat.right>>
      [] pat.p = "some" -> <<pat.b>>
      [] OTHER -> <<>>
=============================================================================
