-------------------------- MODULE StructuralValues --------------------------
(***************************************************************************)
(* Structural comparison as the C backend generates it: one equality, one  *)
(* ordering and one hash helper per type, each calling those of the        *)
(* components.  A value is a record tagged with the shape of its type:     *)
(*                                                                         *)
(*   int, bool...  [t |-> "int",    n |-> a number]                        *)
(*   float         [t |-> "float",  n |-> a number or NaN]                   *)
(*   str, String   [t |-> "str",    n |-> the text, at |-> its address]    *)
(*   Shared, Weak, Handle, Identity                                        *)
(*                 [t |-> "identity", n |-> what identifies the target]    *)
(*   tuple, array, struct                                                  *)
(*                 [t |-> "record", e |-> the components in order]         *)
(*   enum          [t |-> "enum", n |-> tag, e |-> the payload in order]   *)
(*   Vec, Set      [t |-> "vec" or "set", e |-> the elements as stored]    *)
(*   Map           [t |-> "map", e |-> the <<key, value>> pairs as stored] *)
(*                                                                         *)
(* A hash is the term the helper combines, so two hashes are the same only *)
(* if the code computes them from the same parts.                          *)
(***************************************************************************)
EXTENDS Integers, Sequences, SequencesExt

CONSTANT NaN

Number(n) == [t |-> "int", n |-> n]
Float(n) == [t |-> "float", n |-> n]
Str(n, at) == [t |-> "str", n |-> n, at |-> at]
Composite(t, e) == [t |-> t, e |-> e]
Enum(tag, e) == [t |-> "enum", n |-> tag, e |-> e]

Ordered == 0
Unordered == 2

(* el_eq_tN and component_equality.  Sets and maps are searched, since the *)
(* storage order is not part of the value; a NaN differs from itself.      *)
RECURSIVE Equal(_, _)
Equal(a, b) ==
    CASE a.t = "float" -> a.n # NaN /\ a.n = b.n
      [] a.t \in {"int", "str", "identity"} -> a.n = b.n
      [] a.t \in {"record", "vec"} ->
            /\ Len(a.e) = Len(b.e)
            /\ \A i \in DOMAIN a.e : Equal(a.e[i], b.e[i])
      [] a.t = "enum" ->
            a.n = b.n /\ \A i \in DOMAIN a.e : Equal(a.e[i], b.e[i])
      [] a.t = "set" ->
            /\ Len(a.e) = Len(b.e)
            /\ \A i \in DOMAIN a.e : \E j \in DOMAIN b.e : Equal(a.e[i], b.e[j])
      [] a.t = "map" ->
            /\ Len(a.e) = Len(b.e)
            /\ \A i \in DOMAIN a.e : \E j \in DOMAIN b.e :
                    /\ Equal(a.e[i][1], b.e[j][1])
                    /\ Equal(a.e[i][2], b.e[j][2])

(* The first component that is not equal decides, and its answer may be    *)
(* that the two are unordered.                                             *)
RECURSIVE Order(_, _), FirstDifference(_, _)
FirstDifference(a, b) ==
    IF a = <<>> \/ b = <<>> THEN Ordered
    ELSE LET order == Order(Head(a), Head(b))
         IN IF order # Ordered THEN order ELSE FirstDifference(Tail(a), Tail(b))

(* el_order_tN and component_ordering: -1, 0, 1, or 2 for unordered.       *)
Order(a, b) ==
    LET Numbers(x, y) == CASE x < y -> -1 [] x > y -> 1 [] OTHER -> Ordered
    IN  CASE a.t = "float" -> IF NaN \in {a.n, b.n} THEN Unordered ELSE Numbers(a.n, b.n)
          [] a.t \in {"int", "str"} -> Numbers(a.n, b.n)
          [] a.t = "record" -> FirstDifference(a.e, b.e)
          [] a.t = "enum" -> IF a.n # b.n THEN Numbers(a.n, b.n)
                             ELSE FirstDifference(a.e, b.e)
          [] a.t = "vec" ->
                LET order == FirstDifference(a.e, b.e)
                IN  IF order # Ordered THEN order
                    ELSE Numbers(Len(a.e), Len(b.e))

(* el_hash_tN and component_hash.  Text hashes its bytes; Handle, Shared,  *)
(* Weak and Identity hash what they identify; a helper for a Vec, a Map or *)
(* a Set, which no stable key contains, would return the seed alone.       *)
RECURSIVE Hash(_)
Hash(v) ==
    CASE v.t = "int" -> <<"u64", v.n>>
      [] v.t = "str" -> <<"bytes", v.n>>
      [] v.t = "identity" -> <<"fnv", <<"u64", v.n>>>>
      [] v.t = "record" -> <<"fnv">> \o [i \in DOMAIN v.e |-> Hash(v.e[i])]
      [] v.t = "enum" ->
            <<"fnv", <<"u64", v.n>>>> \o [i \in DOMAIN v.e |-> Hash(v.e[i])]
      [] OTHER -> <<"fnv">>

-----------------------------------------------------------------------------
(* The reference: the mathematical value a representation stands for.      *)
RECURSIVE Meaning(_)
Meaning(v) ==
    CASE v.t \in {"int", "float", "str", "identity"} -> <<v.t, v.n>>
      [] v.t \in {"record", "vec"} ->
            <<v.t, [i \in DOMAIN v.e |-> Meaning(v.e[i])]>>
      [] v.t = "enum" -> <<v.t, v.n, [i \in DOMAIN v.e |-> Meaning(v.e[i])]>>
      [] v.t = "set" -> <<v.t, {Meaning(v.e[i]) : i \in DOMAIN v.e}>>
      [] v.t = "map" ->
            <<v.t, {<<Meaning(v.e[i][1]), Meaning(v.e[i][2])>> : i \in DOMAIN v.e}>>
=============================================================================
