------------------------------- MODULE MCTypes -------------------------------
(* Small arenas in which the interesting shapes occur.                     *)
EXTENDS OwnershipFacts

T(k, args) == [k |-> k, name |-> "", args |-> args, impls |-> {}]
B(name, args) == [k |-> "builtin", name |-> name, args |-> args, impls |-> {}]
With(t, impls) == [t EXCEPT !.impls = impls]

(* 1 String, 2 i32, then every aggregate over them. *)
Plains ==
    {<<T("string", <<>>), T("scalar", <<>>), T(k, <<1, 2>>), T("tuple", <<3, 1>>),
       B(name, <<4>>), With(T("struct", <<5, 2, 1>>), impls)>> :
        k \in {"tuple", "struct", "enum", "closure"},
        name \in {"Vec", "Box", "Shared", "Store", "Mutex", "Sender", "Thread", "Handle",
                  "MaybeUninit", "MutexGuard"},
        impls \in {{}, {"Drop"}, {"Clone"}, {"unsafe Send"}}}
    \cup
    {<<T("string", <<>>), T("scalar", <<>>), B("Map", <<2, 1>>), B("Set", <<2>>),
       T("alias", <<3>>), T("tuple", <<5, 4>>)>>,
     <<T("raw", <<2>>), T("scalar", <<>>), T("ref", <<1>>), T("refvar", <<2>>),
       T("closure", <<3, 4>>), B("Vec", <<3>>)>>,
     <<With(T("generic", <<>>), {"Copy"}), T("generic", <<>>), T("tuple", <<1>>),
       T("tuple", <<1, 2>>), T("error", <<>>), T("tuple", <<5, 1>>)>>}

(* Cycles go through references only: check_containment_cycles rejects any  *)
(* other (check/mod.rs:4181).  3 refers to itself and owns something, be it *)
(* in a field or by its own Drop.                                           *)
Recursives ==
    {<<T("string", <<>>), B(name, <<1>>), T("struct", <<4, 2>>), T(k, <<3>>),
       T("tuple", <<4, 1>>)>> :
        name \in {"Store", "Mutex", "Vec"}, k \in {"ref", "refvar"}}
    \cup
    {<<T("string", <<>>), T("scalar", <<>>), With(T("struct", <<4, 2>>), {"Drop"}), T(k, <<3>>),
       B("Box", <<3>>)>> : k \in {"ref", "refvar"}}

(* 3 refers to itself, alone or through 5, and owns nothing, so that it is  *)
(* copied although its parts are still being computed when it is judged.    *)
Links ==
    {<<T("string", <<>>), T("scalar", <<>>), T(k, <<4, 2>>), T("ref", <<target>>),
       With(T("struct", <<6, own>>), impls), T("ref", <<3>>)>> :
        k \in {"struct", "enum"}, target \in {3, 5}, own \in {1, 2},
        impls \in {{}, {"Clone"}}}

MCEnvironments == Plains \cup Recursives \cup Links

(* Left out of MCEnvironments, for what was asked first decides: by the     *)
(* seed a type that holds exclusive references to itself and nothing that   *)
(* is destroyed is said to be copied, and an alias that is asked about      *)
(* while it is being computed makes all below it erroneous, which is then   *)
(* not destroyed (types/ownership.rs:45).  OwnershipExact is violated.      *)
BareCycles ==
    {<<T("string", <<>>), T("scalar", <<>>), T("struct", <<4, 2>>), T("refvar", <<3>>)>>,
     <<T("string", <<>>), T("ref", <<3>>), T("struct", <<1, 4>>), T("alias", <<2>>)>>}

(* On these CapabilitiesSound is violated: Send and Sync follow references. *)
CyclicEnvironments == Recursives \cup Links \cup BareCycles
=============================================================================
