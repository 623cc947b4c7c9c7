--------------------------- MODULE OwnershipFacts ---------------------------
(***************************************************************************)
(* What the compiler knows of a type's ownership and what it does with it: *)
(* the cached query types/ownership.rs, the plan of the drop of a value    *)
(* (ir/typed/lower.rs, collect_drop_actions), and the drop helpers of the  *)
(* backend (backend/runtime.rs, emit_drop_helper).                         *)
(*                                                                         *)
(* A program's types are the arena env: env[ty] is a record                *)
(*    k      "scalar", "string", "str", "alias", "tuple", "struct",        *)
(*           "enum", "closure", "ref", "refvar", "raw", "fn", "object",    *)
(*           "generic", "trait", "error", "builtin"                        *)
(*    name   of a builtin type                                             *)
(*    args   the component types, in order                                 *)
(*    impls  the trait implementations for exactly this type (and, for a   *)
(*           generic parameter or a trait object, its bounds)              *)
(* Lists, slices and complete foreign structs behave as the tuple or       *)
(* reference their components make.                                        *)
(***************************************************************************)
EXTENDS Integers, Sequences, SequencesExt, FiniteSets, TLC

CONSTANTS Environments,  \* the type arenas of the programs examined
          MaxAsked       \* bound: the queries made before the backend runs

VARIABLES env,      \* the arena
          cache,    \* TypedProgram.ownership_cache
          asked,    \* the types queried so far
          helpers   \* the drop helpers emitted, as type |-> components dropped

vars == <<env, cache, asked, helpers>>

Present == "Present"
Absent == "Absent"
Conditional == "Conditional"
Error == "Error"
Capabilities == {"copy", "clone", "needs_drop", "contains_borrow", "send", "sync"}

(* Both fold left, and Error absorbs.                                      *)
Conjunction(states) ==
    CASE Error \in states -> Error
      [] Absent \in states -> Absent
      [] Conditional \in states -> Conditional
      [] OTHER -> Present

Disjunction(states) ==
    CASE Error \in states -> Error
      [] Present \in states -> Present
      [] Conditional \in states -> Conditional
      [] OTHER -> Absent

Facts(copy, clone, drop, borrow, send, sync) ==
    [copy |-> copy, clone |-> clone, needs_drop |-> drop, contains_borrow |-> borrow,
     send |-> send, sync |-> sync]

Plain == Facts(Present, Present, Absent, Absent, Present, Present)
Unknown == [c \in Capabilities |-> Conditional]
Erroneous == [c \in Capabilities |-> Error]
IfBound(bound) == IF bound THEN Present ELSE Conditional

(* The optimistic answer for a type that is already being computed.        *)
Seed == Facts(Present, Present, Absent, Absent, Present, Present)

-----------------------------------------------------------------------------
(* One equation per kind of type, from the facts fs of its components.     *)
Every(fs, c) == Conjunction({fs[i][c] : i \in DOMAIN fs})
Some(fs, c) == Disjunction({fs[i][c] : i \in DOMAIN fs})

(* Faulty variant: a type with its own Drop copies when its fields do.     *)
Aggregate_CopyDespiteDrop(fs, customDrop, customClone) ==
    LET copy == Every(fs, "copy")
    IN  Facts(copy, IF customClone THEN Present ELSE copy,
              IF customDrop THEN Present ELSE Some(fs, "needs_drop"),
              Some(fs, "contains_borrow"), Every(fs, "send"), Every(fs, "sync"))

Aggregate(fs, customDrop, customClone) ==
    LET copy == IF customDrop THEN Absent ELSE Every(fs, "copy")
    IN  Facts(copy,
              CASE customClone \/ copy = Present -> Present
                [] copy = Error -> Error
                [] OTHER -> Absent,
              IF customDrop THEN Present ELSE Some(fs, "needs_drop"),
              Some(fs, "contains_borrow"), Every(fs, "send"), Every(fs, "sync"))

ReferenceLike(shared, target) ==
    LET owned == IF shared THEN Present ELSE Absent
    IN  Facts(owned, owned, Absent, Present,
              IF shared THEN target.sync ELSE target.send, target.sync)

(* Every owner below is move-only; what varies is clone, drop and the two  *)
(* capabilities of threads.                                                *)
Owner(fs, clone, drop, send, sync) ==
    Facts(Absent, clone, drop, Some(fs, "contains_borrow"), send, sync)

Builtin(name, fs) ==
    LET send == Every(fs, "send")
        sync == Every(fs, "sync")
    IN  CASE name \in {"Vec", "Map", "Set", "Box"} ->
                [Aggregate(fs, TRUE, FALSE) EXCEPT !.clone = Every(fs, "clone")]
          [] name \in {"Shared", "Weak"} ->
                Owner(fs, Present, Present, Conjunction({send, sync}), sync)
          [] name = "Store" -> Owner(fs, Absent, Present, send, Absent)
          [] name = "Handle" -> Plain
          [] name = "MaybeUninit" -> Owner(fs, Absent, Absent, send, Absent)
          [] name \in {"ForeignRoot", "File", "Directory", "Thread"} ->
                Owner(fs, Absent, Present, send, sync)
          [] name \in {"Scope", "ScopedThread"} ->
                Facts(Absent, Absent, Present, Present, Absent, Absent)
          [] name \in {"Sender", "Receiver"} -> Owner(fs, Present, Present, send, send)
          [] name = "Mutex" -> Owner(fs, Absent, Present, send, send)
          [] name = "MutexGuard" ->
                Facts(Absent, Absent, Present, Present, Absent, sync)
          [] name \in {"AtomicBool", "AtomicI32", "AtomicUsize"} ->
                Owner(fs, Absent, Present, Present, Present)
          [] OTHER -> Owner(fs, Absent, Conditional, Conditional, Conditional)

(* An unsafe implementation of Send or Sync overrides the structure.       *)
Promised(t, f) ==
    [f EXCEPT !.send = IF "unsafe Send" \in t.impls THEN Present ELSE @,
              !.sync = IF "unsafe Sync" \in t.impls THEN Present ELSE @]

Equation(t, fs) == Promised(t,
    CASE t.k \in {"scalar", "fn"} -> Plain
      [] t.k = "string" -> Facts(Absent, Present, Present, Absent, Present, Present)
      [] t.k = "str" -> Facts(Present, Present, Absent, Present, Present, Present)
      [] t.k = "error" -> Erroneous
      [] t.k = "trait" -> Unknown
      [] t.k = "alias" -> fs[1]
      [] t.k = "tuple" -> Aggregate(fs, FALSE, FALSE)
      [] t.k \in {"struct", "enum"} ->
            Aggregate(fs, "Drop" \in t.impls, "Clone" \in t.impls)
      [] t.k = "closure" ->
            [Aggregate(fs, FALSE, FALSE) EXCEPT !.clone = Every(fs, "clone")]
      [] t.k = "ref" -> ReferenceLike(TRUE, fs[1])
      [] t.k = "refvar" -> ReferenceLike(FALSE, fs[1])
      [] t.k = "raw" -> Facts(Present, Present, Absent, Absent, Absent, Absent)
      [] t.k = "object" ->
            Facts(Absent, Absent, Absent, Present,
                  IfBound(t.impls \cap {"Send", "Sync"} # {}), IfBound("Sync" \in t.impls))
      [] t.k = "generic" ->
            Facts(IfBound("Copy" \in t.impls), IfBound(t.impls \cap {"Clone", "Copy"} # {}),
                  Conditional, Conditional,
                  IfBound("Send" \in t.impls), IfBound("Sync" \in t.impls))
      [] t.k = "builtin" -> Builtin(t.name, fs))

(* A raw pointer, a function type and an object do not look at what they   *)
(* name.                                                                   *)
Components(t) == IF t.k \in {"raw", "fn", "object"} THEN <<>> ELSE t.args

-----------------------------------------------------------------------------
(* Faulty variants: a cycle is always an error; a type that is already     *)
(* being computed is taken not to be copied.                               *)
InProgress_Error(ty) == Erroneous
InProgress_Pessimistic(ty) ==
    IF env[ty].k \in {"alias", "error"} THEN Erroneous ELSE [Seed EXCEPT !.copy = Absent]

InProgress(ty) == IF env[ty].k \in {"alias", "error"} THEN Erroneous ELSE Seed

(* Query.facts: depth first, an answer cached as soon as it is computed,   *)
(* even when a type still being computed was seen below it.                *)
RECURSIVE Query(_, _, _)
Query(ty, known, visiting) ==
    CASE ty \in DOMAIN known -> [facts |-> known[ty], known |-> known]
      [] ty \notin DOMAIN known /\ ty \in visiting ->
            [facts |-> InProgress(ty), known |-> known]
      [] OTHER ->
            LET step(s, child) ==
                    LET r == Query(child, s.known, visiting \cup {ty})
                    IN  [fs |-> Append(s.fs, r.facts), known |-> r.known]
                below == FoldLeft(step, [fs |-> <<>>, known |-> known],
                                  Components(env[ty]))
                facts == Equation(env[ty], below.fs)
            IN  [facts |-> facts, known |-> (ty :> facts) @@ below.known]

(* The reference: the solution of the equations reached from the seed.     *)
RECURSIVE Iterate(_)
Iterate(solution) ==
    LET below(ty) == [i \in DOMAIN Components(env[ty]) |-> solution[Components(env[ty])[i]]]
        better == [ty \in DOMAIN env |-> Equation(env[ty], below(ty))]
    IN  IF better = solution THEN solution ELSE Iterate(better)
Solution == Iterate([ty \in DOMAIN env |-> Seed])

-----------------------------------------------------------------------------
(* collect_drop_actions: the parts of a value that the drop of it touches, *)
(* in order.  A part is a path; a container has the plan of its elements.  *)
Needed(ty) == cache[ty].needs_drop \in {Present, Conditional}

(* Faulty variant: components are dropped from first to last.              *)
LastFirst_Forward(parts) == FlattenSeq(parts)

(* The plans of the components, from last to first.                        *)
LastFirst(parts) == FlattenSeq(Reverse(parts))

RECURSIVE PlanAt(_, _, _)
PlanAt(ty, path, visiting) ==
    LET t == env[ty]
        custom == IF "Drop" \in t.impls THEN <<[path |-> path, what |-> "custom"]>> ELSE <<>>
        parts(below) == LastFirst([i \in DOMAIN t.args |->
                                      PlanAt(t.args[i], Append(path, i), below)])
        leaf == IF custom = <<>> THEN <<[path |-> path, what |-> t.k]>> ELSE <<>>
    IN  IF ~Needed(ty) \/ ty \in visiting THEN <<>>
        ELSE CASE t.k = "alias" -> PlanAt(t.args[1], path, visiting \cup {ty})
               [] t.k \in {"tuple", "struct", "closure", "enum"} -> custom \o parts(visiting \cup {ty})
               [] t.k = "builtin" /\ t.name \in {"Vec", "Set", "Box", "Map"} ->
                    parts({}) \o <<[path |-> path, what |-> "free"]>>
               [] t.k = "builtin" -> <<[path |-> path, what |-> "helper"]>>
               [] t.k = "string" -> <<[path |-> path, what |-> "string"]>>
               [] OTHER -> custom \o leaf

Plan(ty) == PlanAt(ty, <<>>, {})

-----------------------------------------------------------------------------
(* type_has_drop_glue, as it stands while some helpers are emitted.        *)
RECURSIVE HasGlue(_, _)
HasGlue(ty, emitted) ==
    LET t == env[ty]
    IN  \/ ty \in DOMAIN emitted
        \/ t.k = "string" \/ "Drop" \in t.impls
        \/ /\ t.k = "builtin"
           /\ t.name \in {"Vec", "Map", "Set", "Box", "Shared", "Weak", "Store"}
        \/ /\ t.k \in {"alias", "tuple", "closure", "struct", "enum"}
           /\ \E i \in DOMAIN t.args : HasGlue(t.args[i], emitted)

OwnsByItself == {"Vec", "Map", "Set", "Box", "Shared", "Weak", "Store", "Thread",
    "ScopedThread", "Sender", "Receiver", "Mutex", "MutexGuard", "AtomicBool",
    "AtomicI32", "AtomicUsize"}

(* emit_drop_helper: whether a helper is needed is decided before those of *)
(* the components are emitted, and the body calls the components that have *)
(* glue after.                                                             *)
RECURSIVE Emit(_, _)
Emit(ty, emitted) ==
    LET t == env[ty]
        needed == \/ t.k = "string" \/ "Drop" \in t.impls
                  \/ t.k = "builtin" /\ t.name \in OwnsByItself
                  \/ /\ t.k \in {"tuple", "closure", "struct", "enum"}
                     /\ \E i \in DOMAIN t.args : HasGlue(t.args[i], emitted)
        below == FoldLeft(LAMBDA e, child : Emit(child, e), emitted @@ (ty :> {}), t.args)
    IN  CASE ty \in DOMAIN emitted -> emitted
          [] t.k = "alias" -> Emit(t.args[1], emitted)
          [] ty \notin DOMAIN emitted /\ t.k # "alias" /\ ~needed -> emitted
          [] OTHER -> [below EXCEPT ![ty] = {i \in DOMAIN t.args : HasGlue(t.args[i], below)}]

(* collect_ownership_drop_types: the helpers a drop plan calls.            *)
RECURSIVE TypeAt(_, _)
TypeAt(ty, path) ==
    CASE env[ty].k = "alias" -> TypeAt(env[ty].args[1], path)
      [] env[ty].k # "alias" /\ path = <<>> -> ty
      [] OTHER -> TypeAt(env[ty].args[Head(path)], Tail(path))
Requested(plan, ty) == {TypeAt(ty, plan[i].path) : i \in {j \in DOMAIN plan : plan[j].what = "helper"}}

-----------------------------------------------------------------------------
Init ==
    /\ env \in Environments
    /\ cache = <<>> /\ asked = {} /\ helpers = <<>>

(* ownership_facts: any part of the compiler asks, in any order.           *)
Ask(ty) ==
    /\ ty \notin asked /\ Cardinality(asked) < MaxAsked
    /\ cache' = Query(ty, cache, {}).known
    /\ asked' = asked \cup {ty}
    /\ UNCHANGED <<env, helpers>>

(* The backend emits the helpers of the types a program drops, in the      *)
(* order of their numbers.                                                 *)
EmitHelpers ==
    LET dropped == UNION {Requested(Plan(ty), ty) : ty \in asked}
    IN  /\ helpers = <<>> /\ dropped # {}
        /\ helpers' = FoldLeft(LAMBDA e, ty : Emit(ty, e), <<>>,
                               SetToSortSeq(dropped, <))
        /\ UNCHANGED <<env, cache, asked>>

Next == (helpers = <<>> /\ \E ty \in DOMAIN env : Ask(ty)) \/ EmitHelpers

Spec == Init /\ [][Next]_vars

-----------------------------------------------------------------------------
(* Whatever was asked before, and through the cycles of references of the  *)
(* arenas, the cached answers on copying, cloning and destruction are the  *)
(* solution of the equations.                                              *)
FactsSolved ==
    LET solution == Solution
    IN  \A ty \in DOMAIN cache, c \in {"copy", "clone", "needs_drop"} :
            cache[ty][c] = solution[ty][c]

(* The answers on borrows, Send and Sync never promise more than the       *)
(* equations do: a value that holds a borrow is never said to hold none,   *)
(* and one that is not safe to share is never said to be.                  *)
CapabilitiesSound ==
    LET solution == Solution
    IN  \A ty \in DOMAIN cache :
            /\ \A c \in {"send", "sync"} :
                    cache[ty][c] = Present => solution[ty][c] = Present
            /\ solution[ty].contains_borrow = Present
                    => cache[ty].contains_borrow = Present

(* The reference plan: every part that owns something, once, a part with   *)
(* its own Drop before its components, components from last to first.      *)
RECURSIVE Owning(_, _)
Owning(ty, path) ==
    LET t == env[ty]
        below == UNION {Owning(t.args[i], Append(path, i)) : i \in DOMAIN t.args}
    IN  CASE t.k = "alias" -> Owning(t.args[1], path)
          [] t.k = "string" -> {path}
          [] t.k \in {"tuple", "struct", "enum", "closure"} ->
                below \cup (IF "Drop" \in t.impls THEN {path} ELSE {})
          [] t.k = "builtin" /\ t.name \in {"Vec", "Set", "Box", "Map"} -> below \cup {path}
          [] t.k = "builtin" /\ t.name \in OwnsByItself -> {path}
          [] OTHER -> {}

Before(p, q) ==    \* the plan reaches p before q
    \E i \in 1..Len(p) + 1 :
        /\ i <= Len(q) + 1
        /\ \A j \in 1..i - 1 : p[j] = q[j]
        /\ i <= Len(p) /\ i <= Len(q) /\ p[i] > q[i]

Concrete == \A ty \in DOMAIN env : env[ty].k \notin {"generic", "trait", "error"}

(* In a program whose types are all known, dropping a value runs every     *)
(* destructor it contains exactly once, parts from last to first           *)
(* (docs/spec.md 4.1), as the plan reads them off the cached facts.        *)
PlanComplete ==
    Concrete => \A ty \in asked :
        LET plan == Plan(ty)
        IN  /\ {plan[i].path : i \in DOMAIN plan} = Owning(ty, <<>>)
            /\ \A i, j \in DOMAIN plan : i < j => /\ plan[i].path # plan[j].path
                                                  /\ ~Before(plan[j].path, plan[i].path)

(* A value the compiler copies bit by bit owns nothing: no destructor ever *)
(* runs for two copies of one resource (docs/spec.md 4.1).                 *)
CopiesOwnNothing ==
    \A ty \in DOMAIN cache :
        cache[ty].copy = Present => /\ Owning(ty, <<>>) = {}
                                    /\ cache[ty].clone = Present

(* What the compiler knows of copying and destruction is right: the        *)
(* solution of the equations, by which nothing that owns is copied.        *)
OwnershipExact == FactsSolved /\ CopiesOwnNothing

(* The helper emitted for a type drops every component that owns           *)
(* something.                                                              *)
GlueComplete ==
    \A ty \in DOMAIN helpers : \A i \in DOMAIN env[ty].args :
        Owning(env[ty].args[i], <<>>) # {} => i \in helpers[ty]
=============================================================================
